-------------------------------- MODULE RwLock --------------------------------
(***************************************************************************)
(* What a reader/writer lock promises its users, with no queue, no counter *)
(* and no signal: who holds it, who waits for it, that readers share it    *)
(* while a writer has it alone, that writers enter in the order in which   *)
(* they began to wait, and that a writer leaves to all waiting readers.    *)
(***************************************************************************)
EXTENDS Naturals, Sequences

CONSTANTS Threads, NoOwner

VARIABLES reading,    \* how many times each thread holds the lock to read
          writing,    \* the thread that holds it to write, or NoOwner
          wantRead,   \* the threads that wait to read
          wantWrite,  \* the threads that wait to write, the oldest first
          broken      \* the process has aborted

rwvars == <<reading, writing, wantRead, wantWrite, broken>>

NobodyReads == \A t \in Threads : reading[t] = 0

RwInit ==
  /\ reading = [t \in Threads |-> 0]
  /\ writing = NoOwner
  /\ wantRead = {}
  /\ wantWrite = <<>>
  /\ broken = FALSE

Enter(t) ==
  /\ \/ /\ writing = NoOwner
        /\ reading' = [reading EXCEPT ![t] = @ + 1]
        /\ UNCHANGED writing
     \/ /\ writing = NoOwner /\ NobodyReads /\ wantWrite = <<>>
        /\ writing' = t
        /\ UNCHANGED reading
  /\ UNCHANGED <<wantRead, wantWrite, broken>>

(* A thread waits only for others: it holds nothing when it starts. *)
Await(t) ==
  /\ reading[t] = 0 /\ writing # t
  /\ \/ wantRead' = wantRead \union {t} /\ UNCHANGED wantWrite
     \/ wantWrite' = Append(wantWrite, t) /\ UNCHANGED wantRead
  /\ ~NobodyReads \/ writing # NoOwner
  /\ UNCHANGED <<reading, writing, broken>>

(* The oldest waiting writer enters. *)
NextWriter ==
  /\ wantWrite # <<>>
  /\ writing' = Head(wantWrite)
  /\ wantWrite' = Tail(wantWrite)

LeaveRead(t) ==
  /\ reading[t] > 0
  /\ LET left == [reading EXCEPT ![t] = @ - 1]
     IN /\ reading' = left
        /\ \/ UNCHANGED <<writing, wantWrite>>
           \/ /\ \A u \in Threads : left[u] = 0
              /\ NextWriter
  /\ UNCHANGED <<wantRead, broken>>

(* The writer leaves: to all the waiting readers, else to the next writer. *)
LeaveWrite(t) ==
  /\ writing = t
  /\ IF wantRead # {}
       THEN /\ reading' = [u \in Threads |-> IF u \in wantRead THEN 1 ELSE 0]
            /\ writing' = NoOwner
            /\ wantRead' = {}
            /\ UNCHANGED wantWrite
       ELSE /\ \/ NextWriter
               \/ wantWrite = <<>> /\ writing' = NoOwner /\ UNCHANGED wantWrite
            /\ UNCHANGED <<reading, wantRead>>
  /\ UNCHANGED broken

Break == broken' = TRUE /\ UNCHANGED <<reading, writing, wantRead, wantWrite>>

RwNext ==
  \/ /\ ~broken
     /\ \E t \in Threads : Enter(t) \/ Await(t) \/ LeaveRead(t) \/ LeaveWrite(t)
  \/ ~broken /\ Break

RwSpec == RwInit /\ [][RwNext]_rwvars
===============================================================================
