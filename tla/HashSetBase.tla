---------------------------- MODULE HashSetBase ----------------------------
(***************************************************************************)
(* What every set of the library promises, src/HashSetBase.h: operations   *)
(* called by several threads at once behave as if each took effect at one  *)
(* moment between its call and its return.                                 *)
(*                                                                         *)
(* Only a successful Add or Remove changes anything, so that is the only   *)
(* effect that needs a moment of its own.  An operation that changes       *)
(* nothing may be placed at any moment of its call, so its answer has to   *)
(* be one that was right at some such moment; `seen` collects those.       *)
(***************************************************************************)
CONSTANTS
  Thread,
  Elem,
  None,      \* the argument of a thread that is in no call
  MayThrow   \* a Boolean: may a call end with an exception instead of an answer?

VARIABLES
  set,     \* the elements present
  op,      \* per thread: the operation it has called, "none" outside one
  arg,     \* per thread: the element it called it with
  answer,  \* per thread: {} until it is settled what the call returns
  seen     \* per thread: was arg present?  every answer since the call

vars == <<set, op, arg, answer, seen>>

Operation == {"Add", "Remove", "Contains"}

Init ==
  /\ set = {}
  /\ op = [t \in Thread |-> "none"]
  /\ arg = [t \in Thread |-> None]
  /\ answer = [t \in Thread |-> {}]
  /\ seen = [t \in Thread |-> {}]

\* Threads in a call about e.
Asking(e) == {t \in Thread : op[t] # "none" /\ arg[t] = e}

Call(t, o, e) ==
  /\ op[t] = "none"
  /\ op' = [op EXCEPT ![t] = o]
  /\ arg' = [arg EXCEPT ![t] = e]
  /\ seen' = [seen EXCEPT ![t] = {(e \in set)}]
  /\ UNCHANGED <<set, answer>>

\* The moment an Add or a Remove that returns true takes effect.
TakeEffect(t) ==
  /\ answer[t] = {}
  /\ answer' = [answer EXCEPT ![t] = {TRUE}]
  /\ \/ op[t] = "Add" /\ arg[t] \notin set /\ set' = set \cup {arg[t]}
     \/ op[t] = "Remove" /\ arg[t] \in set /\ set' = set \ {arg[t]}
  /\ seen' = [u \in Thread |->
                IF u \in Asking(arg[t]) THEN seen[u] \cup {(arg[t] \in set')}
                                        ELSE seen[u]]
  /\ UNCHANGED <<op, arg>>

\* An operation that changes nothing settles for an answer that was right
\* during its call.
Answer(t) ==
  /\ answer[t] = {}
  /\ \/ op[t] = "Add" /\ TRUE \in seen[t] /\ answer' = [answer EXCEPT ![t] = {FALSE}]
     \/ op[t] = "Remove" /\ FALSE \in seen[t] /\ answer' = [answer EXCEPT ![t] = {FALSE}]
     \/ /\ op[t] = "Contains"
        /\ \E b \in seen[t] : answer' = [answer EXCEPT ![t] = {b}]
  /\ UNCHANGED <<set, op, arg, seen>>

\* The call returns its answer, or throws, whatever it may have done by then.
Return(t) ==
  /\ op[t] # "none"
  /\ answer[t] # {} \/ MayThrow
  /\ op' = [op EXCEPT ![t] = "none"]
  /\ arg' = [arg EXCEPT ![t] = None]
  /\ answer' = [answer EXCEPT ![t] = {}]
  /\ seen' = [seen EXCEPT ![t] = {}]
  /\ UNCHANGED set

Next ==
  \E t \in Thread :
    \/ \E o \in Operation, e \in Elem : Call(t, o, e)
    \/ TakeEffect(t)
    \/ Answer(t)
    \/ Return(t)

Spec == Init /\ [][Next]_vars
=============================================================================
