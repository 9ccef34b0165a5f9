---------------------------- MODULE TargetMirror ----------------------------
(* What the operator promises of the files in a target.  Beside the users    *)
(* and the garbage collector, only a claim that exists changes it, to what   *)
(* the stores serve or have served; a file of the only claim never goes back *)
(* to an older content, and an edited file is never dropped.  When the lock  *)
(* of leader election breaks, two of these promises end, and no other.       *)

EXTENDS Integers

CONSTANTS Claims, Keys

VARIABLES
  life,    \* where each claim stands between its creation and its end
  served,  \* the latest content of each file in its store
  there,   \* whether the target exists
  file,    \* what it has for each file
  broken   \* whether the lock of leader election has broken

vars == <<life, served, there, file, broken>>

\* Successive contents are 0, 1, 2 ...; nothing is older than a user's edit.
Missing == -2
Edited == -1

Init ==
  /\ life = [c \in Claims |-> "absent"]
  /\ served = [k \in Keys |-> 0]
  /\ there \in BOOLEAN
  /\ file \in [Keys -> IF there THEN {Missing, Edited} ELSE {Missing}]
  /\ broken = FALSE

Create(c) ==
  /\ life[c] = "absent" /\ life' = [life EXCEPT ![c] = "here"]
  /\ UNCHANGED <<served, there, file, broken>>

Vanish(c) ==
  /\ life[c] = "here" /\ life' = [life EXCEPT ![c] = "gone"]
  /\ UNCHANGED <<served, there, file, broken>>

Serve(k) ==
  /\ served' = [served EXCEPT ![k] = @ + 1]
  /\ UNCHANGED <<life, there, file, broken>>

\* By users, and by the garbage collector.
Edit(k) ==
  /\ there /\ file' = [file EXCEPT ![k] = Edited]
  /\ UNCHANGED <<life, served, there, broken>>
Remove ==
  /\ there /\ there' = FALSE
  /\ file' = [k \in Keys |-> Missing]
  /\ UNCHANGED <<life, served, broken>>

Break == ~broken /\ broken' = TRUE /\ UNCHANGED <<life, served, there, file>>

\* A reconciliation of claim c creates or changes the target.
OneClaim == \A c, d \in Claims : c = d
Reflects(k) ==
  /\ file'[k] \in 0 .. served[k]
  /\ ~broken /\ OneClaim => file'[k] >= file[k]
Mirror(c) ==
  /\ broken \/ life[c] = "here"
  /\ there'
  /\ file' \in [Keys -> Int]
  /\ \A k \in Keys :
       \/ file'[k] = file[k]
       \/ file'[k] = Missing /\ file[k] # Edited
       \/ Reflects(k)
  /\ UNCHANGED <<life, served, broken>>

Next ==
  \/ \E c \in Claims : Create(c) \/ Vanish(c) \/ Mirror(c)
  \/ \E k \in Keys : Serve(k) \/ Edit(k)
  \/ Remove \/ Break

Spec == Init /\ [][Next]_vars
=============================================================================
