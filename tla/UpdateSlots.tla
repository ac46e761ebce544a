----------------------------- MODULE UpdateSlots ------------------------------
(***************************************************************************)
(* What a client's storage promises, without its files, threads and locks: *)
(* for each application one installed and at most one staged version, both *)
(* of them versions the server has announced to this client.  Whatever is  *)
(* installed or staged from the network is the version announced last; a   *)
(* staged version waits for the application to be unlocked, is then        *)
(* installed in one step, and is given up only after a death of the        *)
(* process or a failure of the disk.                                       *)
(*                                                                         *)
(* LocalStore implements this.  What it does NOT promise is visible here:  *)
(* Install ignores the lock and a staged version, which Apply may then put *)
(* over a newer installed one.                                             *)
(***************************************************************************)
EXTENDS Naturals

CONSTANTS Apps, Versions, Absent

VARIABLES
  announced,   \* version of the last transfer that arrived
  current,     \* installed version
  staged,      \* version waiting to be installed
  locked,      \* applications in use
  disturbed    \* the process has died or the disk has failed

slots == <<announced, current, staged, locked, disturbed>>

Init ==
  /\ announced = [a \in Apps |-> Absent]
  /\ current = announced /\ staged = announced
  /\ locked = [a \in Apps |-> FALSE]
  /\ disturbed = FALSE

Announce(a) ==
  /\ \E v \in Versions : v > announced[a] /\ announced' = [announced EXCEPT ![a] = v]
  /\ UNCHANGED <<current, staged, locked, disturbed>>

Install(a) ==
  /\ announced[a] # Absent
  /\ current' = [current EXCEPT ![a] = announced[a]]
  /\ UNCHANGED <<announced, staged, locked, disturbed>>

Stage(a) ==
  /\ announced[a] # Absent
  /\ staged' = [staged EXCEPT ![a] = announced[a]]
  /\ UNCHANGED <<announced, current, locked, disturbed>>

Apply(a) ==
  /\ staged[a] # Absent /\ ~locked[a]
  /\ current' = [current EXCEPT ![a] = staged[a]]
  /\ staged' = [staged EXCEPT ![a] = Absent]
  /\ UNCHANGED <<announced, locked, disturbed>>

Discard(a) ==
  /\ disturbed
  /\ staged' = [staged EXCEPT ![a] = Absent]
  /\ UNCHANGED <<announced, current, locked, disturbed>>

Lock(a) ==
  /\ locked' = [locked EXCEPT ![a] = ~@]
  /\ UNCHANGED <<announced, current, staged, disturbed>>

Disturb ==
  /\ disturbed' = TRUE
  /\ UNCHANGED <<announced, current, staged, locked>>

Next ==
  \/ Disturb
  \/ \E a \in Apps :
       Announce(a) \/ Install(a) \/ Stage(a) \/ Apply(a) \/ Discard(a) \/ Lock(a)

Spec == Init /\ [][Next]_slots
=============================================================================
