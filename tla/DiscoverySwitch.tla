---------------------------- MODULE DiscoverySwitch ----------------------------
(***************************************************************************)
(* What the DiscoveryConfigController promises, without its calls: a user  *)
(* chooses where the addons of imported clusters are installed, and passes *)
(* move a set of objects to that side one by one.                          *)
(*                                                                         *)
(* A pass moves in one direction, the one chosen when it began, whatever   *)
(* the user chooses meanwhile; it ends when every object is on its side    *)
(* that nobody else has touched since, and else it is repeated.  It may    *)
(* give up, but only before it looked.  Module DiscoveryConfig implements  *)
(* this.                                                                   *)
(***************************************************************************)
CONSTANTS
  Objects,  \* what is moved
  Noticed   \* the objects whose changes are noticed

VARIABLES
  choice,   \* what the user chose: "on", "off" or "none"
  side,     \* the side of each object: "on", "off", "both" or "mixed"
  pass,     \* the direction of the pass that runs, "none" if it moves nothing, or "idle"
  begun,    \* the pass has begun to look at objects
  pending,  \* another pass will run
  touched,  \* objects that somebody else touched since a pass looked at them
  gaveUp    \* the last pass gave up

vars == <<choice, side, pass, begun, pending, touched, gaveUp>>

Sides == {"on", "off", "both", "mixed"}

\* An object is on the side a pass moves to, or cannot be moved.
Reached(s, direction) == s \in {direction, "both"}

Complete(direction) ==
  direction = "none" \/ \A o \in Objects \ touched : Reached(side[o], direction)

Init ==
  /\ choice = "none"
  /\ side \in [Objects -> Sides]
  /\ pass = "idle" /\ ~begun /\ ~pending /\ ~gaveUp
  /\ touched = {}

\* The user chooses, and may touch such an object with the same edit.
Choose ==
  /\ choice' \in {"on", "off", "none"}
  /\ \/ UNCHANGED side
     \/ \E o \in Noticed, s \in Sides : side' = [side EXCEPT ![o] = s]
  /\ pending'
  /\ UNCHANGED <<pass, begun, touched, gaveUp>>

\* Somebody else touches another object.
Touch ==
  /\ \E o \in Objects \ Noticed, s \in Sides :
       side' = [side EXCEPT ![o] = s] /\ touched' = touched \cup {o}
  /\ UNCHANGED <<choice, pass, begun, pending, gaveUp>>

\* Without a choice a pass need not begin.
Begin ==
  /\ pass = "idle" /\ pending
  /\ pass' = choice
  /\ ~pending' /\ ~begun' /\ ~gaveUp'
  /\ UNCHANGED <<choice, side, touched>>

Ignore ==
  /\ pass = "idle" /\ choice = "none"
  /\ ~pending'
  /\ UNCHANGED <<choice, side, pass, begun, touched, gaveUp>>

Look ==
  /\ pass \in {"on", "off"}
  /\ \E o \in Objects : touched' = touched \ {o}
  /\ begun'
  /\ UNCHANGED <<choice, side, pass, pending, gaveUp>>

\* The pass moves an object, or finds it where it belongs.  What was touched
\* since the pass looked is not overwritten, but it may be deleted.
Move ==
  /\ pass \in {"on", "off"}
  /\ \E o \in Objects, s \in Sides :
       /\ Reached(s, pass) /\ side' = [side EXCEPT ![o] = s]
       /\ (s # side[o] /\ o \in touched) => pass = "off"
       /\ touched' \in {touched, touched \ {o}}
  /\ begun'
  /\ pending' \in {pending, TRUE}
  /\ UNCHANGED <<choice, pass, gaveUp>>

Finish ==
  /\ pass # "idle"
  /\ Complete(pass) \/ pending
  /\ pass' = "idle" /\ ~begun'
  /\ UNCHANGED <<choice, side, pending, touched, gaveUp>>

GiveUp ==
  /\ pass # "idle" /\ ~begun
  /\ pass' = "idle" /\ gaveUp'
  /\ UNCHANGED <<choice, side, begun, pending, touched>>

\* A pass that failed is repeated, and looks at everything again.
Abort ==
  /\ pass' = "idle" /\ ~begun'
  /\ pending' \/ choice = "none"
  /\ touched' \subseteq touched
  /\ UNCHANGED <<choice, side, gaveUp>>

Next == Choose \/ Touch \/ Begin \/ Ignore \/ Look \/ Move \/ Finish \/ GiveUp \/ Abort

Spec == Init /\ [][Next]_vars
=============================================================================
