-------------------------- MODULE SessionPlacement --------------------------
(***************************************************************************)
(* What the control plane promises about sessions, without its threads,    *)
(* its tables, Redis and the connections: a session is at one place at     *)
(* most, it is asked for anew the first time and resumed every other time, *)
(* and a process that is asked for it starts it or refuses it.             *)
(***************************************************************************)
CONSTANTS
  Sid,  \* sessions
  Pid   \* processes

VARIABLES
  places,   \* the places where a session is, or is asked for
  begun     \* sessions that have been asked for

vars == <<places, begun>>

(* A session is on its way to a process, anew or to be resumed, or there.  *)
Place == [proc : Pid, as : {"new", "resumed", "running"}]

Init == places = [s \in Sid |-> {}] /\ begun = {}

Request(s, p) ==
  /\ places[s] = {}
  /\ places' = [places EXCEPT ![s] =
       {[proc |-> p, as |-> IF s \in begun THEN "resumed" ELSE "new"]}]
  /\ begun' = begun \cup {s}

(* The process p has been asked for the session and has not answered.      *)
Asked(s, p) ==
  \E how \in {"new", "resumed"} : places[s] = {[proc |-> p, as |-> how]}

Start(s, p) ==
  /\ Asked(s, p)
  /\ places' = [places EXCEPT ![s] = {[proc |-> p, as |-> "running"]}]
  /\ UNCHANGED begun

Refuse(s, p) ==
  /\ Asked(s, p)
  /\ places' = [places EXCEPT ![s] = {}]
  /\ UNCHANGED begun

Stop(s, p) ==
  /\ places[s] = {[proc |-> p, as |-> "running"]}
  /\ places' = [places EXCEPT ![s] = {}]
  /\ UNCHANGED begun

(* One session moves in a step.                                            *)
Next == \E s \in Sid :
          /\ places'[s] # places[s]
          /\ \E p \in Pid :
               Request(s, p) \/ Start(s, p) \/ Refuse(s, p) \/ Stop(s, p)

Spec == Init /\ [][Next]_vars
=============================================================================
