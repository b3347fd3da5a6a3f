---------------------------- MODULE SessionStore ----------------------------
(***************************************************************************)
(* What a subprocess promises about its sessions, without children,        *)
(* signals, shared memory, S3 and messages: a session begins with the      *)
(* memory it left when it last ended, however often it was swapped out in  *)
(* between, changes its memory only while it runs, and a session that has  *)
(* ended keeps its place and its memory until it is put away.              *)
(***************************************************************************)
EXTENDS Integers, FiniteSets

CONSTANTS
  Sid,           \* sessions
  MaxSessions    \* sessions there is room for at a time

VARIABLES
  state,    \* away, running or ended, by session
  memory,   \* what its memory holds, by session
  up        \* the subprocess exists

vars == <<state, memory, up>>

Init ==
  /\ state = [s \in Sid |-> "away"]
  /\ memory = [s \in Sid |-> 0]
  /\ up = TRUE

Begin(s) ==
  /\ up /\ state[s] = "away"
  /\ Cardinality({r \in Sid : state[r] # "away"}) < MaxSessions
  /\ state' = [state EXCEPT ![s] = "running"]
  /\ UNCHANGED <<memory, up>>

Work(s) ==
  /\ up /\ state[s] = "running"
  /\ memory' = [memory EXCEPT ![s] = @ + 1]
  /\ UNCHANGED <<state, up>>

End(s) ==
  /\ up /\ state[s] = "running"
  /\ state' = [state EXCEPT ![s] = "ended"]
  /\ UNCHANGED <<memory, up>>

PutAway(s) ==
  /\ up /\ state[s] = "ended"
  /\ state' = [state EXCEPT ![s] = "away"]
  /\ UNCHANGED <<memory, up>>

(* Only what is away survives the end of the subprocess; of the others at  *)
(* most an older memory does.                                              *)
Exit ==
  /\ up /\ up' = FALSE
  /\ state' = [s \in Sid |-> "away"]
  /\ \A s \in Sid : /\ memory'[s] <= memory[s]
                    /\ state[s] = "away" => memory'[s] = memory[s]
  /\ DOMAIN memory' = Sid

Next == Exit \/ \E s \in Sid : Begin(s) \/ Work(s) \/ End(s) \/ PutAway(s)

Spec == Init /\ [][Next]_vars
=============================================================================
