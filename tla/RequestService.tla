--------------------------- MODULE RequestService ---------------------------
(***************************************************************************)
(* What the service promises to the web server in front of it, without its *)
(* threads, its accept mutex or its request objects: connections are taken *)
(* in the order in which they arrived, at most Capacity of them are served *)
(* at the same time, and each of those gets at most one answer, the one    *)
(* its request calls for.  A connection that goes away before the          *)
(* parameters of its request are in gets none.                             *)
(***************************************************************************)
EXTENDS Naturals, Sequences, FiniteSets

CONSTANTS
  Conns,      \* the connections of the web server
  Shapes,     \* what a request may consist of
  Capacity,   \* how many connections are served at the same time
  Due(_)      \* the answer a request of a given shape calls for

VARIABLES
  queue,      \* connections not taken yet, in order of arrival
  serving,    \* connections being served
  want,       \* the shape of each connection's request
  answers     \* the answers written to each connection

serviceVars == <<queue, serving, want, answers>>

Init ==
  /\ queue = <<>>
  /\ serving = {}
  /\ want \in [Conns -> Shapes]
  /\ answers = [c \in Conns |-> <<>>]

Arrive(c) ==
  /\ answers[c] = <<>> /\ c \notin serving
  /\ \A i \in 1 .. Len(queue) : queue[i] # c
  /\ queue' = Append(queue, c)
  /\ UNCHANGED <<serving, want, answers>>

Take ==
  /\ queue # <<>>
  /\ Cardinality(serving) < Capacity
  /\ serving' = serving \cup {Head(queue)}
  /\ queue' = Tail(queue)
  /\ UNCHANGED <<want, answers>>

Answer(c) ==
  /\ c \in serving
  /\ answers' = [answers EXCEPT ![c] = <<Due(want[c])>>]
  /\ serving' = serving \ {c}
  /\ UNCHANGED <<queue, want>>

Abandon(c) ==
  /\ c \in serving
  /\ serving' = serving \ {c}
  /\ UNCHANGED <<queue, want, answers>>

Next == Take \/ \E c \in Conns : Arrive(c) \/ Answer(c) \/ Abandon(c)

Spec == Init /\ [][Next]_serviceVars
=============================================================================
