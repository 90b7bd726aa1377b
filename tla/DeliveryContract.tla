-------------------------- MODULE DeliveryContract --------------------------
(***************************************************************************)
(* What a session promises about the messages delivered to it: a message   *)
(* is accepted into a queue once, leaves the queue into the hands of a     *)
(* turn, and becomes a row of the conversation exactly once.  The one way  *)
(* to lose it is a crash between the last two.                             *)
(***************************************************************************)
CONSTANT Msg
VARIABLES
    where,    \* the places a message is in; none before it is accepted
    again     \* may a message be injected again?

At(place) == {m \in Msg : where[m] = {place}}

Init == where = [m \in Msg |-> {}] /\ again = FALSE

Accept(m) == where[m] = {} /\ where' = [where EXCEPT ![m] = {"queue"}]

\* A turn takes a lane: some of the queued messages.
Take ==
    \E taken \in SUBSET At("queue") :
        where' = [m \in Msg |-> IF m \in taken THEN {"hand"} ELSE where[m]]

Inject(m) == m \in At("hand") /\ where' = [where EXCEPT ![m] = {"log"}]

\* A crash takes everything in hand, and nothing else.
Lose == where' = [m \in Msg |-> IF m \in At("hand") THEN {"lost"} ELSE where[m]]

Once == (\E m \in Msg : Accept(m) \/ Inject(m)) \/ Take \/ Lose

\* From then on no message is forgotten, and a row stays one.
AtLeastOnce ==
    \A m \in Msg :
        /\ where[m] = {} => where'[m] \in {{}, {"queue"}}
        /\ where[m] # {} => where'[m] # {}
        /\ "log" \in where[m] => "log" \in where'[m]

Next ==
    \/ ~again' /\ Once /\ UNCHANGED again
    \/ again' /\ AtLeastOnce

Spec == Init /\ [][Next]_<<where, again>>
=============================================================================
