--------------------------- MODULE MCStreamLeases ---------------------------
(* Two streams of two principals and two tasks that compete for the one     *)
(* slot of the environment, while the scopes of their own have room.        *)
EXTENDS StreamLeases

CONSTANTS a1, b1

MCStreams == {a1, b1}
MCScopes == {"env", "principalA", "principalB", "taskA", "taskB"}
MCScopesOf ==
    [s \in Streams |->
        IF s = b1 THEN {"env", "principalB", "taskB"} ELSE {"env", "principalA", "taskA"}]
MCLimit == [k \in Scopes |-> IF k = "principalA" THEN 2 ELSE 1]

=============================================================================
