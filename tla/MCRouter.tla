------------------------------ MODULE MCRouter ------------------------------
(* Values for the constants of Router that a configuration cannot write.    *)
EXTENDS Router

\* The ws queue is the larger one, as in the code (512*1024 and 256*1024).
MCQueueLimit == [m \in Managers |-> IF m = "ws" THEN 4 ELSE 2]
MCRateLimit == [m \in Managers |-> 2]
=============================================================================
