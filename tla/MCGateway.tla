------------------------------ MODULE MCGateway ------------------------------
(* Two clients: one asks a model and then /im, the other /im twice and then *)
(* something that is refused.                                              *)
EXTENDS Gateway

CONSTANTS a, b

Ask(kind, body, answer, chunked) ==
  [kind |-> kind, body |-> body, answer |-> answer, chunked |-> chunked]

MCPlan == (a :> <<Ask("llm", 2, 0, FALSE), Ask("im", 0, 1, FALSE)>>)
          @@ (b :> <<Ask("im", 0, 1, TRUE), Ask("im", 0, 0, FALSE),
                     Ask("refused", 0, 0, FALSE)>>)
=============================================================================
