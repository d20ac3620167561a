---------------------------- MODULE MCLlmClient ----------------------------
(* Instances of LlmClient for TLC. *)
EXTENDS LlmClient, TLC

CONSTANTS c1, c2, c3, c4

KindOf == (c1 :> "card" @@ c2 :> "detail" @@ c3 :> "market" @@ c4 :> "classify")
Bases == (c1 :> 1 @@ c2 :> 1 @@ c3 :> 4 @@ c4 :> 1)
Articles == (c1 :> <<1, 1>> @@ c2 :> <<1>> @@ c3 :> <<>> @@ c4 :> <<>>)
=============================================================================
