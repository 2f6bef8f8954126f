------------------------- MODULE MCCalculationStream -------------------------
(* CalculationStream with one stream and one details request over one       *)
(* meeting request; lines end with LF or with CR LF.                        *)
EXTENDS CalculationStream, TLC

CONSTANTS stream, details

MCKind == (stream :> "stream") @@ (details :> "details")

MCBases == [body : Bodies, artifact : Artifacts, status : {"ok", "no-result"}]

MCLineEnds == {<<"LF">>, <<"CR", "LF">>}
===============================================================================
