------------------------------ MODULE MhClient ------------------------------
(***************************************************************************)
(* The reading of an answer of the Ministerio de Hacienda by               *)
(* src/worker/services/mhClient.ts.  A POST that left the Worker has a     *)
(* definitive outcome only if the answer is internally consistent; every   *)
(* other answer, a timeout included, is AMBIGUOUS (MhUnavailableError).    *)
(*                                                                         *)
(* A reply keeps what the parser looks at:                                 *)
(*   http    "ok" (2xx), "unavailable" (408, 429, 5xx, timeout, transport  *)
(*           error) or "error" (any other status)                          *)
(*   estado  body.estado once trimmed and upper-cased: PROCESADO stands    *)
(*           for PROCESADO and ACEPTADO, OTHER for every other text        *)
(*           ("NO PROCESADO", "RECIBIDO", an empty or malformed body)      *)
(*   sello   body.selloRecibido is a non-blank string                      *)
(***************************************************************************)

MhReply == [http   : {"ok", "unavailable", "error"},
            estado : {"PROCESADO", "RECHAZADO", "OTHER"},
            sello  : BOOLEAN]

\* A bug for the mutation test: the seal is not required.
ParseWithoutSeal(reply) ==
    CASE reply.http = "unavailable"    -> "AMBIGUOUS"
      [] reply.http # "unavailable" /\ reply.estado = "PROCESADO" -> "ACCEPTED"
      [] reply.http # "unavailable" /\ reply.estado = "RECHAZADO" -> "REJECTED"
      [] OTHER                         -> "AMBIGUOUS"

parseMhResponse(reply) ==
    LET accepted == reply.estado = "PROCESADO" /\ reply.sello
        rejected == reply.estado = "RECHAZADO" /\ ~reply.sello
    IN  CASE reply.http = "ok" /\ accepted             -> "ACCEPTED"
          [] reply.http \in {"ok", "error"} /\ rejected -> "REJECTED"
          [] OTHER                                     -> "AMBIGUOUS"

-----------------------------------------------------------------------------
(* The Ministry, as far as the Worker relies on it (external).             *)

\* Where a submitted document stands at the Ministry.  A request that was
\* lost on the way stays IN_FLIGHT for ever.
MhTruth == {"NONE", "IN_FLIGHT", "PROCESADO", "RECHAZADO"}

\* The answers the Ministry can give: a seal is only ever issued for a
\* processed document, and an unsealed RECHAZADO that is not an outage page
\* is its verdict.  Everything else may arrive in any state.
MhCanReply(truth, reply) ==
    /\ reply.sello => truth = "PROCESADO"
    /\ (reply.estado = "RECHAZADO" /\ ~reply.sello /\ reply.http # "unavailable")
          => truth = "RECHAZADO"

=============================================================================
