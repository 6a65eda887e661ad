--------------------------- MODULE OcspResponder ----------------------------
(***************************************************************************)
(* script/ocsp_responder.py: every request asks Vault twice for the same   *)
(* certificate, once for its status and once for its text, and Vault, or   *)
(* the network, may change in between.  Flask serves requests in parallel. *)
(***************************************************************************)
EXTENDS Integers, FiniteSets

CONSTANTS
    Certs,         \* serial numbers
    Requests,      \* request threads
    MaxOcspFaults  \* bound on Vault requests that fail

ASSUME OcspAssumption == MaxOcspFaults \in Nat

VARIABLES
    vault,       \* what Vault's PKI says of each serial (external)
    thread,      \* per request: its step and locals
    ocspFaults

ocspVars == <<vault, thread, ocspFaults>>

\* "absent": not issued yet; "tidied": issued once and removed since; "broken":
\* an entry whose certificate does not parse.
VaultStates == {"absent", "good", "revoked", "tidied", "broken"}
Answers     == {"none yet", "good", "revoked", "unknown", "error"}

\* at: what Vault said when the request came in, and after; kept for the
\* properties only.
Threads ==
    [step : {"idle", "status", "text", "building"}, cert : Certs,
     cert_status : {"good", "revoked", "unknown"}, target_cert : BOOLEAN,
     answer : Answers, at : SUBSET VaultStates]

Idle(c) == [step |-> "idle", cert |-> c, cert_status |-> "unknown",
            target_cert |-> FALSE, answer |-> "none yet", at |-> {}]

OcspTypeOK ==
    /\ vault \in [Certs -> VaultStates]
    /\ thread \in [Requests -> Threads]
    /\ ocspFaults \in 0 .. MaxOcspFaults

OcspInit ==
    /\ vault \in [Certs -> VaultStates]
    /\ \E c \in Certs : thread = [r \in Requests |-> Idle(c)]
    /\ ocspFaults = 0

-----------------------------------------------------------------------------

\* The CA issues, revokes or tidies up; a revoked certificate is never valid
\* again.
Vault(c, s) ==
    /\ <<vault[c], s>> \in {<<"absent", "good">>, <<"good", "revoked">>,
                            <<"good", "tidied">>, <<"revoked", "tidied">>}
    /\ vault' = [vault EXCEPT ![c] = s]
    /\ thread' = [r \in Requests |->
                    IF thread[r].step # "idle" /\ thread[r].cert = c
                    THEN [thread[r] EXCEPT !.at = @ \union {s}] ELSE thread[r]]
    /\ UNCHANGED ocspFaults

OcspFault == ocspFaults < MaxOcspFaults /\ ocspFaults' = ocspFaults + 1

Receive(r, c) ==
    /\ thread[r].step = "idle"
    /\ thread' = [thread EXCEPT ![r] =
                    [Idle(c) EXCEPT !.step = "status", !.at = {vault[c]}]]
    /\ UNCHANGED <<vault, ocspFaults>>

\* interroger_vault(): the entry, or None, also when the request fails.
Asked(c, v) ==
    \/ v = (IF vault[c] = "tidied" THEN "absent" ELSE vault[c]) /\ UNCHANGED ocspFaults
    \/ v = "absent" /\ OcspFault

\* Slip: revocation_time is looked at in the second answer only.
CheckStatusLate(r) ==
    /\ thread[r].step = "status"
    /\ \E v \in VaultStates :
          /\ Asked(thread[r].cert, v)
          /\ thread' = [thread EXCEPT
                ![r].step = "text",
                ![r].cert_status = IF v = "absent" THEN "unknown" ELSE "good"]
    /\ UNCHANGED vault

\* verifier_certificat()
CheckStatus(r) ==
    /\ thread[r].step = "status"
    /\ \E v \in VaultStates :
          /\ Asked(thread[r].cert, v)
          /\ thread' = [thread EXCEPT
                ![r].step = "text",
                ![r].cert_status = CASE v = "absent"  -> "unknown"
                                     [] v = "revoked" -> "revoked"
                                     [] OTHER         -> "good"]
    /\ UNCHANGED vault

\* The second request, for the certificate itself.
LoadCert(r) ==
    /\ thread[r].step = "text"
    /\ \E v \in VaultStates :
          /\ Asked(thread[r].cert, v)
          /\ thread' = [thread EXCEPT
                ![r].step = "building",
                ![r].target_cert = v \in {"good", "revoked"}]
    /\ UNCHANGED vault

\* Slip: a status outside the protocol.
RespondTryLater(r) ==
    /\ thread[r].step = "building"
    /\ thread' = [thread EXCEPT
          ![r].step = "idle",
          ![r].answer = IF thread[r].target_cert THEN thread[r].cert_status ELSE "later"]
    /\ UNCHANGED <<vault, ocspFaults>>

\* GOOD and REVOKED need the certificate.  UNKNOWN is built with a call of
\* add_response() that lacks two of its required arguments: it raises, as the
\* other two do without certificate, and the handler answers INTERNAL_ERROR.
Respond(r) ==
    /\ thread[r].step = "building"
    /\ thread' = [thread EXCEPT
          ![r].step = "idle",
          ![r].answer = IF thread[r].target_cert /\ thread[r].cert_status # "unknown"
                        THEN thread[r].cert_status ELSE "error"]
    /\ UNCHANGED <<vault, ocspFaults>>

Serve(r) == CheckStatus(r) \/ LoadCert(r) \/ Respond(r)

OcspNext ==
    \/ \E c \in Certs, s \in VaultStates : Vault(c, s)
    \/ \E r \in Requests : Serve(r) \/ \E c \in Certs : Receive(r, c)

OcspSpec == OcspInit /\ [][OcspNext]_ocspVars

-----------------------------------------------------------------------------

\* An answer is true of some moment of the request, whatever Vault does
\* between the two requests to it (lines 60-74, 89-101): in particular a
\* certificate that was revoked when the request came in is never GOOD.
AnswerTrue ==
    \A r \in Requests : thread[r].answer \in {"good", "revoked"} =>
        thread[r].answer \in thread[r].at

\* Line 138: "else:  # unknown", "Construction reponse OCSP: UNKNOWN": a
\* certificate that Vault did not have at any moment is answered UNKNOWN.
UnknownAnswered ==
    \A r \in Requests :
        thread[r].step = "idle" /\ thread[r].at \in {{"absent"}, {"tidied"}}
            => thread[r].answer = "unknown"
=============================================================================
