---------------------- MODULE MCStreamReauthorization ----------------------
(* A subject and a delegate, two keys.  Streams of the owner, of a delegated  *)
(* participant over two links, of a session key whose link expires, and ones  *)
(* whose record is off in one field.                                          *)
EXTENDS StreamReauthorization

CONSTANTS s, d, k1, k2

MCParticipant == {s, d}
MCKey == {k1, k2}

Lasting == [expiresAt |-> Never]
Expiring == [expiresAt |-> 2]

Owner ==
    [mode |-> "owner", subject |-> s, principal |-> s, satisfiedKey |-> k1,
     chain |-> << >>, shape |-> "ok", audience |-> s, chainSubject |-> s, covered |-> TRUE]

ToParticipant ==
    [Owner EXCEPT !.mode = "delegated", !.principal = d, !.audience = d,
                  !.chain = <<Lasting, Lasting>>]

ToSessionKey ==
    [Owner EXCEPT !.mode = "delegated", !.principal = k1, !.audience = k1,
                  !.chain = <<Expiring>>]

OffByOne ==
    {[ToParticipant EXCEPT !.chain = << >>], [ToParticipant EXCEPT !.audience = s],
     [ToParticipant EXCEPT !.chainSubject = d], [ToParticipant EXCEPT !.covered = FALSE]}
    \cup {[ToParticipant EXCEPT !.shape = r] :
             r \in {"grant_audience_not_admitted", "grant_audience_required",
                    "grant_e2ee_not_request_valid"}}

MCRecords == {Owner, ToParticipant, ToSessionKey} \cup OffByOne
=============================================================================
