---------------------------- MODULE MCRelyingParty ----------------------------
(* Two handlers; skew 1 s, two ticks per second; a guard with one place.  A    *)
(* request of second 2 is fresh from tick 2 to tick 7, its nonce is retained   *)
(* for 6 ticks, and the wall clock may jump 3 ticks ahead, so that entries     *)
(* expire before, with and after the freshness of their requests.              *)
(* Alice rotated from k1 to k2 and bob asks for both of his keys; the log of   *)
(* carol does not replay.  The allowance is 7 curve checks: alice's request    *)
(* spends all of it, and the logs of dave (3), hugh (4), gail (7) and frank    *)
(* (8) are refused one rung earlier each.  The organization speaks for alice,  *)
(* dave and hugh, not any more for bob and erin, and others speak for it.      *)
(* Requests are delivered as sent, through each adapter, and altered.          *)
EXTENDS RelyingParty, TLC

CONSTANTS h1, h2, a, b, absent, malformed,
          alice, bob, carol, dave, org, erin, frank, gail, hugh, k1, k2, k3, k4, kb

MCHandler == {h1, h2}
HandlerSymmetry == Permutations(MCHandler)
MCNonce == {a, b}
MCBroken == {-1}
ForwardSteps == {3}
MCParticipant == {alice, bob, carol, dave, org, erin, frank, gail, hugh}
MCBareKey == {kb}
MCDecoding == [o \in {"bytes", "mangled", "none"} |-> IF o = "mangled" THEN "bytes" ELSE o]

Event(id, keys, threshold) ==
    [derives |-> id, id |-> id, keys |-> keys, threshold |-> threshold, sound |-> TRUE,
     price |-> Len(keys)]

Log(id, key) == <<Event(id, <<key>>, 1)>>
Long(id, key, length) == [i \in 1 .. length |-> Event(id, <<key>>, 1)]

(* Alice's log is given twice, once before she rotated. *)
MCKeyLogs ==
    << Log(alice, k1),
       << >>,
       Log(alice, k1) \o Log(alice, k2),
       << Event(bob, <<k3, k4>>, 2) >>,
       << [Event(carol, <<k3>>, 1) EXCEPT !.id = bob, !.price = 0] >>,
       Log(dave, k3) \o Log(dave, k3) \o Log(dave, k4),
       Long(frank, k3, 8),
       Long(gail, k3, 7),
       Long(hugh, k3, 4),
       Log(org, k4),
       Log(erin, k3) >>

Edge(issuer, subject, object, signer, digest) ==
    [issuer |-> issuer, subject |-> subject, object |-> object, signer |-> signer,
     digest |-> digest, expired |-> FALSE]

MCRelationships ==
    << Edge(org, alice, org, k4, "e1"),
       Edge(erin, alice, org, k3, "e2"),
       Edge(org, alice, org, k4, "e3"),
       Edge(org, bob, org, k4, "e4"),
       Edge(org, erin, org, k4, "e5"),
       Edge(org, dave, org, k4, "e6"),
       Edge(org, hugh, org, k4, "e7") >>

Withdrawal(issuer, digest, signer) ==
    [issuer |-> issuer, revokes |-> digest, signer |-> signer, anchor |-> 1]

MCRevocations ==
    << Withdrawal(org, "e1", k4), Withdrawal(erin, "e4", k3), Withdrawal(org, "e4", k4),
       Withdrawal(org, "e5", k4), Withdrawal(erin, "e3", k3) >>

(* One grant of the subject's: its log is replayed, of gail seven events and of *)
(* the others two curve checks' worth, and its signature is checked.           *)
Chain(subject, audience, abilities) ==
    [subject |-> subject, audience |-> audience, abilities |-> abilities,
     reason |-> "valid", cost |-> IF subject = gail THEN 8 ELSE 3,
     short |-> "grant_issuer_key_log_too_expensive", replayed |-> {subject}]

ForAlice == Chain(alice, kb, {"pay"})

Put(keyId, key, created, nonce, grants) ==
    [method |-> "PUT", body |-> "bytes", keyId |-> keyId, key |-> key, created |-> created,
     nonce |-> nonce, grants |-> grants]

Get(keyId, key, created, nonce) ==
    [Put(keyId, key, created, nonce, absent) EXCEPT !.method = "GET", !.body = "none"]

(* What the signers mean to send, *)
Meant ==
    << Put(alice, k2, 2, a, absent), Put(kb, kb, 3, b, ForAlice), Get(alice, k2, 2, a),
       Put(alice, k1, 2, a, absent), Put(bob, k3, 2, a, absent), Put(carol, k3, 2, a, absent),
       Put(dave, k4, 2, a, absent), Put(erin, k3, 2, a, absent),
       Put(frank, k3, 2, a, absent), Put(gail, k3, 2, a, absent), Put(hugh, k3, 2, a, absent),
       Put(alice, k2, 2, a, ForAlice),
       Put(kb, kb, 3, b, Chain(bob, kb, {"pay"})),
       Put(kb, kb, 2, b, Chain(alice, kb, {})),
       Put(kb, kb, 3, b, Chain(gail, kb, {"pay"})),
       Put(kb, kb, 3, b, [ForAlice EXCEPT !.cost = 5]),
       Put(kb, kb, 3, b, [ForAlice EXCEPT !.reason = "grant_expired", !.cost = 0]) >>

SignAll(meant) ==
    [i \in DOMAIN meant |->
        SignRequest(meant[i].method, "u", meant[i].body, meant[i].keyId, meant[i].key,
                    meant[i].created, meant[i].nonce, meant[i].grants)]

Intact == SignAll(Meant)

MCSent == Range(Intact)

(* ... and what became of it. *)
Altered(sent) ==
    << [sent[1] EXCEPT !.body = "mangled"],
       [sent[1] EXCEPT !.body = "mangled", !.digest = ContentDigest("mangled")],
       [sent[1] EXCEPT !.url = "v"],
       [sent[1] EXCEPT !.grants = ForAlice],
       [sent[1] EXCEPT !.grants = ForAlice, !.input.grants = TRUE],
       [sent[1] EXCEPT !.input.nonce = b],
       [sent[1] EXCEPT !.input = malformed],
       [sent[1] EXCEPT !.digest = absent],
       [sent[2] EXCEPT !.grants = absent],
       [sent[14] EXCEPT !.grants = ForAlice] >>

By(adapter, messages) == [i \in DOMAIN messages |-> messages[i] @@ [adapter |-> adapter]]

Delivered(sent) ==
    By("raw", sent \o Altered(sent)) \o By("text", <<[sent[1] EXCEPT !.body = "mangled"]>>)
    \o By("fetch", <<sent[3]>>) \o By("unparsed", <<sent[1]>>)

MCDelivery == Delivered(Intact)

(* All of them. *)
MCRequest == 1 .. 30

HasInput(r) == MCDelivery[r].input \notin {absent, malformed}
MCCreated == [r \in MCRequest |-> IF HasInput(r) THEN MCDelivery[r].input.created ELSE 0]
MCNonceOf == [r \in MCRequest |-> IF HasInput(r) THEN MCDelivery[r].input.nonce ELSE a]
(* Bound: only these are ever verified at the same time as another: the two   *)
(* that are accepted, one with the nonce of the first that comes in by fetch, *)
(* and one whose chain gives it to somebody else.                             *)
Meeting == {1, 2, 13, 29}
FewMeet ==
    \A g, h \in Handler :
        g # h /\ pc[g] # "idle" /\ pc[h] # "idle" => {request[g], request[h]} \subseteq Meeting

MCAbilities == {"pay"}
===============================================================================
