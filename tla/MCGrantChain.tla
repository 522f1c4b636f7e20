---------------------------- MODULE MCGrantChain ----------------------------
(* Three participants with logs of one or two events and a key.               *)
(*  - An honest view and ample allowances for chains of up to three links:    *)
(*    around two sound ones, each link off in any one field, and combinations *)
(*    of aud and abilities along three links.                                 *)
(*  - Views of both kinds and allowances from nothing to plenty for sound     *)
(*    chains.                                                                 *)
(*  - Chains of two links with caveats, against actions that state each field *)
(*    well, badly, at its boundary or not at all.                             *)
(* One revocation is published before the call or during it.                  *)
EXTENDS GrantChain

CONSTANTS s, a, b, k, v, w

MCParticipant == {s, a, b}
MCKey == {k}
MCLogLength == [p \in MCParticipant |-> IF p = b THEN 1 ELSE 2]

MCCurrency == {"USD", "EUR"}

Amount(units, places) == [units |-> units, places |-> places]

Cap(units, places) == [maxAmount |-> Amount(units, places), currency |-> "USD"]

(* 10, 10.00, 10.01 and 9.9; one with too many places. *)
MCCaveats ==
    {NoCaveats, [until |-> 1],
     Cap(10, 0), Cap(100, 1), Cap(99, 1), Cap(10000, 3),
     [maxAmount |-> Amount(10, 0)],
     [Cap(10, 0) EXCEPT !.currency = "usd"],
     [currency |-> "USD"], [currency |-> "EUR"], [currency |-> "usd"],
     [beneficiary |-> {"p"}], [beneficiary |-> {"p", "q"}], [beneficiary |-> {}],
     [actionId |-> "x"], [actionId |-> ""],
     [approvalTier |-> 0], [approvalTier |-> 3], [approvalTier |-> 4]}

Action ==
    [amount |-> Amount(10, 0), currency |-> "USD", beneficiary |-> "p",
     actionId |-> "x", approvalTier |-> 3]

Without(field) == [f \in DOMAIN Action \ {field} |-> Action[f]]

MCActions ==
    {Action}
    \cup {Without(field) : field \in DOMAIN Action}
    \cup {[Action EXCEPT !.amount = x] :
             x \in {Amount(1000, 2), Amount(1001, 2), Amount(99, 1), Amount(9, 0), Amount(9000, 3)}}
    \cup {[Action EXCEPT !.currency = c] : c \in {"EUR", "usd"}}
    \cup {[Action EXCEPT !.beneficiary = "q"], [Action EXCEPT !.beneficiary = ""],
          [Action EXCEPT !.actionId = ""], [Action EXCEPT !.approvalTier = 2],
          [Action EXCEPT !.approvalTier = 4]}

RootLink ==
    [subject |-> s, issuer |-> s, audience |-> a, abilities |-> {<<"d">>, <<"m">>},
     aud |-> NoAud, caveats |-> NoCaveats, proof |-> NoProof, anchor |-> 1,
     issuedAt |-> 0, expiresAt |-> Never, by |-> s]

(* a to the key k, or to the participant b. *)
ToKey(parent) ==
    [subject |-> s, issuer |-> a, audience |-> k, abilities |-> {<<"d", "c">>},
     aud |-> {v}, caveats |-> NoCaveats, proof |-> Digest(parent), anchor |-> 2,
     issuedAt |-> 0, expiresAt |-> 6, by |-> a]

ToB(parent) ==
    [ToKey(parent) EXCEPT !.audience = b, !.abilities = {<<"d">>}, !.aud = NoAud]

(* The key k, or the participant b, to a. *)
FromKey(parent) ==
    [ToKey(parent) EXCEPT !.issuer = k, !.by = k, !.audience = a, !.anchor = NoAnchor]

FromB(parent) ==
    [ToKey(parent) EXCEPT !.issuer = b, !.by = b, !.audience = a, !.anchor = 1]

Scoped(link) ==
    {[link EXCEPT !.aud = aud] : aud \in {NoAud, {v}, {w}, {v, w}}}
    \cup {[link EXCEPT !.abilities = abilities] :
             abilities \in {{<<"d">>}, {<<"d", "c">>}, {<<"d">>, <<"m">>}}}

OffByOneField(link) ==
    {link}
    \cup Scoped(link)
    \cup {[link EXCEPT !.issuer = p] : p \in {b, k}}
    \cup {[link EXCEPT !.issuer = k, !.by = k, !.anchor = NoAnchor]}
    \cup {[link EXCEPT !.audience = p] : p \in {b, k}}
    \cup {[link EXCEPT !.subject = a]}
    \cup {[link EXCEPT !.abilities = abilities] :
             abilities \in {{}, {<<"e2ee", "leaf">>}, {<<"d", "c">>, <<"x">>}}}
    \cup {[link EXCEPT !.aud = {}]}
    \cup {[link EXCEPT !.caveats = c] : c \in {Cap(10, 0), [until |-> 1]}}
    \cup {[link EXCEPT !.proof = q] : q \in {NoProof, <<"other">>}}
    \cup {[link EXCEPT !.anchor = 3], [link EXCEPT !.anchor = NoAnchor],
          [link EXCEPT !.by = "nobody"]}
    \cup {[link EXCEPT !.issuedAt = t] : t \in {5, 6}}
    \cup {[link EXCEPT !.expiresAt = t] : t \in {Never, 5}}

OneLink == {<<root>> : root \in OffByOneField(RootLink)}

TwoLinks ==
    UNION {{<<leaf, root>> : leaf \in OffByOneField(ToKey(root))} :
              root \in OffByOneField(RootLink)}

ThreeLinks ==
    UNION {UNION {{<<leaf, mid, root>> :
                      leaf \in Scoped(FromKey(mid)) \cup {[FromKey(mid) EXCEPT !.by = a]}
                               \cup Scoped(FromB(mid))} :
                     mid \in Scoped(ToKey(root)) \cup Scoped(ToB(root))} :
              root \in Scoped(RootLink)}

SoundChains ==
    LET root == RootLink
        mid == ToB(root)
    IN  {<<root>>, <<ToKey(root), root>>, <<FromB(mid), mid, root>>,
         <<[FromB(mid) EXCEPT !.by = "nobody"], mid, root>>}

(* A sound chain of two links, each with caveats. *)
CaveatChains ==
    LET capped(root) == {<<[ToKey(root) EXCEPT !.caveats = c], root>> : c \in MCCaveats}
        roots == {NoCaveats, Cap(100, 1), [beneficiary |-> {"p"}], [approvalTier |-> 3]}
    IN  UNION {capped([RootLink EXCEPT !.caveats = c]) : c \in roots}

TooLong == <<RootLink, RootLink, RootLink, RootLink>>

ShortChains == {<< >>, TooLong} \cup OneLink \cup TwoLinks

Call == [purpose |-> "request", at |-> 5, verifierId |-> v, requireAud |-> FALSE,
         checkRevocation |-> TRUE, limit |-> 99, evaluates |-> FALSE, action |-> Action]

Spending == {[Call EXCEPT !.evaluates = TRUE, !.action = action] : action \in MCActions}

MCOptions ==
    {Call, [Call EXCEPT !.requireAud = TRUE], [Call EXCEPT !.verifierId = "undefined"],
     [Call EXCEPT !.purpose = "credential"],
     [Call EXCEPT !.purpose = "record"],
     [Call EXCEPT !.purpose = "record", !.checkRevocation = FALSE],
     [Call EXCEPT !.purpose = "record", !.at = NoTime]}

MCLimits == {[Call EXCEPT !.limit = n] : n \in {0, 1, 2, 4, 7, 10, 14, 40}}

Asked(chains, asked, views) ==
    {[chain |-> c, options |-> o, view |-> w0] : c \in chains, o \in asked, w0 \in views}

MCCalls == Asked(ShortChains, MCOptions, {"honest"})
              \cup Asked(CaveatChains, Spending, {"honest"})
              \cup Asked(ThreeLinks, {Call, [Call EXCEPT !.requireAud = TRUE]}, {"honest"})
              \cup Asked(SoundChains, MCLimits, {"honest", "any"})
=============================================================================
