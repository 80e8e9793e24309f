------------------------------- MODULE MCWire -------------------------------
(* Values for the wire model, generated from the decoders' layouts: one    *)
(* plain value per layout, and for every field, at any depth, values that  *)
(* differ from the plain one in that field only, at and over its limit.    *)
EXTENDS Wire

Chars(n, t) == [len |-> n, text |-> IF n = 0 THEN "" ELSE t]
Merge(records) ==
    LET upto[i \in 0 .. Len(records)] ==
          IF i = 0 THEN <<>> ELSE records[i] @@ upto[i - 1]
    IN  upto[Len(records)]

RECURSIVE Plain(_, _), LegalOf(_), IllegalOf(_)
Items(sub, count) == SubSeq([i \in 1 .. count |-> Plain(sub, i)], 1, count)
\* The n-th of several items differs from the others in its first field.
PlainField(f, first, n) ==
    CASE f.type = "number" ->
           f.name :> (IF f.width # 1 THEN (IF first THEN n ELSE 1)
                      ELSE IF first THEN n - 1 ELSE 0)
      [] f.type \in {"string", "text"} ->
           f.name :> Chars(1, IF first THEN ToString(n) ELSE "a")
      [] f.type \in Lists -> f.name :> <<Plain(f.sub, 1)>>
      [] f.type = "array" -> f.name :> Items(f.sub, f.max)
      [] f.type = "part"  -> f.name :> Plain(f.sub, 1)
      [] f.type = "when"  -> f.sub[1] :> 1 @@ f.name :> Plain(f.sub[2], 1)
      [] f.type = "oneof" -> f.name :> [tag |-> 1, body |-> Plain(f.sub[1], 1)]
Plain(layout, n) ==
    Merge([i \in DOMAIN layout |-> PlainField(layout[i], i = 1, n)])

\* Only what the code can build: no reason without a code, no key without text.
Buildable(type, item) ==
    CASE type = "reasons" -> item.code.len > 0
      [] type = "map"     -> item.key.len > 0
      [] OTHER            -> TRUE
LegalField(f) ==
    CASE f.type = "number" ->
           {f.name :> n : n \in {0, IF f.max = Unbounded THEN 7 ELSE f.max}}
      [] f.type \in {"string", "text"} ->
           {f.name :> Chars(n, "z") : n \in {0, 1, f.max}}
      [] f.type \in Lists ->
           {f.name :> s : s \in
              {<<item>> : item \in {v \in LegalOf(f.sub) : Buildable(f.type, v)}}
              \cup {Items(f.sub, f.max), <<Plain(f.sub, 2), Plain(f.sub, 1)>>}
              \cup (IF f.type = "nonempty" THEN {} ELSE {<<>>})}
      [] f.type = "array" ->
           {f.name :> [Items(f.sub, f.max) EXCEPT ![at] = v] :
              at \in 1 .. f.max, v \in LegalOf(f.sub)}
      [] f.type = "part"  -> {f.name :> v : v \in LegalOf(f.sub)}
      [] f.type = "when"  ->
           {f.sub[1] :> 0 @@ f.name :> <<>>} \cup
           {f.sub[1] :> 1 @@ f.name :> v : v \in LegalOf(f.sub[2])}
      [] f.type = "oneof" ->
           UNION {{f.name :> [tag |-> t, body |-> v] : v \in LegalOf(f.sub[t])} :
                    t \in DOMAIN f.sub}
LegalOf(layout) ==
    {Plain(layout, 1)} \cup
    UNION {{v @@ Plain(layout, 1) : v \in LegalField(layout[i])} : i \in DOMAIN layout}

IllegalField(f) ==
    CASE f.type = "number" ->
           {f.name :> n : n \in IF f.max \in {1, Unbounded} THEN {} ELSE {f.max + 1}}
      [] f.type \in {"string", "text"} -> {f.name :> Chars(f.max + 1, "z")}
      [] f.type \in Lists ->
           {f.name :> s : s \in
              {<<item>> : item \in IllegalOf(f.sub)} \cup {Items(f.sub, f.max + 1)}
              \cup (IF f.type = "nonempty" THEN {<<>>} ELSE {})}
      [] f.type = "array" -> {}
      [] f.type = "part"  -> {f.name :> v : v \in IllegalOf(f.sub)}
      [] f.type = "when"  -> {f.sub[1] :> 1 @@ f.name :> v : v \in IllegalOf(f.sub[2])}
      [] f.type = "oneof" ->
           UNION {{f.name :> [tag |-> t, body |-> v] : v \in IllegalOf(f.sub[t])} :
                    t \in DOMAIN f.sub}
IllegalOf(layout) ==
    UNION {{v @@ Plain(layout, 1) : v \in IllegalField(layout[i])} : i \in DOMAIN layout}

\* A plan the service accepts whose edges fill the flow group.
Ring ==
    [Plain(DecodeDecisionRequest, 1) EXCEPT !.plan.direction = 1,
        !.plan.edges = SubSeq([i \in 1 .. kEdgesMax |->
            [@[1] EXCEPT !.source = 1, !.destination = 2, !.step = i]], 1, kEdgesMax)]
Definition == Plain(DecodeDefinition, 1)
Twice(f) == [Definition EXCEPT ![f] = <<@[1], @[1]>>]
Entry(k, v) == [key |-> Chars(1, k), value |-> Chars(1, v)]

MCLegal ==
    [k \in Kinds |-> LegalOf(Decoder[k]) \cup
        (IF k = "register_collective"
         THEN {Twice("participants"),
               [Definition EXCEPT !.metadata = <<Entry("k", "v"), Entry("k", "w")>>]}
         ELSE IF k = "plan_flow_group" THEN {Ring} ELSE {})]
MCIllegal ==
    [k \in Kinds |-> IllegalOf(Decoder[k]) \cup
        (IF k = "register_collective" THEN {Twice("phases"), Twice("steps")} ELSE {})]
MCSample ==
    [k \in Kinds |->
        IF k = "ingest_evidence"
        THEN {[evidence |-> [tag |-> t, body |-> Plain(DecodeEvidence[1].sub[t], 1)]] :
                t \in 1 .. 4}
        ELSE IF k = "inspect_response"     \* a body as long as inspect_* may make it
        THEN {Plain(Decoder[k], 1),
              [Plain(Decoder[k], 1) EXCEPT !.body = Chars(kFramePayloadMaxBytes, "z")]}
        ELSE {Plain(Decoder[k], 1)}]
\* A record of a collective of members 1 and 2 in its first attempt.
Pair(id) ==
    [Record([Definition EXCEPT !.id = id, !.participants = <<[member |-> 1], [member |-> 2]>>],
            id)
       EXCEPT !.state = 2, !.current_attempt = 1, !.attempt_seq = 1]
Holding(records) ==
    [topology |-> <<Plain(DecodeTopology, 1)>>, policy |-> <<Plain(DecodeTrafficPolicy, 1)>>,
     records |-> records]
\* Nothing, a collective being planned, one that was cancelled, as many as a
\* snapshot holds, and as many as the catalog does.
MCLives ==
    {NothingHeld, Holding(<<Pair(1)>>), Holding(<<[Pair(1) EXCEPT !.state = 6]>>),
     Holding(<<Pair(1), Pair(2)>>),
     [NothingHeld EXCEPT !.records = <<Pair(1), Pair(2), Pair(3)>>]}

Kept(held) ==
    [format |-> 1, written_ms |-> 5, last_epoch |-> 2, restarts |-> 1,
     topology_generation |-> 1, policy_generation |-> 1, has_topology |-> 1, has_policy |-> 1,
     topology |-> held.topology[1], policy |-> held.policy[1], records |-> held.records]
\* Snapshots that this build loads, refuses as a whole, and refuses when the
\* topology and the policy are in force already.
MCFound ==
    {Kept(Holding(<<Pair(1), Pair(2)>>)),
     [Kept(Holding(<<Pair(1)>>)) EXCEPT !.topology_generation = 2],
     [Kept(Holding(<<Pair(1)>>)) EXCEPT !.format = 2],
     Kept(Holding(<<Pair(1), [Pair(1) EXCEPT !.state = 3]>>)),
     Kept(Holding(<<Pair(1), [Pair(2) EXCEPT !.generation = 0]>>)),
     Kept(Holding(<<Pair(1), [Pair(2) EXCEPT !.participants = <<[member |-> 2], [member |-> 1]>>]>>))}
=============================================================================
