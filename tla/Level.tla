-------------------------------- MODULE Level --------------------------------
(* One level of a payload: a layout whose fields may contain layouts, which*)
(* are written and read by the level below, as an encode_* function calls  *)
(* the encoders of what it contains (src/src/protocol.cpp).                *)
EXTENDS Fields

CONSTANTS WriteSub(_, _), ReadSub(_, _, _)    \* Writer and Reader one level below

WriteField(f, v) ==
    LET each == [i \in DOMAIN v[f.name] |-> WriteSub(f.sub, v[f.name][i])]
    IN  CASE f.type = "number" -> Number(f.width, v[f.name])
          [] f.type = "string" -> TextBytes(v[f.name])
          [] f.type = "text"   -> TextBytes(Shorter(v[f.name], f.max))
          [] f.type \in Lists  ->
               IF Len(v[f.name]) > f.max THEN Refused
               ELSE Joined(<<Number(4, Len(v[f.name]))>> \o each)
          [] f.type = "array"  -> Joined(each)
          [] f.type = "part"   -> WriteSub(f.sub, v[f.name])
          [] f.type = "when"   ->
               IF v[f.sub[1]] = 0 THEN Number(1, 0)
               ELSE Joined(<<Number(1, 1), WriteSub(f.sub[2], v[f.name])>>)
          [] f.type = "oneof"  ->
               IF v[f.name].tag \notin DOMAIN f.sub THEN Refused
               ELSE Joined(<<Number(1, v[f.name].tag),
                             WriteSub(f.sub[v[f.name].tag], v[f.name].body)>>)
Write(layout, v) ==
    Joined([i \in DOMAIN layout |-> WriteField(layout[i], v)])

ReadItems(sub, p, r, n) ==
    LET after[i \in 0 .. n] ==
          IF i = 0 THEN r
          ELSE LET before == after[i - 1]
                   one    == ReadSub(sub, p, [before EXCEPT !.val = <<>>])
               IN  IF before.ok THEN [one EXCEPT !.val = Append(before.val, one.val)]
                   ELSE before
    IN  after[n]

ReadList(f, p, r) ==
    LET count == Take(p, r, 4)
        items == ReadItems(f.sub, p, [count EXCEPT !.val = <<>>], count.last)
        value == CASE f.type = "map"     -> AsMap(items.val)
                   [] f.type = "reasons" -> AsReasons(items.val)
                   [] OTHER              -> items.val
    IN  IF /\ count.ok
           /\ count.last <= f.max
           /\ f.type = "nonempty" => count.last > 0
           /\ items.ok
           /\ f.type = "map" =>
                \A i \in DOMAIN items.val : items.val[i].key.len > 0
        THEN Bind([items EXCEPT !.val = r.val], f.name, value)
        ELSE Failed(r)

ReadField(f, p, r) ==
    CASE f.type = "number" ->
           LET n == Take(p, r, f.width)
           IN  IF n.ok /\ n.last <= f.max THEN Bind(n, f.name, n.last) ELSE Failed(r)
      [] f.type \in {"string", "text"} -> ReadString(f, p, r)
      [] f.type \in Lists -> ReadList(f, p, r)
      [] f.type = "array" ->
           LET items == ReadItems(f.sub, p, [r EXCEPT !.val = <<>>], f.max)
           IN  Bind([items EXCEPT !.val = r.val], f.name, items.val)
      [] f.type = "part" ->
           LET part == ReadSub(f.sub, p, [r EXCEPT !.val = <<>>])
           IN  Bind([part EXCEPT !.val = r.val], f.name, part.val)
      [] f.type = "when" ->
           LET flag  == Take(p, r, 1)
               given == ReadSub(f.sub[2], p, [flag EXCEPT !.val = <<>>])
           IN  IF ~flag.ok \/ flag.last > 1 THEN Failed(r)
               ELSE IF flag.last = 0 THEN Bind(Bind(flag, f.sub[1], 0), f.name, <<>>)
               ELSE Bind(Bind([given EXCEPT !.val = r.val], f.sub[1], 1),
                         f.name, given.val)
      [] f.type = "oneof" ->
           LET tag  == Take(p, r, 1)
               body == ReadSub(f.sub[tag.last], p, [tag EXCEPT !.val = <<>>])
           IN  IF ~tag.ok \/ tag.last \notin DOMAIN f.sub THEN Failed(r)
               ELSE Bind([body EXCEPT !.val = r.val], f.name,
                         [tag |-> tag.last, body |-> body.val])

Read(layout, p, r) ==
    LET upto[i \in 0 .. Len(layout)] ==
          IF i = 0 THEN r
          ELSE LET before == upto[i - 1]
               IN  IF before.ok THEN ReadField(layout[i], p, before) ELSE before
    IN  upto[Len(layout)]
=============================================================================
