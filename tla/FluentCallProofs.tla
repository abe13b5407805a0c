-------------------------- MODULE FluentCallProofs --------------------------
(***************************************************************************)
(* Fluent calls, for any palettes, any names, chains of any length and any *)
(* catalogs that keep what the published one keeps when check_integrity    *)
(* admits them (CatalogsAssumption).                                       *)
(*                                                                         *)
(* What the runs check relates the plan, the headers and the lint to the   *)
(* whole chain, and no step can see the chain: the builder remembers only  *)
(* its parts, the lint only what it has marked.  The invariant says what   *)
(* they remember.  Of a chain that rustc admits, every field, hook, header *)
(* and spent group of the builder is accounted for by a method of the      *)
(* chain; no two methods are rivals; what a method wrote is still on the   *)
(* wire unless it was repeated; the builder is the one that the chain      *)
(* builds from the start; and for each surface the chain may end on, the   *)
(* lint held against it has issues wherever rustc has errors, and no       *)
(* others but repetitions.                                                 *)
(*                                                                         *)
(* Order: two methods that set different things commute on any builder of  *)
(* the chain, because rivals share no header but lists.  Schemas: a field  *)
(* stands for the options that set it, which the catalog keeps alike, so   *)
(* the conditions of the schema are those of the type states.  The corpus  *)
(* is about the catalog alone.                                             *)
(***************************************************************************)
EXTENDS FluentCall, FiniteSetTheorems, SequenceTheorems, WellFoundedInduction,
        NaturalsInduction, TLAPS

(* The parts of a builder after one method.                                *)
Inert(o) == o.takes \in {"entry", "callback"}

(* The plan after a method.                                                *)
PlanAfter(c, plan, s) ==
  LET o == c.options[s.id] IN
  IF o.takes = "callback" \/ (o.takes = "entry" /\ o.field = "headers") THEN plan
  ELSE IF o.takes # "entry" THEN Put(plan, o.field, PlanValue(o, s.arg))
  ELSE IF o.field \notin DOMAIN plan THEN Put(plan, o.field, Put(<<>>, s.name, s.arg))
  ELSE IF IsObject(plan[o.field]) THEN Put(plan, o.field, Put(plan[o.field], s.name, s.arg))
  ELSE plan

(* The caller's headers after a method.                                    *)
HeadersAfter(c, headers, s) ==
  LET o == c.options[s.id] IN
  IF o.takes = "entry" /\ o.field = "headers" THEN Put(headers, s.name, {s.arg}) ELSE headers

(* The directives that pairs of a header and a directive give a header,    *)
(* and the headers they name.                                              *)
Added(ws, h) == {w[2] : w \in {x \in ws : x[1] = h}}
Heads(ws) == {w[1] : w \in ws}

(* The wire after such pairs are written.                                  *)
Written(c, wire, ws) ==
  [h \in DOMAIN wire \cup Heads(ws) |->
     (IF h \in DOMAIN wire /\ (Added(ws, h) = {} \/ h \in c.listed) THEN wire[h] ELSE {})
       \cup Added(ws, h)]

(* The wire headers after a method.                                        *)
WireAfter(c, wire, s) ==
  LET o == c.options[s.id] IN
  IF Inert(o) THEN wire ELSE Written(c, wire, WireOf(o, s.arg))

(* The hook counts after a method.                                         *)
HooksAfter(c, hooks, s) ==
  LET o == c.options[s.id] IN
  IF o.takes = "callback"
  THEN Put(hooks, o.field, IF o.field \in DOMAIN hooks THEN hooks[o.field] + 1 ELSE 1)
  ELSE hooks

(* The dropped headers after a method.                                     *)
DroppedAfter(c, dropped, s) ==
  IF Inert(c.options[s.id]) THEN dropped ELSE dropped \cup c.options[s.id].drops

(* The headers declared secret after a method.                             *)
SecretAfter(c, secret, s) ==
  LET o == c.options[s.id] IN
  IF Inert(o) THEN secret
  ELSE secret \cup (IF o.secret THEN {w[1] : w \in o.writes} ELSE {})

(* A builder by its eight parts.                                           *)
Builder8(k, sp, pl, hd, wi, dr, se, ho) ==
  [kind |-> k, spent |-> sp, plan |-> pl, headers |-> hd, wire |-> wi,
   dropped |-> dr, secret |-> se, hooks |-> ho]

(* A builder is the record of its parts.                                   *)
IsCall(b) ==
  b = Builder8(b.kind, b.spent, b.plan, b.headers, b.wire, b.dropped, b.secret, b.hooks)

(* SetPlan changes the plan only.                                          *)
LEMMA SetPlanParts ==
  ASSUME NEW b, IsCall(b), NEW f, NEW v
  PROVE  SetPlan(b, f, v) = Builder8(b.kind, b.spent, Put(b.plan, f, v), b.headers, b.wire,
           b.dropped, b.secret, b.hooks)
  BY DEF SetPlan, IsCall, Builder8

(* SetHeader changes the caller's headers only.                            *)
LEMMA SetHeaderParts ==
  ASSUME NEW b, IsCall(b), NEW f, NEW v
  PROVE  SetHeader(b, f, v) = Builder8(b.kind, b.spent, b.plan, Put(b.headers, f, {v}),
           b.wire, b.dropped, b.secret, b.hooks)
  BY DEF SetHeader, IsCall, Builder8

(* CountHook changes the hooks only.                                       *)
LEMMA CountHookParts ==
  ASSUME NEW b, IsCall(b), NEW f
  PROVE  CountHook(b, f) = Builder8(b.kind, b.spent, b.plan, b.headers, b.wire, b.dropped,
           b.secret,
     Put(b.hooks, f, IF f \in DOMAIN b.hooks THEN b.hooks[f] + 1 ELSE 1))
  BY DEF CountHook, IsCall, Builder8

(* WriteWireHeaders changes the wire only.                                 *)
LEMMA WriteParts ==
  ASSUME NEW c, NEW b, IsCall(b), NEW ws
  PROVE  WriteWireHeaders(c, b, ws) = Builder8(b.kind, b.spent, b.plan, b.headers, Written(c,
           b.wire, ws), b.dropped, b.secret, b.hooks)
<1>1. ASSUME NEW w
      PROVE  [b EXCEPT !.wire = w] = Builder8(b.kind, b.spent, b.plan, b.headers, w,
               b.dropped, b.secret, b.hooks)
  BY DEF IsCall, Builder8
<1>2. WriteWireHeaders(c, b, ws) = [b EXCEPT !.wire = Written(c, b.wire, ws)]
  BY DEF WriteWireHeaders, Written, Added, Heads
<1> QED BY <1>1, <1>2

(* Spend changes the spent groups only.                                    *)
LEMMA SpendParts ==
  ASSUME NEW c, NEW b, IsCall(b), NEW s
  PROVE  Spend(c, b, s) = Builder8(b.kind, b.spent \cup ({c.options[s.id].group} \ {""}),
           b.plan, b.headers, b.wire, b.dropped, b.secret, b.hooks)
<1>1. ASSUME NEW w
      PROVE  [b EXCEPT !.spent = w] = Builder8(b.kind, w, b.plan, b.headers, b.wire,
               b.dropped, b.secret, b.hooks)
  BY DEF IsCall, Builder8
<1>2. Spend(c, b, s) = [b EXCEPT !.spent = b.spent \cup ({c.options[s.id].group} \ {""})]
  BY DEF Spend
<1> QED BY <1>1, <1>2

(* The last edit of Effect changes what is dropped and what is secret.     *)
LEMMA MarkParts ==
  ASSUME NEW b, IsCall(b), NEW d, NEW e
  PROVE  [b EXCEPT !.dropped = @ \cup d, !.secret = @ \cup e]
           = Builder8(b.kind, b.spent, b.plan, b.headers, b.wire, b.dropped \cup d,
             b.secret \cup e, b.hooks)
<1>1. ASSUME NEW x, NEW y
      PROVE  [b EXCEPT !.dropped = x, !.secret = y]
               = Builder8(b.kind, b.spent, b.plan, b.headers, b.wire, x, y, b.hooks)
  <2> DEFINE a == [b EXCEPT !.dropped = x]
  <2>1. a = Builder8(b.kind, b.spent, b.plan, b.headers, b.wire, x, b.secret, b.hooks)
    BY DEF IsCall, Builder8
  <2>2. [b EXCEPT !.dropped = x, !.secret = y] = [a EXCEPT !.secret = y]
    OBVIOUS
  <2> HIDE DEF a
  <2> QED BY <2>1, <2>2 DEF Builder8
<1>2. [b EXCEPT !.dropped = @ \cup d, !.secret = @ \cup e]
        = [b EXCEPT !.dropped = b.dropped \cup d, !.secret = b.secret \cup e]
  BY DEF IsCall, Builder8
<1> QED BY <1>1, <1>2

(* The parts of a builder made of parts.                                   *)
LEMMA BuilderIsCall ==
  ASSUME NEW b, NEW k, NEW sp, NEW pl, NEW hd, NEW wi, NEW dr, NEW se, NEW ho,
         b = Builder8(k, sp, pl, hd, wi, dr, se, ho)
  PROVE  /\ IsCall(b) /\ b.kind = k /\ b.spent = sp /\ b.plan = pl /\ b.headers = hd
         /\ b.wire = wi /\ b.dropped = dr /\ b.secret = se /\ b.hooks = ho
  BY DEF IsCall, Builder8

(* What one method makes of each part of the builder.                      *)
LEMMA EffectParts ==
  ASSUME NEW c, NEW b, IsCall(b), NEW s
  PROVE  Effect(c, b, s) = Builder8(b.kind, b.spent, 
           PlanAfter(c, b.plan, s), HeadersAfter(c, b.headers, s), WireAfter(c, b.wire, s),
           DroppedAfter(c, b.dropped, s), SecretAfter(c, b.secret, s), HooksAfter(c, b.hooks,
             s))
<1> DEFINE o == c.options[s.id]
<1> DEFINE e == Effect(c, b, s)
<1>1. CASE o.takes = "entry" /\ o.field = "headers"
  <2>1. e = SetHeader(b, s.name, s.arg)
    BY <1>1 DEF Effect
  <2>2. /\ PlanAfter(c, b.plan, s) = b.plan /\ HeadersAfter(c, b.headers, s) = Put(b.headers,
             s.name, {s.arg})
        /\ WireAfter(c, b.wire, s) = b.wire /\ DroppedAfter(c, b.dropped, s) = b.dropped
        /\ SecretAfter(c, b.secret, s) = b.secret /\ HooksAfter(c, b.hooks, s) = b.hooks
    BY <1>1 DEF PlanAfter, HeadersAfter, WireAfter, DroppedAfter, SecretAfter, HooksAfter,
         Inert
  <2> QED BY <2>1, <2>2, SetHeaderParts
<1>2. CASE o.takes = "entry" /\ o.field # "headers"
  <2>1. e = SetSection(b, o.field, s.name, s.arg)
    BY <1>2 DEF Effect
  <2>2. /\ HeadersAfter(c, b.headers, s) = b.headers
        /\ WireAfter(c, b.wire, s) = b.wire /\ DroppedAfter(c, b.dropped, s) = b.dropped
        /\ SecretAfter(c, b.secret, s) = b.secret /\ HooksAfter(c, b.hooks, s) = b.hooks
    BY <1>2 DEF HeadersAfter, WireAfter, DroppedAfter, SecretAfter, HooksAfter, Inert
  <2>3. CASE o.field \notin DOMAIN b.plan
    <3>1. e = SetPlan(b, o.field, Put(<<>>, s.name, s.arg))
      BY <2>1, <2>3 DEF SetSection
    <3>2. PlanAfter(c, b.plan, s) = Put(b.plan, o.field, Put(<<>>, s.name, s.arg))
      BY <1>2, <2>3 DEF PlanAfter
    <3> QED BY <3>1, <3>2, <2>2, SetPlanParts
  <2>4. CASE o.field \in DOMAIN b.plan /\ IsObject(b.plan[o.field])
    <3>1. e = SetPlan(b, o.field, Put(b.plan[o.field], s.name, s.arg))
      BY <2>1, <2>4 DEF SetSection
    <3>2. PlanAfter(c, b.plan, s) = Put(b.plan, o.field, Put(b.plan[o.field], s.name, s.arg))
      BY <1>2, <2>4 DEF PlanAfter
    <3> QED BY <3>1, <3>2, <2>2, SetPlanParts
  <2>5. CASE o.field \in DOMAIN b.plan /\ ~IsObject(b.plan[o.field])
    <3>1. e = b
      BY <2>1, <2>5 DEF SetSection
    <3>2. PlanAfter(c, b.plan, s) = b.plan
      BY <1>2, <2>5 DEF PlanAfter
    <3> QED BY <3>1, <3>2, <2>2 DEF IsCall
  <2> QED BY <2>3, <2>4, <2>5
<1>3. CASE o.takes = "callback"
  <2>1. e = CountHook(b, o.field)
    BY <1>3 DEF Effect
  <2>2. /\ PlanAfter(c, b.plan, s) = b.plan /\ HeadersAfter(c, b.headers, s) = b.headers
        /\ WireAfter(c, b.wire, s) = b.wire /\ DroppedAfter(c, b.dropped, s) = b.dropped
        /\ SecretAfter(c, b.secret, s) = b.secret
    <3>1. o.takes # "entry" /\ Inert(o)
      BY <1>3 DEF Inert
    <3>2. PlanAfter(c, b.plan, s) = b.plan
      BY <1>3 DEF PlanAfter
    <3>3. HeadersAfter(c, b.headers, s) = b.headers
      BY <3>1 DEF HeadersAfter
    <3>4. /\ WireAfter(c, b.wire, s) = b.wire /\ DroppedAfter(c, b.dropped, s) = b.dropped
          /\ SecretAfter(c, b.secret, s) = b.secret
      BY <3>1, Zenon DEF WireAfter, DroppedAfter, SecretAfter
    <3> QED BY <3>2, <3>3, <3>4
  <2>3. HooksAfter(c, b.hooks, s) = Put(b.hooks, o.field,
          IF o.field \in DOMAIN b.hooks THEN b.hooks[o.field] + 1 ELSE 1)
    BY <1>3 DEF HooksAfter
  <2> QED BY <2>1, <2>2, <2>3, CountHookParts
<1>4. CASE ~Inert(o)
  <2> DEFINE set == SetPlan(b, o.field, PlanValue(o, s.arg))
             wired == WriteWireHeaders(c, set, WireOf(o, s.arg))
             marks == IF o.secret THEN {w[1] : w \in o.writes} ELSE {}
  <2>1. e = [wired EXCEPT !.dropped = @ \cup o.drops, !.secret = @ \cup marks]
    BY <1>4 DEF Effect, Inert
  <2>2. set = Builder8(b.kind, b.spent, Put(b.plan, o.field, PlanValue(o, s.arg)), b.headers,
          b.wire, b.dropped, b.secret, b.hooks)
    BY SetPlanParts
  <2>3. wired = Builder8(b.kind, b.spent, Put(b.plan, o.field, PlanValue(o, s.arg)),
          b.headers,
                         Written(c, b.wire, WireOf(o, s.arg)), b.dropped, b.secret, b.hooks)
    <3> HIDE DEF set
    <3>1. IsCall(set)
      BY <2>2, BuilderIsCall
    <3>2. wired = Builder8(set.kind, set.spent, set.plan, set.headers, Written(c, set.wire,
            WireOf(o, s.arg)), set.dropped, set.secret, set.hooks)
      BY <3>1, WriteParts
    <3>3. /\ set.kind = b.kind /\ set.spent = b.spent /\ set.headers = b.headers
          /\ set.plan = Put(b.plan, o.field, PlanValue(o, s.arg)) /\ set.wire = b.wire
          /\ set.dropped = b.dropped /\ set.secret = b.secret /\ set.hooks = b.hooks
      BY ONLY <2>2, BuilderIsCall
    <3> HIDE DEF wired
    <3> QED BY ONLY <3>2, <3>3
  <2>4. e = Builder8(b.kind, b.spent, Put(b.plan, o.field, PlanValue(o, s.arg)), b.headers,
                     Written(c, b.wire, WireOf(o, s.arg)), b.dropped \cup o.drops,
                       b.secret \cup marks, b.hooks)
    <3> HIDE DEF wired, marks
    <3>1. IsCall(wired)
      BY <2>3, BuilderIsCall
    <3>3. [wired EXCEPT !.dropped = @ \cup o.drops, !.secret = @ \cup marks]
            = Builder8(wired.kind, wired.spent, wired.plan, wired.headers, wired.wire,
                       wired.dropped \cup o.drops, wired.secret \cup marks, wired.hooks)
      BY ONLY <3>1, MarkParts
    <3>2. e = Builder8(wired.kind, wired.spent, wired.plan, wired.headers, wired.wire,
                       wired.dropped \cup o.drops, wired.secret \cup marks, wired.hooks)
      BY <2>1, <3>3
    <3>4. /\ wired.kind = b.kind /\ wired.spent = b.spent /\ wired.plan = Put(b.plan,
               o.field, PlanValue(o, s.arg))
          /\ wired.headers = b.headers /\ wired.wire = Written(c, b.wire, WireOf(o, s.arg))
          /\ wired.dropped = b.dropped /\ wired.secret = b.secret /\ wired.hooks = b.hooks
      BY ONLY <2>3, BuilderIsCall
    <3> QED BY ONLY <3>2, <3>4
  <2>5. /\ PlanAfter(c, b.plan, s) = Put(b.plan, o.field, PlanValue(o, s.arg))
        /\ HeadersAfter(c, b.headers, s) = b.headers
        /\ WireAfter(c, b.wire, s) = Written(c, b.wire, WireOf(o, s.arg))
        /\ DroppedAfter(c, b.dropped, s) = b.dropped \cup o.drops
        /\ SecretAfter(c, b.secret, s) = b.secret \cup marks
        /\ HooksAfter(c, b.hooks, s) = b.hooks
    BY <1>4, Zenon DEF PlanAfter, HeadersAfter, WireAfter, DroppedAfter, SecretAfter,
         HooksAfter, Inert
  <2> HIDE DEF marks
  <2> QED BY <2>4, <2>5
<1> QED BY <1>1, <1>2, <1>3, <1>4 DEF Inert

(* The builder after a method, by its parts.                               *)
LEMMA ApplyParts ==
  ASSUME NEW c, NEW b, IsCall(b), NEW s
  PROVE  Apply(c, b, s) = Builder8(b.kind, b.spent \cup ({c.options[s.id].group} \ {""}),
           PlanAfter(c, b.plan, s), HeadersAfter(c, b.headers, s), WireAfter(c, b.wire, s),
           DroppedAfter(c, b.dropped, s), SecretAfter(c, b.secret, s), HooksAfter(c, b.hooks,
             s))
<1> DEFINE e == Effect(c, b, s)
<1>1. e = Builder8(b.kind, b.spent, 
           PlanAfter(c, b.plan, s), HeadersAfter(c, b.headers, s), WireAfter(c, b.wire, s),
           DroppedAfter(c, b.dropped, s), SecretAfter(c, b.secret, s), HooksAfter(c, b.hooks,
             s))
  BY EffectParts
<1>2. Apply(c, b, s) = Spend(c, e, s)
  BY DEF Apply
<1> HIDE DEF e
<1>3. IsCall(e)
  BY <1>1, BuilderIsCall
<1>4. Apply(c, b, s) = Builder8(e.kind, e.spent \cup ({c.options[s.id].group} \ {""}),
        e.plan, e.headers, e.wire, e.dropped, e.secret, e.hooks)
  BY <1>2, <1>3, SpendParts
<1> DEFINE g == {c.options[s.id].group} \ {""}
<1> HIDE DEF g
<1>5. /\ e.kind = b.kind /\ e.spent = b.spent /\ e.plan = PlanAfter(c, b.plan, s)
      /\ e.headers = HeadersAfter(c, b.headers, s) /\ e.wire = WireAfter(c, b.wire, s)
      /\ e.dropped = DroppedAfter(c, b.dropped, s) /\ e.secret = SecretAfter(c, b.secret, s)
      /\ e.hooks = HooksAfter(c, b.hooks, s)
  BY <1>1, BuilderIsCall
<1> QED BY <1>4, <1>5

-----------------------------------------------------------------------------
(* Two methods that set different things commute.                          *)

(* Put, as a map.                                                          *)
LEMMA PutDomain ==
  ASSUME NEW m, NEW k, NEW v
  PROVE  /\ DOMAIN Put(m, k, v) = DOMAIN m \cup {k}
         /\ Put(m, k, v)[k] = v
         /\ \A x \in DOMAIN m : x # k => Put(m, k, v)[x] = m[x]
  BY DEF Put

(* Two members are set in either order.                                    *)
LEMMA PutCommute ==
  ASSUME NEW m, NEW k, NEW v, NEW l, NEW w, k # l
  PROVE  Put(Put(m, k, v), l, w) = Put(Put(m, l, w), k, v)
  BY DEF Put

(* The last value of a member is kept.                                     *)
LEMMA PutTwice ==
  ASSUME NEW m, NEW k, NEW v, NEW w
  PROVE  Put(Put(m, k, v), k, w) = Put(m, k, w)
  BY DEF Put

(* A map of one member.                                                    *)
LEMMA PutNothing ==
  ASSUME NEW k, NEW v
  PROVE  DOMAIN Put(<<>>, k, v) = {k}
<1> DEFINE e == <<>>
<1>1. DOMAIN e = {}
  OBVIOUS
<1> HIDE DEF e
<1>2. DOMAIN Put(e, k, v) = {k}
  <2>1. DOMAIN Put(e, k, v) = DOMAIN e \cup {k}
    BY PutDomain
  <2>2. {} \cup {k} = {k}
    OBVIOUS
  <2> QED BY <1>1, <2>1, <2>2
<1> QED BY <1>2 DEF e

(* A method with an argument its parameter can hold.                       *)
IsStep(c, s) ==
  /\ s.id \in DOMAIN c.options /\ ~c.options[s.id].terminal
  /\ s.arg \in Arguments(c.options[s.id].takes)
  /\ c.options[s.id].takes = "entry" => s.name # ""

(* Two options that may both be chosen.                                    *)
Compatible(c, a, b) ==
  c.options[a].group = "" \/ c.options[a].group # c.options[b].group

(* Two writers of a header are more than one.                              *)
LEMMA WritersApart ==
  ASSUME NEW c, IsFiniteSet(DOMAIN c.options), NEW h, NEW a \in Writers(c, h),
           NEW b \in Writers(c, h), a # b
  PROVE  ~(Cardinality(Writers(c, h)) <= 1)
<1>1. IsFiniteSet(Writers(c, h))
  BY FS_Subset DEF Writers
<1>2. {a, b} \subseteq Writers(c, h)
  OBVIOUS
<1>3. Cardinality({a, b}) = 2
  <2>1. IsFiniteSet({a}) /\ Cardinality({a}) = 1
    BY FS_Singleton
  <2>2. {a, b} = {a} \cup {b}
    OBVIOUS
  <2> DEFINE S == {a}
  <2> HIDE DEF S
  <2>3. Cardinality(S \cup {b}) = IF b \in S THEN Cardinality(S) ELSE Cardinality(S) + 1
    BY <2>1, FS_AddElement DEF S
  <2>4. b \notin S
    BY DEF S
  <2>5. Cardinality(S) = 1 /\ {a, b} = S \cup {b}
    BY <2>1, <2>2 DEF S
  <2> QED BY <2>3, <2>4, <2>5
<1>4. Cardinality({a, b}) <= Cardinality(Writers(c, h))
  BY <1>1, <1>2, FS_Subset
<1>5. Cardinality(Writers(c, h)) \in Nat
  BY <1>1, FS_CardinalityType
<1> QED BY <1>3, <1>4, <1>5

(* check_integrity lets two compatible options write one header only when  *)
(* it is a list.                                                           *)
LEMMA WritesExclusive ==
  ASSUME NEW c, Integrity(c), Disciplined(c),
         NEW a \in DOMAIN c.options, NEW b \in DOMAIN c.options, a # b, Compatible(c, a, b),
         NEW x \in c.options[a].writes, NEW y \in c.options[b].writes, x[1] = y[1]
  PROVE  x[1] \in c.listed
<1> DEFINE h == x[1]
<1>1. a \in Writers(c, h) /\ b \in Writers(c, h)
  BY DEF Writers
<1>2. HeaderSound(c, h)
  <2>1. h \in {w[1] : w \in c.options[a].writes}
    OBVIOUS
  <2> QED BY <2>1 DEF Integrity
<1>3. ~(Cardinality(Writers(c, h)) <= 1)
  BY <1>1, WritersApart DEF Disciplined
<1>4. ASSUME NEW g \in c.groups, Writers(c, h) \subseteq Members(c, g) PROVE FALSE
  <2>1. c.options[a].group = g /\ c.options[b].group = g
    BY <1>1, <1>4 DEF Members
  <2>2. g # ""
    BY DEF Disciplined
  <2> QED BY <2>1, <2>2 DEF Compatible
<1> HIDE DEF h
<1>5. h \in c.listed
  BY <1>2, <1>3, <1>4 DEF HeaderSound
<1> QED BY <1>5 DEF h

(* Two options that may both be chosen write no header in common but a list. *)
LEMMA HeadersExclusive ==
  ASSUME NEW c, Integrity(c), Disciplined(c),
         NEW a \in DOMAIN c.options, NEW b \in DOMAIN c.options, a # b, Compatible(c, a, b),
         NEW v \in Arguments(c.options[a].takes), NEW u \in Arguments(c.options[b].takes),
         NEW x \in WireOf(c.options[a], v), NEW y \in WireOf(c.options[b], u), x[1] = y[1]
  PROVE  x[1] \in c.listed
<1> DEFINE o == c.options[a]
           p == c.options[b]
<1>1. CASE x \in HeaderEffect(o.takes, v)
  <2>1. EffectsSound(c)
    BY DEF Disciplined
  <2>2. o.group = "" \/ o.group # p.group
    BY DEF Compatible
  <2> QED BY <1>1, <2>1, <2>2 DEF EffectsSound
<1>2. CASE y \in HeaderEffect(p.takes, u)
  <2>1. EffectsSound(c)
    BY DEF Disciplined
  <2>2. p.group = "" \/ p.group # o.group
    BY DEF Compatible
  <2>3. y[1] \in c.listed
    BY <1>2, <2>1, <2>2 DEF EffectsSound
  <2> QED BY <2>3
<1>3. CASE x \notin HeaderEffect(o.takes, v) /\ y \notin HeaderEffect(p.takes, u)
  <2>1. PICK w \in o.writes : x = Text(w, v)
    BY <1>3 DEF WireOf
  <2>2. PICK z \in p.writes : y = Text(z, u)
    BY <1>3 DEF WireOf
  <2>3. x[1] = w[1] /\ y[1] = z[1]
    BY <2>1, <2>2 DEF Text
  <2>4. w[1] = z[1]
    BY <2>3
  <2>5. w[1] \in c.listed
    BY <2>4, WritesExclusive
  <2> QED BY <2>3, <2>5
<1> QED BY <1>1, <1>2, <1>3

(* Wire headers of two methods that share none but lists commute.          *)
LEMMA WrittenCommute ==
  ASSUME NEW c, NEW wire, NEW ws, NEW vs,
         \A x \in ws, y \in vs : x[1] = y[1] => x[1] \in c.listed
  PROVE  Written(c, Written(c, wire, ws), vs) = Written(c, Written(c, wire, vs), ws)
<1> DEFINE A == Written(c, wire, ws)
           B == Written(c, wire, vs)
           L == Written(c, A, vs)
           R == Written(c, B, ws)
           W(ms, h) == (IF h \in DOMAIN wire /\ (Added(ms, h) = {}
               \/ h \in c.listed) THEN wire[h] ELSE {}) \cup Added(ms, h)
<1>1. \A ms, h : h \notin Heads(ms) <=> Added(ms, h) = {}
  BY DEF Heads, Added
<1>2. DOMAIN A = DOMAIN wire \cup Heads(ws) /\ DOMAIN B = DOMAIN wire \cup Heads(vs)
  BY DEF Written
<1>3. DOMAIN L = DOMAIN A \cup Heads(vs) /\ DOMAIN R = DOMAIN B \cup Heads(ws)
  BY DEF Written
<1>4. DOMAIN L = DOMAIN R
  BY <1>2, <1>3
<1>5. ASSUME NEW h \in DOMAIN L PROVE L[h] = R[h]
  <2> DEFINE aw == Added(ws, h)
             av == Added(vs, h)
             old == IF h \in DOMAIN wire THEN wire[h] ELSE {}
  <2>1. aw # {} /\ av # {} => h \in c.listed
    BY DEF Added
  <2>2. h \in DOMAIN A <=> h \in DOMAIN wire \/ aw # {}
    BY <1>1, <1>2
  <2>3. h \in DOMAIN B <=> h \in DOMAIN wire \/ av # {}
    BY <1>1, <1>2
  <2>4. h \in DOMAIN A => A[h] = (IF h \in DOMAIN wire /\ (aw = {}
          \/ h \in c.listed) THEN wire[h] ELSE {}) \cup aw
    BY <1>2 DEF Written
  <2>5. h \in DOMAIN B => B[h] = (IF h \in DOMAIN wire /\ (av = {}
          \/ h \in c.listed) THEN wire[h] ELSE {}) \cup av
    BY <1>2 DEF Written
  <2>6. L[h] = (IF h \in DOMAIN A /\ (av = {} \/ h \in c.listed) THEN A[h] ELSE {}) \cup av
    BY <1>3 DEF Written
  <2>7. R[h] = (IF h \in DOMAIN B /\ (aw = {} \/ h \in c.listed) THEN B[h] ELSE {}) \cup aw
    BY <1>3, <1>4 DEF Written
  <2> HIDE DEF A, B, L, R, aw, av
  <2>8. CASE aw = {} /\ av = {}
    BY <2>8, <2>2, <2>3, <2>4, <2>5, <2>6, <2>7
  <2>9. CASE aw # {} /\ av = {}
    BY <2>9, <2>2, <2>3, <2>4, <2>5, <2>6, <2>7
  <2>10. CASE aw = {} /\ av # {}
    BY <2>10, <2>2, <2>3, <2>4, <2>5, <2>6, <2>7
  <2>11. CASE aw # {} /\ av # {}
    BY <2>11, <2>1, <2>2, <2>3, <2>4, <2>5, <2>6, <2>7
  <2> QED BY <2>8, <2>9, <2>10, <2>11
<1>6. L = [h \in DOMAIN L |-> L[h]] /\ R = [h \in DOMAIN R |-> R[h]]
  BY DEF Written
<1> HIDE DEF L, R
<1>7. L = R
  BY <1>4, <1>5, <1>6
<1> QED BY <1>7 DEF L, R, A, B

(* set_section never meets a path or query that is no object.              *)
SectionsAreObjects(plan) ==
  \A f \in {"path", "query"} : f \in DOMAIN plan => IsObject(plan[f])

(* A method leaves the plan alone or sets its own field.                   *)
Idle(o) == o.takes = "callback" \/ (o.takes = "entry" /\ o.field = "headers")

(* What a method does to the plan does not depend on the fields of others. *)
LEMMA PlanLocal ==
  ASSUME NEW c, NEW s, NEW plan, NEW g, NEW v, g # c.options[s.id].field
  PROVE  LET f == c.options[s.id].field IN
         \/ PlanAfter(c, plan, s) = plan /\ PlanAfter(c, Put(plan, g, v), s) = Put(plan, g, v)
         \/ \E u : /\ PlanAfter(c, plan, s) = Put(plan, f, u)
                   /\ PlanAfter(c, Put(plan, g, v), s) = Put(Put(plan, g, v), f, u)
<1> DEFINE o == c.options[s.id]
           q == Put(plan, g, v)
<1>1. /\ o.field \in DOMAIN q <=> o.field \in DOMAIN plan
      /\ o.field \in DOMAIN plan => q[o.field] = plan[o.field]
  BY DEF Put
<1> HIDE DEF q
<1>2. CASE Idle(o)
  BY <1>2 DEF PlanAfter, Idle, q
<1>3. CASE ~Idle(o) /\ o.takes # "entry"
  BY <1>3 DEF PlanAfter, Idle, q
<1>4. CASE ~Idle(o) /\ o.takes = "entry"
  <2>1. CASE o.field \notin DOMAIN plan
    BY <1>1, <1>4, <2>1 DEF PlanAfter, Idle, q
  <2>2. CASE o.field \in DOMAIN plan /\ IsObject(plan[o.field])
    BY <1>1, <1>4, <2>2 DEF PlanAfter, Idle, q
  <2>3. CASE o.field \in DOMAIN plan /\ ~IsObject(plan[o.field])
    BY <1>1, <1>4, <2>3 DEF PlanAfter, Idle, q
  <2> QED BY <2>1, <2>2, <2>3
<1> QED BY <1>2, <1>3, <1>4

(* Methods of different fields commute on the plan.                        *)
LEMMA PlanCommutesApart ==
  ASSUME NEW c, NEW s, NEW t, NEW plan, c.options[s.id].field # c.options[t.id].field
  PROVE  PlanAfter(c, PlanAfter(c, plan, s), t) = PlanAfter(c, PlanAfter(c, plan, t), s)
<1> DEFINE f == c.options[s.id].field
           g == c.options[t.id].field
           ps == PlanAfter(c, plan, s)
           pt == PlanAfter(c, plan, t)
<1> HIDE DEF f, g
<1>0. f # g
  BY DEF f, g
<1>a. ASSUME NEW v
      PROVE  \/ ps = plan /\ PlanAfter(c, Put(plan, g, v), s) = Put(plan, g, v)
             \/ \E u : /\ ps = Put(plan, f, u)
                       /\ PlanAfter(c, Put(plan, g, v), s) = Put(Put(plan, g, v), f, u)
  BY <1>0, PlanLocal DEF f, g
<1>b. ASSUME NEW v
      PROVE  \/ pt = plan /\ PlanAfter(c, Put(plan, f, v), t) = Put(plan, f, v)
             \/ \E u : /\ pt = Put(plan, g, u)
                       /\ PlanAfter(c, Put(plan, f, v), t) = Put(Put(plan, f, v), g, u)
  BY <1>0, PlanLocal DEF f, g
<1> HIDE DEF ps, pt
<1>1. CASE ps = plan /\ pt = plan
  BY <1>1 DEF ps, pt
<1>2. CASE ps = plan /\ pt # plan
  <2>1. PICK u : pt = Put(plan, g, u)
    BY <1>2, <1>b
  <2>2. PlanAfter(c, Put(plan, g, u), s) = Put(plan, g, u)
    <3>1. CASE PlanAfter(c, Put(plan, g, u), s) = Put(plan, g, u)
      BY <3>1
    <3>2. CASE \E w : ps = Put(plan, f, w) /\ PlanAfter(c, Put(plan, g, u),
                 s) = Put(Put(plan, g, u), f, w)
      <4>1. PICK w : ps = Put(plan, f, w) /\ PlanAfter(c, Put(plan, g, u), s) = Put(Put(plan,
              g, u), f, w)
        BY <3>2
      <4>2. Put(Put(plan, g, u), f, w) = Put(Put(plan, f, w), g, u)
        BY <1>0, PutCommute
      <4> QED BY <4>1, <4>2, <1>2
    <3> QED BY <3>1, <3>2, <1>a
  <2>3. PlanAfter(c, pt, s) = pt
    BY <2>1, <2>2
  <2>4. PlanAfter(c, ps, t) = pt
    BY <1>2 DEF pt
  <2> QED BY <2>3, <2>4 DEF ps, pt
<1>3. CASE ps # plan /\ pt = plan
  <2>1. PICK u : ps = Put(plan, f, u)
    BY <1>3, <1>a
  <2>2. PlanAfter(c, Put(plan, f, u), t) = Put(plan, f, u)
    <3>1. CASE PlanAfter(c, Put(plan, f, u), t) = Put(plan, f, u)
      BY <3>1
    <3>2. CASE \E w : pt = Put(plan, g, w) /\ PlanAfter(c, Put(plan, f, u),
                 t) = Put(Put(plan, f, u), g, w)
      <4>1. PICK w : pt = Put(plan, g, w) /\ PlanAfter(c, Put(plan, f, u), t) = Put(Put(plan,
              f, u), g, w)
        BY <3>2
      <4>2. Put(Put(plan, f, u), g, w) = Put(Put(plan, g, w), f, u)
        BY <1>0, PutCommute
      <4> QED BY <4>1, <4>2, <1>3
    <3> QED BY <3>1, <3>2, <1>b
  <2>3. PlanAfter(c, ps, t) = ps
    BY <2>1, <2>2
  <2>4. PlanAfter(c, pt, s) = ps
    BY <1>3 DEF ps
  <2> QED BY <2>3, <2>4 DEF ps, pt
<1>4. CASE ps # plan /\ pt # plan
  <2>1. PICK u : ps = Put(plan, f, u)
    BY <1>4, <1>a
  <2>2. PICK w : pt = Put(plan, g, w) /\ PlanAfter(c, Put(plan, f, u), t) = Put(Put(plan, f,
          u), g, w)
    BY <1>4, <1>b
  <2>3. PICK x : ps = Put(plan, f, x) /\ PlanAfter(c, Put(plan, g, w), s) = Put(Put(plan, g,
          w), f, x)
    BY <1>4, <1>a
  <2>4. Put(Put(plan, f, u), g, w) = Put(Put(plan, f, x), g, w)
    BY <2>1, <2>3
  <2>5. Put(Put(plan, f, x), g, w) = Put(Put(plan, g, w), f, x)
    BY <1>0, PutCommute
  <2>6. PlanAfter(c, ps, t) = PlanAfter(c, pt, s)
    BY <2>1, <2>2, <2>3, <2>4, <2>5
  <2> QED BY <2>6 DEF ps, pt
<1> QED BY <1>1, <1>2, <1>3, <1>4

(* Methods that set different things commute on the plan: entries of one   *)
(* section have different names.                                           *)
LEMMA PlanCommutes ==
  ASSUME NEW c, Disciplined(c), NEW plan, SectionsAreObjects(plan), NEW s, NEW t,
         IsStep(c, s), IsStep(c, t), Slot(c, s) # Slot(c, t)
  PROVE  PlanAfter(c, PlanAfter(c, plan, s), t) = PlanAfter(c, PlanAfter(c, plan, t), s)
<1> DEFINE o == c.options[s.id]
           p == c.options[t.id]
<1>1. CASE Idle(o) \/ Idle(p)
  <2>1. Idle(o) => \A m : PlanAfter(c, m, s) = m
    BY DEF PlanAfter, Idle
  <2>2. Idle(p) => \A m : PlanAfter(c, m, t) = m
    BY DEF PlanAfter, Idle
  <2> QED BY <1>1, <2>1, <2>2
<1>2. CASE o.field # p.field
  BY <1>2, PlanCommutesApart
<1>3. CASE ~Idle(o) /\ ~Idle(p) /\ o.field = p.field
  <2> DEFINE f == o.field
  <2>1. o.takes = "entry" /\ p.takes = "entry" /\ f # "body" /\ s.name # t.name
    <3>1. f \in {"path", "query"} => o.takes = "entry" /\ p.takes = "entry"
      BY <1>3 DEF Disciplined, InputsSound, IsStep
    <3>2. o.takes = "entry" => f \in {"body", "path", "query"}
      BY <1>3 DEF Disciplined, InputsSound, InputFields, IsStep, Idle
    <3>3. p.takes = "entry" => f \in {"body", "path", "query"}
      BY <1>3 DEF Disciplined, InputsSound, InputFields, IsStep, Idle
    <3>4. CASE o.takes # "entry" /\ p.takes # "entry"
      BY <1>3, <3>4 DEF Slot
    <3>5. CASE o.takes = "entry" \/ p.takes = "entry"
      BY <1>3, <3>1, <3>2, <3>3, <3>5 DEF Slot
    <3> QED BY <3>4, <3>5
  <2>2. f \in {"path", "query"}
    BY <1>3, <2>1 DEF Disciplined, InputsSound, InputFields, IsStep, Idle
  <2>3. s.name # "" /\ t.name # ""
    BY <2>1 DEF IsStep
  <2> DEFINE val == IF f \in DOMAIN plan THEN plan[f] ELSE <<>>
             vs == Put(val, s.name, s.arg)
             vt == Put(val, t.name, t.arg)
  <2>4. IsObject(vs) /\ IsObject(vt)
    <3> DEFINE e == <<>>
    <3>1. DOMAIN e = {}
      OBVIOUS
    <3>2. "" \notin DOMAIN val
      <4>1. CASE f \in DOMAIN plan
        BY <4>1, <2>2 DEF SectionsAreObjects, IsObject
      <4>2. CASE f \notin DOMAIN plan
        BY <4>2, <3>1
      <4> QED BY <4>1, <4>2
    <3> HIDE DEF val
    <3>3. DOMAIN vs = DOMAIN val \cup {s.name} /\ DOMAIN vt = DOMAIN val \cup {t.name}
      BY DEF Put
    <3> QED BY <3>2, <3>3, <2>3 DEF IsObject
  <2>5. PlanAfter(c, plan, s) = Put(plan, f, vs)
    <3>1. CASE f \in DOMAIN plan
      BY <3>1, <2>1, <2>2 DEF PlanAfter, SectionsAreObjects
    <3>2. CASE f \notin DOMAIN plan
      BY <3>2, <2>1, <2>2 DEF PlanAfter
    <3> QED BY <3>1, <3>2
  <2>6. PlanAfter(c, plan, t) = Put(plan, f, vt)
    <3>1. CASE f \in DOMAIN plan
      BY <3>1, <1>3, <2>1, <2>2 DEF PlanAfter, SectionsAreObjects
    <3>2. CASE f \notin DOMAIN plan
      BY <3>2, <1>3, <2>1, <2>2 DEF PlanAfter
    <3> QED BY <3>1, <3>2
  <2> HIDE DEF val
  <2>7. Put(vs, t.name, t.arg) = Put(vt, s.name, s.arg)
    BY <2>1, PutCommute
  <2> DEFINE qs == Put(plan, f, vs)
             qt == Put(plan, f, vt)
  <2>8. f \in DOMAIN qs /\ qs[f] = vs /\ f \in DOMAIN qt /\ qt[f] = vt
    <3> HIDE DEF vs, vt
    <3> QED BY DEF Put
  <2> HIDE DEF vs, vt, qs, qt
  <2>9. PlanAfter(c, qs, t) = Put(qs, f, Put(vs, t.name, t.arg))
    BY <1>3, <2>1, <2>2, <2>4, <2>8 DEF PlanAfter
  <2>10. PlanAfter(c, qt, s) = Put(qt, f, Put(vt, s.name, s.arg))
    BY <1>3, <2>1, <2>2, <2>4, <2>8 DEF PlanAfter
  <2>11. Put(qs, f, Put(vs, t.name, t.arg)) = Put(qt, f, Put(vs, t.name, t.arg))
    BY PutTwice DEF qs, qt
  <2> QED BY <2>5, <2>6, <2>7, <2>9, <2>10, <2>11 DEF qs, qt
<1> QED BY <1>1, <1>2, <1>3

(* Neighbours that set different things commute.                           *)
LEMMA StepsCommute ==
  ASSUME NEW c, Integrity(c), Disciplined(c), NEW b, IsCall(b), SectionsAreObjects(b.plan),
         NEW s, NEW t, IsStep(c, s), IsStep(c, t),
         Compatible(c, s.id, t.id), Slot(c, s) # Slot(c, t)
  PROVE  Apply(c, Apply(c, b, s), t) = Apply(c, Apply(c, b, t), s)
<1> DEFINE o == c.options[s.id]
           p == c.options[t.id]
           bs == Apply(c, b, s)
           bt == Apply(c, b, t)
           gs == {o.group} \ {""}
           gt == {p.group} \ {""}
<1>1. /\ IsCall(bs) /\ bs.kind = b.kind /\ bs.spent = b.spent \cup gs
           /\ bs.plan = PlanAfter(c, b.plan, s)
      /\ bs.headers = HeadersAfter(c, b.headers, s) /\ bs.wire = WireAfter(c, b.wire, s)
      /\ bs.dropped = DroppedAfter(c, b.dropped, s) /\ bs.secret = SecretAfter(c, b.secret, s)
      /\ bs.hooks = HooksAfter(c, b.hooks, s)
  <2> HIDE DEF bs, gs
  <2>1. bs = Builder8(b.kind, b.spent \cup gs, PlanAfter(c, b.plan, s), HeadersAfter(c,
          b.headers, s), WireAfter(c, b.wire, s),
           DroppedAfter(c, b.dropped, s), SecretAfter(c, b.secret, s), HooksAfter(c, b.hooks,
             s))
    BY ApplyParts DEF bs, gs
  <2> QED BY <2>1, BuilderIsCall
<1>2. /\ IsCall(bt) /\ bt.kind = b.kind /\ bt.spent = b.spent \cup gt
           /\ bt.plan = PlanAfter(c, b.plan, t)
      /\ bt.headers = HeadersAfter(c, b.headers, t) /\ bt.wire = WireAfter(c, b.wire, t)
      /\ bt.dropped = DroppedAfter(c, b.dropped, t) /\ bt.secret = SecretAfter(c, b.secret, t)
      /\ bt.hooks = HooksAfter(c, b.hooks, t)
  <2> HIDE DEF bt, gt
  <2>1. bt = Builder8(b.kind, b.spent \cup gt, PlanAfter(c, b.plan, t), HeadersAfter(c,
          b.headers, t), WireAfter(c, b.wire, t),
           DroppedAfter(c, b.dropped, t), SecretAfter(c, b.secret, t), HooksAfter(c, b.hooks,
             t))
    BY ApplyParts DEF bt, gt
  <2> QED BY <2>1, BuilderIsCall
<1> HIDE DEF bs, bt
<1>3. Apply(c, bs, t) = Builder8(bs.kind, bs.spent \cup gt, PlanAfter(c, bs.plan, t),
        HeadersAfter(c, bs.headers, t), WireAfter(c, bs.wire, t),
           DroppedAfter(c, bs.dropped, t), SecretAfter(c, bs.secret, t), HooksAfter(c,
             bs.hooks, t))
  BY <1>1, ApplyParts
<1>4. Apply(c, bt, s) = Builder8(bt.kind, bt.spent \cup gs, PlanAfter(c, bt.plan, s),
        HeadersAfter(c, bt.headers, s), WireAfter(c, bt.wire, s),
           DroppedAfter(c, bt.dropped, s), SecretAfter(c, bt.secret, s), HooksAfter(c,
             bt.hooks, s))
  BY <1>2, ApplyParts
<1>5. PlanAfter(c, bs.plan, t) = PlanAfter(c, bt.plan, s)
  <2>1. PlanAfter(c, PlanAfter(c, b.plan, s), t) = PlanAfter(c, PlanAfter(c, b.plan, t), s)
    BY PlanCommutes
  <2> QED BY <1>1, <1>2, <2>1
<1>6. HeadersAfter(c, bs.headers, t) = HeadersAfter(c, bt.headers, s)
  <2>1. CASE ~(o.takes = "entry" /\ o.field = "headers")
    BY <1>1, <1>2, <2>1 DEF HeadersAfter
  <2>2. CASE ~(p.takes = "entry" /\ p.field = "headers")
    BY <1>1, <1>2, <2>2 DEF HeadersAfter
  <2>3. CASE (o.takes = "entry" /\ o.field = "headers") /\ (p.takes = "entry"
               /\ p.field = "headers")
    <3>1. s.name # t.name
      BY <2>3 DEF Slot
    <3>2. /\ bs.headers = Put(b.headers, s.name, {s.arg}) /\ bt.headers = Put(b.headers,
               t.name, {t.arg})
          /\ HeadersAfter(c, bs.headers, t) = Put(bs.headers, t.name, {t.arg})
          /\ HeadersAfter(c, bt.headers, s) = Put(bt.headers, s.name, {s.arg})
      BY <1>1, <1>2, <2>3 DEF HeadersAfter
    <3> QED BY <3>1, <3>2, PutCommute
  <2> QED BY <2>1, <2>2, <2>3
<1>7. HooksAfter(c, bs.hooks, t) = HooksAfter(c, bt.hooks, s)
  <2>1. CASE o.takes # "callback"
    BY <1>1, <1>2, <2>1 DEF HooksAfter
  <2>2. CASE p.takes # "callback"
    BY <1>1, <1>2, <2>2 DEF HooksAfter
  <2>3. CASE o.takes = "callback" /\ p.takes = "callback"
    <3> DEFINE f == o.field
               g == p.field
               h == b.hooks
               nf == IF f \in DOMAIN h THEN h[f] + 1 ELSE 1
               ng == IF g \in DOMAIN h THEN h[g] + 1 ELSE 1
    <3>1. f # g
      BY <2>3 DEF Slot
    <3>2. bs.hooks = Put(h, f, nf) /\ bt.hooks = Put(h, g, ng)
      BY <1>1, <1>2, <2>3 DEF HooksAfter
    <3>3. /\ HooksAfter(c, bs.hooks, t) = Put(bs.hooks, g,
               IF g \in DOMAIN bs.hooks THEN bs.hooks[g] + 1 ELSE 1)
          /\ HooksAfter(c, bt.hooks, s) = Put(bt.hooks, f,
               IF f \in DOMAIN bt.hooks THEN bt.hooks[f] + 1 ELSE 1)
      BY <2>3 DEF HooksAfter
    <3> HIDE DEF f, g, h
    <3>4. (IF g \in DOMAIN bs.hooks THEN bs.hooks[g] + 1 ELSE 1) = ng
      <4>1. g \in DOMAIN bs.hooks <=> g \in DOMAIN h
        BY <3>1, <3>2 DEF Put
      <4>2. g \in DOMAIN h => bs.hooks[g] = h[g]
        BY <3>1, <3>2 DEF Put
      <4> QED BY <4>1, <4>2
    <3>5. (IF f \in DOMAIN bt.hooks THEN bt.hooks[f] + 1 ELSE 1) = nf
      <4>1. f \in DOMAIN bt.hooks <=> f \in DOMAIN h
        BY <3>1, <3>2 DEF Put
      <4>2. f \in DOMAIN h => bt.hooks[f] = h[f]
        BY <3>1, <3>2 DEF Put
      <4> QED BY <4>1, <4>2
    <3> HIDE DEF nf, ng
    <3>6. Put(Put(h, f, nf), g, ng) = Put(Put(h, g, ng), f, nf)
      BY <3>1, PutCommute
    <3> QED BY <3>2, <3>3, <3>4, <3>5, <3>6
  <2> QED BY <2>1, <2>2, <2>3
<1>8. WireAfter(c, bs.wire, t) = WireAfter(c, bt.wire, s)
  <2>1. CASE Inert(o)
    BY <1>1, <1>2, <2>1 DEF WireAfter
  <2>2. CASE Inert(p)
    BY <1>1, <1>2, <2>2 DEF WireAfter
  <2>3. CASE ~Inert(o) /\ ~Inert(p)
    <3> DEFINE ws == WireOf(o, s.arg)
               vs == WireOf(p, t.arg)
    <3>1. s.id # t.id
      BY <2>3 DEF Slot, Inert
    <3>2. \A x \in ws, y \in vs : x[1] = y[1] => x[1] \in c.listed
      BY <3>1, HeadersExclusive DEF IsStep
    <3> HIDE DEF ws, vs
    <3>3. Written(c, Written(c, b.wire, ws), vs) = Written(c, Written(c, b.wire, vs), ws)
      BY <3>2, WrittenCommute
    <3>4. bs.wire = Written(c, b.wire, ws) /\ bt.wire = Written(c, b.wire, vs)
      BY <1>1, <1>2, <2>3 DEF WireAfter, ws, vs
    <3>5. /\ WireAfter(c, bs.wire, t) = Written(c, bs.wire, vs)
          /\ WireAfter(c, bt.wire, s) = Written(c, bt.wire, ws)
      BY <2>3 DEF WireAfter, ws, vs
    <3> QED BY <3>3, <3>4, <3>5
  <2> QED BY <2>1, <2>2, <2>3
<1>9. DroppedAfter(c, bs.dropped, t) = DroppedAfter(c, bt.dropped, s)
  BY <1>1, <1>2 DEF DroppedAfter
<1>10. SecretAfter(c, bs.secret, t) = SecretAfter(c, bt.secret, s)
  <2> DEFINE marks(x) == IF x.secret THEN {w[1] : w \in x.writes} ELSE {}
             ms == IF Inert(o) THEN {} ELSE marks(o)
             mt == IF Inert(p) THEN {} ELSE marks(p)
  <2> HIDE DEF marks
  <2>1. \A x : SecretAfter(c, x, s) = x \cup ms
    BY DEF SecretAfter, marks
  <2>2. \A x : SecretAfter(c, x, t) = x \cup mt
    BY DEF SecretAfter, marks
  <2> HIDE DEF ms, mt
  <2>3. bs.secret = b.secret \cup ms /\ bt.secret = b.secret \cup mt
    BY <1>1, <1>2, <2>1, <2>2
  <2>4. /\ SecretAfter(c, bs.secret, t) = (b.secret \cup ms) \cup mt
        /\ SecretAfter(c, bt.secret, s) = (b.secret \cup mt) \cup ms
    BY <2>1, <2>2, <2>3
  <2>5. (b.secret \cup ms) \cup mt = (b.secret \cup mt) \cup ms
    OBVIOUS
  <2> QED BY <2>4, <2>5
<1>11. bs.spent \cup gt = bt.spent \cup gs /\ bs.kind = bt.kind
  <2> HIDE DEF gs, gt
  <2> QED BY <1>1, <1>2
<1> HIDE DEF gs, gt
<1>12. Apply(c, bs, t) = Apply(c, bt, s)
  BY <1>3, <1>4, <1>5, <1>6, <1>7, <1>8, <1>9, <1>10, <1>11
<1> QED BY <1>12 DEF bs, bt

-----------------------------------------------------------------------------
(* Builders and lint along a chain.                                        *)

(* A set of naturals has a least element.                                  *)
LEMMA LeastNatural ==
  ASSUME NEW T, T \subseteq Nat, T # {}
  PROVE  \E m \in T : \A n \in T : m <= n
<1> DEFINE R == OpToRel(<, Nat)
<1>1. \E m \in T : \A n \in T : ~ (<<n, m>> \in R)
  <2> HIDE DEF R
  <2>1. IsWellFoundedOn(R, Nat)
    BY NatLessThanWellFounded DEF R
  <2>2. QED
    BY <2>1, WFMin
<1>2. \A m, n \in Nat : <<n, m>> \in R <=> n < m
  BY DEF OpToRel
<1> HIDE DEF R
<1>3. PICK m \in T : \A n \in T : ~ (<<n, m>> \in R)
  BY <1>1
<1>4. \A n \in T : ~ (n < m)
  BY <1>2, <1>3
<1>5. QED
  BY <1>4

(* One value of the recursive function in Builds.                          *)
BuildStep(c, kind, src, b, k) == IF k = 0 THEN NewCall(kind) ELSE Apply(c, b, src[k])

(* f is that function up to n.                                             *)
Building(f, n, c, kind, src) == f = [k \in 0..n |-> BuildStep(c, kind, src, f[k - 1], k)]

(* The function exists: a least length without one would have one.         *)
LEMMA BuildingExists ==
  ASSUME NEW c, NEW kind, NEW src, NEW m \in Nat
  PROVE  \E f : Building(f, m, c, kind, src)
<1> DEFINE T == {n \in Nat : ~ \E f : Building(f, n, c, kind, src)}
<1> SUFFICES ASSUME T # {} PROVE FALSE
  OBVIOUS
<1>1. PICK k \in T : \A n \in T : k <= n
  BY LeastNatural
<1>2. k \in Nat /\ ~ \E f : Building(f, k, c, kind, src)
  OBVIOUS
<1>3. CASE k = 0
  <2> DEFINE f == [n \in 0..0 |-> BuildStep(c, kind, src, 0, 0)]
  <2>1. \A n \in 0..0 : n = 0
    OBVIOUS
  <2>2. f = [n \in 0..0 |-> BuildStep(c, kind, src, f[n - 1], n)]
    BY <2>1 DEF BuildStep
  <2> HIDE DEF f
  <2>3. Building(f, k, c, kind, src)
    BY <1>3, <2>2 DEF Building
  <2>4. QED
    BY <1>2, <2>3
<1>4. CASE k # 0
  <2>1. k - 1 \in Nat /\ ~ (k <= k - 1)
    BY <1>2, <1>4
  <2>2. PICK f : Building(f, k - 1, c, kind, src)
    BY <1>1, <2>1
  <2> DEFINE last == BuildStep(c, kind, src, f[k - 1], k)
             g == [n \in 0..k |-> IF n = k THEN last ELSE f[n]]
  <2>3. \A n \in 0..k : n # k => n \in 0..(k - 1) /\ (n # 0 => n - 1 \in 0..k /\ n - 1 # k)
    BY <1>2
  <2>4. k - 1 \in 0..k /\ k - 1 # k /\ k \in 0..k
    BY <1>2, <1>4
  <2> HIDE DEF last
  <2>5. ASSUME NEW n \in 0..k PROVE g[n] = BuildStep(c, kind, src, g[n - 1], n)
    <3>1. CASE n = k
      <4>1. g[n - 1] = f[k - 1]
        BY <2>4, <3>1
      <4>2. g[n] = last
        BY <3>1
      <4>3. QED
        BY <3>1, <4>1, <4>2 DEF last
    <3>2. CASE n # k
      <4>1. n \in 0..(k - 1) /\ (n # 0 => n - 1 \in 0..k /\ n - 1 # k)
        BY <2>3, <3>2
      <4>2. g[n] = f[n] /\ (n # 0 => g[n - 1] = f[n - 1])
        BY <3>2, <4>1
      <4>3. f[n] = BuildStep(c, kind, src, f[n - 1], n)
        BY <2>2, <4>1 DEF Building
      <4> HIDE DEF g
      <4>4. n = 0 => \A b : BuildStep(c, kind, src, b, n) = BuildStep(c, kind, src, 0, 0)
        BY DEF BuildStep
      <4>5. QED
        BY <4>2, <4>3, <4>4
    <3>3. QED
      BY <3>1, <3>2
  <2>6. DOMAIN g = 0..k /\ g = [n \in 0..k |-> g[n]]
    OBVIOUS
  <2> HIDE DEF g
  <2>7. Building(g, k, c, kind, src)
    BY <2>5, <2>6 DEF Building
  <2>8. QED
    BY <1>2, <2>7
<1>5. QED
  BY <1>3, <1>4

(* The builders along a chain, method by method.                           *)
LEMMA BuildsStep ==
  ASSUME NEW c, NEW kind, NEW src, Len(src) \in Nat
  PROVE  /\ DOMAIN Builds(c, kind, src) = 0..Len(src)
         /\ Builds(c, kind, src)[0] = NewCall(kind)
         /\ \A k \in 1..Len(src) : Builds(c, kind, src)[k] = Apply(c, Builds(c, kind,
              src)[k - 1], src[k])
<1> DEFINE n == Len(src)
           after == CHOOSE f : Building(f, n, c, kind, src)
<1>1. Builds(c, kind, src) = after
  BY DEF Builds, Building, BuildStep
<1>2. Building(after, n, c, kind, src)
  BY BuildingExists
<1> HIDE DEF after, n
<1>3. DOMAIN after = 0..n /\ \A k \in 0..n : after[k] = BuildStep(c, kind, src, after[k - 1],
        k)
  BY <1>2 DEF Building
<1>4. 0 \in 0..n /\ \A k \in 1..n : k \in 0..n /\ k # 0
  BY DEF n
<1>5. after[0] = NewCall(kind)
  BY <1>3, <1>4 DEF BuildStep
<1>6. ASSUME NEW k \in 1..n PROVE after[k] = Apply(c, after[k - 1], src[k])
  BY <1>3, <1>4 DEF BuildStep
<1> QED BY <1>1, <1>3, <1>5, <1>6 DEF n

(* Chains that agree between two places.                                   *)
LEMMA BuildsAgree ==
  ASSUME NEW c, NEW kind, NEW src, NEW alt, Len(src) \in Nat, Len(alt) \in Nat,
           NEW a \in Nat, NEW z \in Nat,
         z <= Len(src), z <= Len(alt), a <= z,
         Builds(c, kind, src)[a] = Builds(c, kind, alt)[a],
         \A k \in a..z : k # a => src[k] = alt[k]
  PROVE  \A k \in a..z : Builds(c, kind, src)[k] = Builds(c, kind, alt)[k]
<1> DEFINE f == Builds(c, kind, src)
           g == Builds(c, kind, alt)
           n == Len(src)
           m == Len(alt)
           T == {k \in a..z : f[k] # g[k]}
<1>1. \A k \in 1..n : f[k] = Apply(c, f[k - 1], src[k])
  BY BuildsStep
<1>2. \A k \in 1..m : g[k] = Apply(c, g[k - 1], alt[k])
  BY BuildsStep
<1>3. f[a] = g[a]
  OBVIOUS
<1>a. n \in Nat /\ m \in Nat /\ z <= n /\ z <= m
  OBVIOUS
<1> HIDE DEF f, g, n, m
<1>4. SUFFICES ASSUME T # {} PROVE FALSE
  BY DEF f, g
<1>5. T \subseteq Nat
  OBVIOUS
<1>6. PICK k \in T : \A i \in T : k <= i
  <2> HIDE DEF T
  <2> QED BY <1>4, <1>5, LeastNatural
<1>7. k \in a..z /\ f[k] # g[k]
  OBVIOUS
<1>8. k # a
  BY <1>3, <1>7
<1>9. k - 1 \in a..z /\ ~(k <= k - 1)  /\ k \in 1..n /\ k \in 1..m
  BY <1>7, <1>8, <1>a
<1>10. f[k - 1] = g[k - 1]
  BY <1>6, <1>9
<1>11. src[k] = alt[k]
  BY <1>7, <1>8
<1> HIDE DEF T
<1>12. f[k] = g[k]
  BY <1>1, <1>2, <1>9, <1>10, <1>11
<1> QED BY <1>7, <1>12

(* One value of the recursive function in Audited.                         *)
AuditStep(c, surface, src, b, k) == IF k = 0 THEN [spent |-> {}, applied |-> {},
    issues |-> {}] ELSE AuditMethod(c, surface, b, src[k].id)

(* f is that function up to n.                                             *)
Auditing(f, n, c, surface, src) == f = [k \in 0..n |-> AuditStep(c, surface, src, f[k - 1],
    k)]

(* The function exists: a least length without one would have one.         *)
LEMMA AuditingExists ==
  ASSUME NEW c, NEW surface, NEW src, NEW m \in Nat
  PROVE  \E f : Auditing(f, m, c, surface, src)
<1> DEFINE T == {n \in Nat : ~ \E f : Auditing(f, n, c, surface, src)}
<1> SUFFICES ASSUME T # {} PROVE FALSE
  OBVIOUS
<1>1. PICK k \in T : \A n \in T : k <= n
  BY LeastNatural
<1>2. k \in Nat /\ ~ \E f : Auditing(f, k, c, surface, src)
  OBVIOUS
<1>3. CASE k = 0
  <2> DEFINE f == [n \in 0..0 |-> AuditStep(c, surface, src, 0, 0)]
  <2>1. \A n \in 0..0 : n = 0
    OBVIOUS
  <2>2. f = [n \in 0..0 |-> AuditStep(c, surface, src, f[n - 1], n)]
    BY <2>1 DEF AuditStep
  <2> HIDE DEF f
  <2>3. Auditing(f, k, c, surface, src)
    BY <1>3, <2>2 DEF Auditing
  <2>4. QED
    BY <1>2, <2>3
<1>4. CASE k # 0
  <2>1. k - 1 \in Nat /\ ~ (k <= k - 1)
    BY <1>2, <1>4
  <2>2. PICK f : Auditing(f, k - 1, c, surface, src)
    BY <1>1, <2>1
  <2> DEFINE last == AuditStep(c, surface, src, f[k - 1], k)
             g == [n \in 0..k |-> IF n = k THEN last ELSE f[n]]
  <2>3. \A n \in 0..k : n # k => n \in 0..(k - 1) /\ (n # 0 => n - 1 \in 0..k /\ n - 1 # k)
    BY <1>2
  <2>4. k - 1 \in 0..k /\ k - 1 # k /\ k \in 0..k
    BY <1>2, <1>4
  <2> HIDE DEF last
  <2>5. ASSUME NEW n \in 0..k PROVE g[n] = AuditStep(c, surface, src, g[n - 1], n)
    <3>1. CASE n = k
      <4>1. g[n - 1] = f[k - 1]
        BY <2>4, <3>1
      <4>2. g[n] = last
        BY <3>1
      <4>3. QED
        BY <3>1, <4>1, <4>2 DEF last
    <3>2. CASE n # k
      <4>1. n \in 0..(k - 1) /\ (n # 0 => n - 1 \in 0..k /\ n - 1 # k)
        BY <2>3, <3>2
      <4>2. g[n] = f[n] /\ (n # 0 => g[n - 1] = f[n - 1])
        BY <3>2, <4>1
      <4>3. f[n] = AuditStep(c, surface, src, f[n - 1], n)
        BY <2>2, <4>1 DEF Auditing
      <4> HIDE DEF g
      <4>4. n = 0 => \A b : AuditStep(c, surface, src, b, n) = AuditStep(c, surface, src, 0,
              0)
        BY DEF AuditStep
      <4>5. QED
        BY <4>2, <4>3, <4>4
    <3>3. QED
      BY <3>1, <3>2
  <2>6. DOMAIN g = 0..k /\ g = [n \in 0..k |-> g[n]]
    OBVIOUS
  <2> HIDE DEF g
  <2>7. Auditing(g, k, c, surface, src)
    BY <2>5, <2>6 DEF Auditing
  <2>8. QED
    BY <1>2, <2>7
<1>5. QED
  BY <1>3, <1>4

(* The lint along a chain, method by method.                               *)
LEMMA AuditedStep ==
  ASSUME NEW c, NEW surface, NEW src, Len(src) \in Nat
  PROVE  /\ DOMAIN Audited(c, surface, src) = 0..Len(src)
         /\ Audited(c, surface, src)[0] = [spent |-> {}, applied |-> {}, issues |-> {}]
         /\ \A k \in 1..Len(src) : Audited(c, surface, src)[k] = AuditMethod(c, surface,
              Audited(c, surface, src)[k - 1], src[k].id)
<1> DEFINE n == Len(src)
           after == CHOOSE f : Auditing(f, n, c, surface, src)
<1>1. Audited(c, surface, src) = after
  BY DEF Audited, Auditing, AuditStep
<1>2. Auditing(after, n, c, surface, src)
  BY AuditingExists
<1> HIDE DEF after, n
<1>3. DOMAIN after = 0..n /\ \A k \in 0..n : after[k] = AuditStep(c, surface, src,
        after[k - 1], k)
  BY <1>2 DEF Auditing
<1>4. 0 \in 0..n /\ \A k \in 1..n : k \in 0..n /\ k # 0
  BY DEF n
<1>5. after[0] = [spent |-> {}, applied |-> {}, issues |-> {}]
  BY <1>3, <1>4 DEF AuditStep
<1>6. ASSUME NEW k \in 1..n PROVE after[k] = AuditMethod(c, surface, after[k - 1], src[k].id)
  BY <1>3, <1>4 DEF AuditStep
<1> QED BY <1>1, <1>3, <1>5, <1>6 DEF n

(* Chains that agree between two places.                                   *)
LEMMA AuditedAgree ==
  ASSUME NEW c, NEW surface, NEW src, NEW alt, Len(src) \in Nat, Len(alt) \in Nat,
           NEW a \in Nat, NEW z \in Nat,
         z <= Len(src), z <= Len(alt), a <= z,
         Audited(c, surface, src)[a] = Audited(c, surface, alt)[a],
         \A k \in a..z : k # a => src[k] = alt[k]
  PROVE  \A k \in a..z : Audited(c, surface, src)[k] = Audited(c, surface, alt)[k]
<1> DEFINE f == Audited(c, surface, src)
           g == Audited(c, surface, alt)
           n == Len(src)
           m == Len(alt)
           T == {k \in a..z : f[k] # g[k]}
<1>1. \A k \in 1..n : f[k] = AuditMethod(c, surface, f[k - 1], src[k].id)
  BY AuditedStep
<1>2. \A k \in 1..m : g[k] = AuditMethod(c, surface, g[k - 1], alt[k].id)
  BY AuditedStep
<1>3. f[a] = g[a]
  OBVIOUS
<1>a. n \in Nat /\ m \in Nat /\ z <= n /\ z <= m
  OBVIOUS
<1> HIDE DEF f, g, n, m
<1>4. SUFFICES ASSUME T # {} PROVE FALSE
  BY DEF f, g
<1>5. T \subseteq Nat
  OBVIOUS
<1>6. PICK k \in T : \A i \in T : k <= i
  <2> HIDE DEF T
  <2> QED BY <1>4, <1>5, LeastNatural
<1>7. k \in a..z /\ f[k] # g[k]
  OBVIOUS
<1>8. k # a
  BY <1>3, <1>7
<1>9. k - 1 \in a..z /\ ~(k <= k - 1)  /\ k \in 1..n /\ k \in 1..m
  BY <1>7, <1>8, <1>a
<1>10. f[k - 1] = g[k - 1]
  BY <1>6, <1>9
<1>11. src[k] = alt[k]
  BY <1>7, <1>8
<1> HIDE DEF T
<1>12. f[k] = g[k]
  BY <1>1, <1>2, <1>9, <1>10, <1>11
<1> QED BY <1>7, <1>12

-----------------------------------------------------------------------------
(* What a chain makes of its builder.                                      *)

(* The group and the field of a method.                                    *)
Group(c, s) == c.options[s.id].group
Field(c, s) == c.options[s.id].field

(* What rustc and the assertions let through.                              *)
MayFollow(c, s, b) ==
  /\ IsStep(c, s) /\ Asserts(c.options[s.id].takes, s.arg)
  /\ Reachable(c, s, b)

(* The methods R a builder has had fit it and each other, and the spent    *)
(* groups are theirs.                                                      *)
TypeStates(c, b, R) ==
  /\ IsCall(b) /\ SectionsAreObjects(b.plan)
  /\ \A r \in R : /\ IsStep(c, r) /\ Asserts(c.options[r.id].takes, r.arg)
                  /\ b.kind \in c.options[r.id].on
  /\ \A r, q \in R : r # q => Compatible(c, r.id, q.id)
  /\ b.spent = {Group(c, r) : r \in R} \ {""}

(* The fields and hooks of the plan are those of R, each with the value    *)
(* one of R gave it.                                                       *)
PlanIsOf(c, b, R) ==
  /\ "serial_strategy" \in DOMAIN b.plan
  /\ \A f \in DOMAIN b.plan :
       f = "serial_strategy" \/ \E r \in R : ~Idle(c.options[r.id]) /\ Field(c, r) = f
  /\ \A r \in R : ~Idle(c.options[r.id]) => Field(c, r) \in DOMAIN b.plan
  /\ \A f \in DOMAIN b.plan \ InputFields :
       \/ f = "serial_strategy" /\ b.plan[f] = Scalar("json")
       \/ \E r \in R : /\ ~Inert(c.options[r.id]) /\ Field(c, r) = f
                       /\ b.plan[f] = PlanValue(c.options[r.id], r.arg)
  /\ \A f \in DOMAIN b.hooks :
       \E r \in R : c.options[r.id].takes = "callback" /\ Field(c, r) = f

(* Every directive on the wire, every header's name and every dropped      *)
(* header is from R.                                                       *)
WireIsOf(c, b, R) ==
  /\ \A h \in DOMAIN b.headers : \E r \in R : r.name = h
  /\ \A h \in DOMAIN b.wire :
       \E r \in R : ~Inert(c.options[r.id])
                   /\ \E w \in WireOf(c.options[r.id], r.arg) : w[1] = h
  /\ \A h \in DOMAIN b.wire : \A d \in b.wire[h] :
       \E r \in R : ~Inert(c.options[r.id]) /\ <<h, d>> \in WireOf(c.options[r.id], r.arg)
  /\ \A h \in b.dropped :
       \E r \in R : ~Inert(c.options[r.id]) /\ h \in c.options[r.id].drops

(* What r writes is on the wire.                                           *)
Carried(c, b, r) ==
  \A w \in WireOf(c.options[r.id], r.arg) : w[1] \in DOMAIN b.wire /\ w[2] \in b.wire[w[1]]

(* A bearer token is on the wire, and is not dropped.                      *)
BearerCarried(c, b, R) ==
  \A r \in R : r.id = "with_bearer_token" =>
    /\ "authorization" \in DOMAIN b.wire /\ "credential" \in b.wire["authorization"]
    /\ "authorization" \notin b.dropped

(* What a method adds to the spent groups.                                 *)
Groups(c, s) == {c.options[s.id].group} \ {""}

(* ApplyParts, part by part.                                               *)
LEMMA AppliedParts ==
  ASSUME NEW c, NEW b, IsCall(b), NEW s, NEW a, a = Apply(c, b, s)
  PROVE  /\ IsCall(a) /\ a.kind = b.kind
         /\ a.spent = b.spent \cup Groups(c, s) /\ a.plan = PlanAfter(c, b.plan, s)
         /\ a.headers = HeadersAfter(c, b.headers, s) /\ a.wire = WireAfter(c, b.wire, s)
         /\ a.dropped = DroppedAfter(c, b.dropped, s) /\ a.secret = SecretAfter(c, b.secret,
              s)
         /\ a.hooks = HooksAfter(c, b.hooks, s)
<1> DEFINE g == {c.options[s.id].group} \ {""}
<1> HIDE DEF g
<1>1. a = Builder8(b.kind, b.spent \cup g, PlanAfter(c, b.plan, s), HeadersAfter(c,
        b.headers, s), WireAfter(c, b.wire, s),
           DroppedAfter(c, b.dropped, s), SecretAfter(c, b.secret, s), HooksAfter(c, b.hooks,
             s))
  BY ApplyParts DEF g
<1>2. /\ IsCall(a) /\ a.kind = b.kind /\ a.spent = b.spent \cup g /\ a.plan = PlanAfter(c,
           b.plan, s)
      /\ a.headers = HeadersAfter(c, b.headers, s) /\ a.wire = WireAfter(c, b.wire, s)
      /\ a.dropped = DroppedAfter(c, b.dropped, s) /\ a.secret = SecretAfter(c, b.secret, s)
      /\ a.hooks = HooksAfter(c, b.hooks, s)
  BY <1>1, BuilderIsCall
<1> QED BY <1>2 DEF g, Groups

(* The fields a method leaves and the one it sets.                         *)
LEMMA PlanAfterShape ==
  ASSUME NEW c, NEW plan, NEW s, NEW o, o = c.options[s.id], NEW q, q = PlanAfter(c, plan, s)
  PROVE  /\ Idle(o) => q = plan
         /\ ~Idle(o) => \A f : f \in DOMAIN q <=> f \in DOMAIN plan \/ f = o.field
         /\ \A f \in DOMAIN plan : f # o.field => q[f] = plan[f]
         /\ ~Inert(o) => q[o.field] = PlanValue(o, s.arg)
<1> DEFINE Goal == /\ Idle(o) => q = plan
                   /\ ~Idle(o) => \A f : f \in DOMAIN q <=> f \in DOMAIN plan \/ f = o.field
                   /\ \A f \in DOMAIN plan : f # o.field => q[f] = plan[f]
                   /\ ~Inert(o) => q[o.field] = PlanValue(o, s.arg)
<1>1. CASE Idle(o)
  BY <1>1 DEF PlanAfter, Idle, Inert
<1>2. CASE ~Idle(o) /\ o.takes # "entry"
  <2>1. q = Put(plan, o.field, PlanValue(o, s.arg))
    BY <1>2 DEF PlanAfter, Idle
  <2>2. Goal
    BY <1>2, <2>1 DEF Put
  <2> QED BY <2>2
<1>3. CASE ~Idle(o) /\ o.takes = "entry"
  <2>0. Inert(o)
    BY <1>3 DEF Inert
  <2>1. (q = plan /\ o.field \in DOMAIN plan) \/ \E u : q = Put(plan, o.field, u)
    BY <1>3 DEF PlanAfter, Idle
  <2>2. CASE q = plan /\ o.field \in DOMAIN plan
    <3>1. Goal
      BY <1>3, <2>0, <2>2
    <3> QED BY <3>1
  <2>3. CASE \E u : q = Put(plan, o.field, u)
    <3>1. PICK u : q = Put(plan, o.field, u)
      BY <2>3
    <3>2. Goal
      BY <1>3, <2>0, <3>1 DEF Put
    <3> QED BY <3>2
  <2> QED BY <2>1, <2>2, <2>3
<1> QED BY <1>1, <1>2, <1>3

(* Path and query remain objects.                                          *)
LEMMA SectionsStep ==
  ASSUME NEW c, Disciplined(c), NEW plan, SectionsAreObjects(plan), NEW s, IsStep(c, s)
  PROVE  SectionsAreObjects(PlanAfter(c, plan, s))
<1> DEFINE o == c.options[s.id]
           q == PlanAfter(c, plan, s)
<1> HIDE DEF o, q
<1>0. /\ Idle(o) => q = plan
      /\ ~Idle(o) => \A f : f \in DOMAIN q <=> f \in DOMAIN plan \/ f = o.field
      /\ \A f \in DOMAIN plan : f # o.field => q[f] = plan[f]
      /\ ~Inert(o) => q[o.field] = PlanValue(o, s.arg)
  BY PlanAfterShape DEF o, q
<1> SUFFICES ASSUME NEW f \in {"path", "query"}, f \in DOMAIN q PROVE IsObject(q[f])
  BY DEF SectionsAreObjects, q
<1>1. CASE Idle(o)
  BY <1>0, <1>1 DEF SectionsAreObjects
<1>2. CASE ~Idle(o) /\ f # o.field
  <2>1. f \in DOMAIN plan /\ q[f] = plan[f]
    BY <1>0, <1>2
  <2> QED BY <2>1 DEF SectionsAreObjects
<1>3. CASE ~Idle(o) /\ f = o.field
  <2>1. o.takes = "entry"
    BY <1>3 DEF Disciplined, InputsSound, IsStep, o
  <2>2. s.name # ""
    BY <2>1 DEF IsStep, o
  <2> DEFINE val == IF f \in DOMAIN plan THEN plan[f] ELSE <<>>
  <2>3. "" \notin DOMAIN val
    <3> DEFINE e == <<>>
    <3>1. DOMAIN e = {}
      OBVIOUS
    <3>2. CASE f \in DOMAIN plan
      BY <3>2 DEF SectionsAreObjects, IsObject
    <3>3. CASE f \notin DOMAIN plan
      BY <3>3, <3>1
    <3> QED BY <3>2, <3>3
  <2>4. q = Put(plan, f, Put(val, s.name, s.arg))
    <3>1. CASE f \in DOMAIN plan
      BY <1>3, <2>1, <3>1 DEF PlanAfter, Idle, SectionsAreObjects, o, q
    <3>2. CASE f \notin DOMAIN plan
      BY <1>3, <2>1, <3>2 DEF PlanAfter, Idle, o, q
    <3> QED BY <3>1, <3>2
  <2> DEFINE new == Put(val, s.name, s.arg)
  <2> HIDE DEF val
  <2>5. DOMAIN new = DOMAIN val \cup {s.name}
    BY DEF Put
  <2> HIDE DEF new
  <2>6. q[f] = new
    BY <2>4 DEF Put, new
  <2> QED BY <2>2, <2>3, <2>5, <2>6 DEF IsObject
<1> QED BY <1>1, <1>2, <1>3

(* A method that may still be called is no rival of a chosen option.       *)
LEMMA NoRival ==
  ASSUME NEW c, NEW b, NEW R, TypeStates(c, b, R), NEW s, MayFollow(c, s, b), NEW r \in R
  PROVE  Compatible(c, r.id, s.id)
<1>1. c.options[s.id].group = "" \/ c.options[s.id].group \notin b.spent
  BY DEF MayFollow, Reachable
<1>2. Group(c, r) # "" => Group(c, r) \in b.spent
  BY DEF TypeStates
<1> QED BY <1>1, <1>2 DEF Compatible, Group

(* A method that may follow keeps the type states.                         *)
LEMMA TypeStatesStep ==
  ASSUME NEW c, Disciplined(c), NEW b, NEW R, TypeStates(c, b, R), NEW s, MayFollow(c, s, b)
  PROVE  TypeStates(c, Apply(c, b, s), R \cup {s})
<1> DEFINE a == Apply(c, b, s)
<1>1. IsCall(a) /\ a.kind = b.kind /\ a.spent = b.spent \cup Groups(c, s)
        /\ a.plan = PlanAfter(c, b.plan, s)
  <2> HIDE DEF a
  <2>1. IsCall(b)
    BY DEF TypeStates
  <2> QED BY <2>1, AppliedParts DEF a
<1> HIDE DEF a
<1>2. SectionsAreObjects(a.plan)
  <2>1. SectionsAreObjects(b.plan) /\ IsStep(c, s)
    BY DEF TypeStates, MayFollow
  <2>2. SectionsAreObjects(PlanAfter(c, b.plan, s))
    BY <2>1, SectionsStep
  <2> QED BY <1>1, <2>2
<1>3. a.kind \in c.options[s.id].on
  BY <1>1 DEF MayFollow, Reachable, Builder
<1>4. a.spent = {Group(c, r) : r \in R \cup {s}} \ {""}
  <2>1. {Group(c, r) : r \in R \cup {s}} = {Group(c,
          r) : r \in R} \cup {c.options[s.id].group}
    BY DEF Group
  <2>2. b.spent = {Group(c, r) : r \in R} \ {""}
    BY DEF TypeStates
  <2> QED BY <1>1, <2>1, <2>2 DEF Groups
<1>5. ASSUME NEW r \in R \cup {s}, NEW q \in R \cup {s}, r # q PROVE Compatible(c, r.id, q.id)
  <2>1. CASE r \in R /\ q \in R
    BY <1>5, <2>1 DEF TypeStates
  <2>2. CASE q = s /\ r \in R
    BY <2>2, NoRival
  <2>3. CASE r = s /\ q \in R
    <3>1. Compatible(c, q.id, s.id)
      BY <2>3, NoRival
    <3> QED BY <2>3, <3>1 DEF Compatible
  <2> QED BY <1>5, <2>1, <2>2, <2>3
<1>6. TypeStates(c, a, R \cup {s})
  BY <1>1, <1>2, <1>3, <1>4, <1>5 DEF TypeStates, MayFollow
<1> QED BY <1>6 DEF a

(* A method that may follow keeps the plan accounted for.                  *)
LEMMA PlanStep ==
  ASSUME NEW c, Disciplined(c), NEW b, IsCall(b), NEW R, PlanIsOf(c, b, R), NEW s, IsStep(c,
           s)
  PROVE  PlanIsOf(c, Apply(c, b, s), R \cup {s})
<1> DEFINE a == Apply(c, b, s)
           o == c.options[s.id]
<1> HIDE DEF a
<1>1. a.plan = PlanAfter(c, b.plan, s) /\ a.hooks = HooksAfter(c, b.hooks, s)
  BY AppliedParts DEF a
<1>2. /\ Idle(o) => a.plan = b.plan
      /\ ~Idle(o) => \A f : f \in DOMAIN a.plan <=> f \in DOMAIN b.plan \/ f = o.field
      /\ \A f \in DOMAIN b.plan : f # o.field => a.plan[f] = b.plan[f]
      /\ ~Inert(o) => a.plan[o.field] = PlanValue(o, s.arg)
  <2> HIDE DEF o
  <2>1. o = c.options[s.id]
    BY DEF o
  <2> QED BY <1>1, <2>1, PlanAfterShape
<1>3. "serial_strategy" \in DOMAIN a.plan
  BY <1>2 DEF PlanIsOf
<1>4. ASSUME NEW f \in DOMAIN a.plan
      PROVE  f = "serial_strategy" \/ \E r \in R \cup {s} : ~Idle(c.options[r.id])
               /\ Field(c, r) = f
  <2>1. CASE f \in DOMAIN b.plan
    BY <2>1 DEF PlanIsOf
  <2>2. CASE f \notin DOMAIN b.plan
    BY <2>2, <1>2 DEF Field
  <2> QED BY <2>1, <2>2
<1>5. ASSUME NEW r \in R \cup {s}, ~Idle(c.options[r.id]) PROVE Field(c, r) \in DOMAIN a.plan
  <2>1. CASE r = s
    BY <2>1, <1>2, <1>5 DEF Field
  <2>2. CASE r \in R
    BY <2>2, <1>2, <1>5 DEF PlanIsOf
  <2> QED BY <2>1, <2>2
<1>6. ASSUME NEW f \in DOMAIN a.plan \ InputFields
      PROVE  \/ f = "serial_strategy" /\ a.plan[f] = Scalar("json")
             \/ \E r \in R \cup {s} : /\ ~Inert(c.options[r.id]) /\ Field(c, r) = f
                                      /\ a.plan[f] = PlanValue(c.options[r.id], r.arg)
  <2>1. CASE ~Idle(o) /\ f = o.field
    <3>1. ~Inert(o)
      BY <2>1 DEF Idle, Inert, Disciplined, InputsSound, IsStep
    <3> QED BY <2>1, <3>1, <1>2 DEF Field
  <2>2. CASE Idle(o) \/ f # o.field
    <3>1. f \in DOMAIN b.plan /\ a.plan[f] = b.plan[f]
      BY <2>2, <1>2
    <3> QED BY <3>1 DEF PlanIsOf
  <2> QED BY <2>1, <2>2
<1>7. ASSUME NEW f \in DOMAIN a.hooks
      PROVE  \E r \in R \cup {s} : c.options[r.id].takes = "callback" /\ Field(c, r) = f
  <2>1. CASE f \in DOMAIN b.hooks
    BY <2>1 DEF PlanIsOf
  <2>2. CASE f \notin DOMAIN b.hooks
    <3>1. o.takes = "callback" /\ f = o.field
      BY <2>2, <1>1 DEF HooksAfter, Put
    <3> QED BY <3>1 DEF Field
  <2> QED BY <2>1, <2>2
<1>8. PlanIsOf(c, a, R \cup {s})
  BY <1>3, <1>4, <1>5, <1>6, <1>7 DEF PlanIsOf
<1> QED BY <1>8 DEF a

(* The directives that are on the wire after a write.                      *)
LEMMA WrittenShape ==
  ASSUME NEW c, NEW wire, NEW ws, NEW q, q = Written(c, wire, ws)
  PROVE  /\ \A h : h \in DOMAIN q <=> h \in DOMAIN wire \/ \E x \in ws : x[1] = h
         /\ \A x \in ws : x[2] \in q[x[1]]
         /\ \A h \in DOMAIN wire : \A d \in wire[h] :
              h \in c.listed \/ (\A x \in ws : x[1] # h) => d \in q[h]
         /\ \A h \in DOMAIN q : \A d \in q[h] :
              \/ h \in DOMAIN wire /\ d \in wire[h]
              \/ \E x \in ws : x[1] = h /\ x[2] = d
<1>1. \A h : h \in DOMAIN q <=> h \in DOMAIN wire \/ \E x \in ws : x[1] = h
  BY DEF Written, Heads
<1>2. ASSUME NEW h \in DOMAIN q
      PROVE  q[h] = (IF h \in DOMAIN wire /\ (Added(ws, h) = {}
               \/ h \in c.listed) THEN wire[h] ELSE {})
                      \cup Added(ws, h)
  BY DEF Written
<1>3. ASSUME NEW x \in ws PROVE x[2] \in q[x[1]]
  <2>1. x[1] \in DOMAIN q
    BY <1>1
  <2>2. x[2] \in Added(ws, x[1])
    BY DEF Added
  <2> QED BY <1>2, <2>1, <2>2
<1>4. ASSUME NEW h \in DOMAIN wire, NEW d \in wire[h], h \in c.listed
               \/ (\A x \in ws : x[1] # h)
      PROVE  d \in q[h]
  <2>1. h \in DOMAIN q
    BY <1>1
  <2>2. Added(ws, h) = {} \/ h \in c.listed
    BY <1>4 DEF Added
  <2> QED BY <1>2, <2>1, <2>2
<1>5. ASSUME NEW h \in DOMAIN q, NEW d \in q[h]
      PROVE  \/ h \in DOMAIN wire /\ d \in wire[h]
             \/ \E x \in ws : x[1] = h /\ x[2] = d
  <2>1. CASE d \in Added(ws, h)
    BY <2>1 DEF Added
  <2>2. CASE d \notin Added(ws, h)
    BY <2>2, <1>2
  <2> QED BY <2>1, <2>2
<1> QED BY <1>1, <1>3, <1>4, <1>5

(* A directive is a pair of a header and a text.                           *)
LEMMA WirePairs ==
  ASSUME NEW o, NEW v, NEW w \in WireOf(o, v)
  PROVE  w = <<w[1], w[2]>>
<1>1. CASE w \in HeaderEffect(o.takes, v)
  BY <1>1 DEF HeaderEffect
<1>2. CASE w \notin HeaderEffect(o.takes, v)
  <2>1. PICK x \in o.writes : w = Text(x, v)
    BY <1>2 DEF WireOf
  <2> QED BY <2>1 DEF Text
<1> QED BY <1>1, <1>2

(* A method keeps the wire accounted for.                                  *)
LEMMA WireStep ==
  ASSUME NEW c, NEW b, IsCall(b), NEW R, WireIsOf(c, b, R), NEW s
  PROVE  WireIsOf(c, Apply(c, b, s), R \cup {s})
<1> DEFINE a == Apply(c, b, s)
           o == c.options[s.id]
<1> HIDE DEF a
<1>1. /\ a.wire = WireAfter(c, b.wire, s) /\ a.dropped = DroppedAfter(c, b.dropped, s)
      /\ a.headers = HeadersAfter(c, b.headers, s)
  BY AppliedParts DEF a
<1>2. ASSUME NEW h \in DOMAIN a.wire, NEW d \in a.wire[h]
      PROVE  \E r \in R \cup {s} : ~Inert(c.options[r.id]) /\ <<h,
               d>> \in WireOf(c.options[r.id], r.arg)
  <2>1. CASE h \in DOMAIN b.wire /\ d \in b.wire[h]
    BY <2>1 DEF WireIsOf
  <2>2. CASE ~(h \in DOMAIN b.wire /\ d \in b.wire[h])
    <3>1. ~Inert(o) /\ a.wire = Written(c, b.wire, WireOf(o, s.arg))
      BY <1>1, <1>2, <2>2 DEF WireAfter
    <3> DEFINE ws == WireOf(o, s.arg)
    <3> HIDE DEF ws
    <3>2. PICK x \in ws : x[1] = h /\ x[2] = d
      BY <1>2, <2>2, <3>1, WrittenShape DEF ws
    <3>3. x = <<h, d>>
      BY <3>2, WirePairs DEF ws
    <3>4. <<h, d>> \in WireOf(o, s.arg)
      BY <3>2, <3>3 DEF ws
    <3> QED BY <3>1, <3>4
  <2> QED BY <2>1, <2>2
<1>3. ASSUME NEW h \in a.dropped
      PROVE  \E r \in R \cup {s} : ~Inert(c.options[r.id]) /\ h \in c.options[r.id].drops
  <2>1. CASE h \in b.dropped
    BY <2>1 DEF WireIsOf
  <2>2. CASE h \notin b.dropped
    BY <1>1, <1>3, <2>2 DEF DroppedAfter
  <2> QED BY <2>1, <2>2
<1>4. ASSUME NEW h \in DOMAIN a.headers PROVE \E r \in R \cup {s} : r.name = h
  <2>1. CASE h \in DOMAIN b.headers
    BY <2>1 DEF WireIsOf
  <2>2. CASE h \notin DOMAIN b.headers
    <3>1. a.headers = Put(b.headers, s.name, {s.arg})
      BY <1>1, <1>4, <2>2 DEF HeadersAfter
    <3>2. DOMAIN a.headers = DOMAIN b.headers \cup {s.name}
      BY <3>1 DEF Put
    <3> QED BY <1>4, <2>2, <3>2
  <2> QED BY <2>1, <2>2
<1>5. ASSUME NEW h \in DOMAIN a.wire
      PROVE  \E r \in R \cup {s} : ~Inert(c.options[r.id])
               /\ \E w \in WireOf(c.options[r.id], r.arg) : w[1] = h
  <2>1. CASE h \in DOMAIN b.wire
    BY <2>1 DEF WireIsOf
  <2>2. CASE h \notin DOMAIN b.wire
    <3>1. ~Inert(o) /\ a.wire = Written(c, b.wire, WireOf(o, s.arg))
      BY <1>1, <1>5, <2>2 DEF WireAfter
    <3> DEFINE ws == WireOf(o, s.arg)
    <3> HIDE DEF ws
    <3>2. \E x \in ws : x[1] = h
      BY <1>5, <2>2, <3>1, WrittenShape DEF ws
    <3> QED BY <3>1, <3>2 DEF ws
  <2> QED BY <2>1, <2>2
<1>6. WireIsOf(c, a, R \cup {s})
  BY <1>2, <1>3, <1>4, <1>5 DEF WireIsOf
<1> QED BY <1>6 DEF a

(* What a chosen option has on the wire stays there.                       *)
LEMMA DirectiveStays ==
  ASSUME NEW c, Integrity(c), Disciplined(c), NEW b, NEW R, TypeStates(c, b, R), NEW r \in R,
           ~Inert(c.options[r.id]),
         NEW s, MayFollow(c, s, b), s.id # r.id,
         NEW w \in WireOf(c.options[r.id], r.arg), w[1] \in DOMAIN b.wire,
           w[2] \in b.wire[w[1]]
  PROVE  w[1] \in DOMAIN Apply(c, b, s).wire /\ w[2] \in Apply(c, b, s).wire[w[1]]
<1> DEFINE a == Apply(c, b, s)
           o == c.options[s.id]
           ws == WireOf(o, s.arg)
<1>0. IsCall(b)
  BY DEF TypeStates
<1> HIDE DEF a
<1>1. a.wire = WireAfter(c, b.wire, s)
  BY <1>0, AppliedParts DEF a
<1>2. CASE Inert(o)
  <2>1. a.wire = b.wire
    BY <1>1, <1>2 DEF WireAfter
  <2> QED BY <2>1 DEF a
<1>3. CASE ~Inert(o)
  <2>1. a.wire = Written(c, b.wire, ws)
    BY <1>1, <1>3 DEF WireAfter
  <2>2. IsStep(c, r) /\ IsStep(c, s) /\ Compatible(c, r.id, s.id)
    BY NoRival DEF TypeStates, MayFollow
  <2>3. \A x \in ws : x[1] = w[1] => w[1] \in c.listed
    BY <2>2, HeadersExclusive DEF IsStep
  <2> HIDE DEF ws
  <2>4. w[1] \in c.listed \/ \A x \in ws : x[1] # w[1]
    BY <2>3
  <2>5. w[1] \in DOMAIN a.wire /\ w[2] \in a.wire[w[1]]
    BY <2>1, <2>4, WrittenShape
  <2> QED BY <2>5 DEF a
<1> QED BY <1>2, <1>3

(* A method has its own directives on the wire.                            *)
LEMMA DirectiveSent ==
  ASSUME NEW c, NEW b, IsCall(b), NEW s, ~Inert(c.options[s.id]),
           NEW w \in WireOf(c.options[s.id], s.arg)
  PROVE  w[1] \in DOMAIN Apply(c, b, s).wire /\ w[2] \in Apply(c, b, s).wire[w[1]]
<1> DEFINE a == Apply(c, b, s)
           o == c.options[s.id]
           ws == WireOf(o, s.arg)
<1> HIDE DEF a
<1>1. a.wire = WireAfter(c, b.wire, s)
  BY AppliedParts DEF a
<1>2. a.wire = Written(c, b.wire, ws)
  BY <1>1 DEF WireAfter
<1> HIDE DEF ws
<1>3. w \in ws
  BY DEF ws
<1>4. w[1] \in DOMAIN a.wire /\ w[2] \in a.wire[w[1]]
  BY <1>2, <1>3, WrittenShape
<1> QED BY <1>4 DEF a

(* A later method does not take the bearer token away.                     *)
LEMMA BearerStep ==
  ASSUME NEW c, Integrity(c), Disciplined(c), NEW b, NEW R, TypeStates(c, b, R), WireIsOf(c,
           b, R),
         BearerCarried(c, b, R), NEW s, MayFollow(c, s, b)
  PROVE  BearerCarried(c, Apply(c, b, s), R \cup {s})
<1> DEFINE a == Apply(c, b, s)
           o == c.options[s.id]
           t == <<"authorization", "credential">>
<1>0. IsCall(b) /\ IsStep(c, s)
  BY DEF TypeStates, MayFollow
<1> HIDE DEF a
<1>1. a.dropped = DroppedAfter(c, b.dropped, s)
  BY <1>0, AppliedParts DEF a
<1> SUFFICES ASSUME NEW r \in R \cup {s}, r.id = "with_bearer_token"
             PROVE  /\ "authorization" \in DOMAIN a.wire
                         /\ "credential" \in a.wire["authorization"]
                    /\ "authorization" \notin a.dropped
  BY DEF BearerCarried, a
<1>2. IsStep(c, r)
  BY <1>0 DEF TypeStates
<1> DEFINE bearer == c.options["with_bearer_token"]
<1>3. /\ bearer.takes = "secret" /\ <<"authorization", "{}">> \in bearer.writes
      /\ \A id \in DOMAIN c.options : "authorization" \in c.options[id].drops =>
           id # "with_bearer_token" /\ bearer.group # "" /\ c.options[id].group = bearer.group
  BY <1>2 DEF Disciplined, BearerSound, IsStep
<1>4. r.arg = "credential" /\ ~Inert(bearer)
  BY <1>2, <1>3 DEF IsStep, Arguments, Inert
<1>5. t \in WireOf(bearer, r.arg)
  <2>1. Text(<<"authorization", "{}">>, r.arg) = t
    BY <1>4 DEF Text
  <2> QED BY <1>3, <2>1 DEF WireOf
<1> HIDE DEF t
<1>6. t[1] = "authorization" /\ t[2] = "credential"
  BY DEF t
<1>7. t[1] \in DOMAIN a.wire /\ t[2] \in a.wire[t[1]]
  <2>1. CASE s.id = "with_bearer_token"
    <3>1. s.arg = r.arg
      BY <2>1, <1>0, <1>3, <1>4 DEF IsStep, Arguments
    <3> QED BY <1>0, <1>4, <1>5, <2>1, <3>1, DirectiveSent DEF a
  <2>2. CASE s.id # "with_bearer_token"
    <3>1. r \in R
      BY <2>2
    <3>2. t[1] \in DOMAIN b.wire /\ t[2] \in b.wire[t[1]]
      BY <1>6, <3>1 DEF BearerCarried
    <3> QED BY <1>4, <1>5, <2>2, <3>1, <3>2, DirectiveStays DEF a
  <2> QED BY <2>1, <2>2
<1>8. "authorization" \notin a.dropped
  <2>1. CASE r \in R
    <3>1. "authorization" \notin b.dropped
      BY <2>1 DEF BearerCarried
    <3>2. Compatible(c, r.id, s.id)
      BY <2>1, NoRival
    <3>3. "authorization" \notin o.drops
      BY <1>0, <1>3, <3>2 DEF IsStep, Compatible
    <3> QED BY <1>1, <3>1, <3>3 DEF DroppedAfter
  <2>2. CASE r = s
    <3>1. "authorization" \notin o.drops
      BY <1>0, <1>3, <2>2 DEF IsStep
    <3>2. ASSUME "authorization" \in b.dropped PROVE FALSE
      <4>1. PICK x \in R : "authorization" \in c.options[x.id].drops
        BY <3>2 DEF WireIsOf
      <4>2. Compatible(c, x.id, s.id) /\ IsStep(c, x)
        BY NoRival DEF TypeStates
      <4> QED BY <1>3, <2>2, <4>1, <4>2 DEF Compatible, IsStep
    <3> QED BY <1>1, <3>1, <3>2 DEF DroppedAfter
  <2> QED BY <2>1, <2>2
<1> QED BY <1>6, <1>7, <1>8

(* Of a chain without repetitions every directive is carried.              *)
AllCarried(c, b, R) == \A r \in R : ~Inert(c.options[r.id]) => Carried(c, b, r)

(* A later method does not take directives away, unless it is a            *)
(* repetition.                                                             *)
LEMMA CarriedStep ==
  ASSUME NEW c, Integrity(c), Disciplined(c), NEW b, NEW R, TypeStates(c, b, R),
           AllCarried(c, b, R),
         NEW s, MayFollow(c, s, b), ~Inert(c.options[s.id]) => \A r \in R : r.id # s.id
  PROVE  AllCarried(c, Apply(c, b, s), R \cup {s})
<1> DEFINE a == Apply(c, b, s)
<1>0. IsCall(b)
  BY DEF TypeStates
<1> SUFFICES ASSUME NEW r \in R \cup {s}, ~Inert(c.options[r.id]),
                      NEW w \in WireOf(c.options[r.id], r.arg)
             PROVE  w[1] \in DOMAIN a.wire /\ w[2] \in a.wire[w[1]]
  BY DEF AllCarried, Carried
<1>1. CASE r = s
  BY <1>0, <1>1, DirectiveSent
<1>2. CASE r # s
  <2>1. r \in R /\ r.id # s.id
    BY <1>2
  <2>2. w[1] \in DOMAIN b.wire /\ w[2] \in b.wire[w[1]]
    BY <2>1 DEF AllCarried, Carried
  <2> QED BY <2>1, <2>2, DirectiveStays
<1> QED BY <1>1, <1>2

(* The options a chain has chosen, its terminal aside.                     *)
Picked(c, src) == {src[i] : i \in {j \in DOMAIN src : ~c.options[src[j].id].terminal}}

(* No option that may be chosen once is chosen twice.                      *)
Clean(c, src) ==
  \A i, j \in DOMAIN src :
    i # j /\ src[i].id = src[j].id => ~c.options[src[i].id].once

(* One method more.                                                        *)
Joined(R, s) == R \cup {s}

(* The builder is what the methods of the chain make of it.                *)
BuilderOf(c, src, b) ==
  /\ TypeStates(c, b, Picked(c, src)) /\ PlanIsOf(c, b, Picked(c, src))
  /\ WireIsOf(c, b, Picked(c, src)) /\ BearerCarried(c, b, Picked(c, src))
  /\ Clean(c, src) => AllCarried(c, b, Picked(c, src))

(* A chain and the chain that one more method makes of it.                 *)
Follows(src, s, a) ==
  /\ Len(src) \in Nat /\ Len(a) = Len(src) + 1
  /\ DOMAIN src = 1..Len(src) /\ DOMAIN a = 1..(Len(src) + 1)
  /\ \A i \in DOMAIN src : i \in DOMAIN a /\ a[i] = src[i] /\ i # Len(src) + 1
  /\ a[Len(src) + 1] = s /\ Len(src) + 1 \in DOMAIN a
  /\ \A i \in DOMAIN a : i \in DOMAIN src \/ i = Len(src) + 1

(* An appended method follows.                                             *)
LEMMA Appended ==
  ASSUME NEW M, NEW src \in Seq(M), NEW s \in M, NEW a, a = Append(src, s)
  PROVE  Follows(src, s, a) /\ a \in Seq(M)
  BY DEF Follows

(* A terminal picks nothing.                                               *)
LEMMA PickedAppend ==
  ASSUME NEW src, NEW s, NEW a, Follows(src, s, a), NEW c, NEW r
  PROVE  r \in Picked(c, a) <=> r \in Picked(c, src) \/ (r = s /\ ~c.options[s.id].terminal)
<1>1. /\ Len(src) \in Nat /\ DOMAIN src = 1..Len(src) /\ DOMAIN a = 1..(Len(src) + 1)
      /\ \A i \in DOMAIN src : i \in DOMAIN a /\ a[i] = src[i]
      /\ a[Len(src) + 1] = s /\ Len(src) + 1 \in DOMAIN a
      /\ \A i \in DOMAIN a : i \in DOMAIN src \/ i = Len(src) + 1
  BY DEF Follows
<1> QED BY <1>1 DEF Picked

(* A method that is no terminal is picked.                                 *)
LEMMA PickedMore ==
  ASSUME NEW src, NEW s, NEW a, Follows(src, s, a), NEW c,
         ~c.options[s.id].terminal
  PROVE  Picked(c, a) = Joined(Picked(c, src), s)
<1>1. /\ Len(src) \in Nat /\ DOMAIN src = 1..Len(src) /\ DOMAIN a = 1..(Len(src) + 1)
      /\ \A i \in DOMAIN src : i \in DOMAIN a /\ a[i] = src[i]
      /\ a[Len(src) + 1] = s /\ Len(src) + 1 \in DOMAIN a
      /\ \A i \in DOMAIN a : i \in DOMAIN src \/ i = Len(src) + 1
  BY DEF Follows
<1>2. ASSUME NEW r PROVE r \in Picked(c, a) <=> r \in Picked(c, src) \/ r = s
  BY <1>1 DEF Picked
<1> QED BY <1>2 DEF Joined

(* A chain without repetitions had none before, and its last method is no  *)
(* repetition.                                                             *)
LEMMA CleanPrefix ==
  ASSUME NEW src, NEW s, NEW a, Follows(src, s, a), NEW c, Clean(c, a)
  PROVE  Clean(c, src) /\ \A r \in Picked(c, src) : r.id = s.id => ~c.options[s.id].once
<1>1. /\ Len(src) \in Nat /\ DOMAIN src = 1..Len(src) /\ DOMAIN a = 1..(Len(src) + 1)
      /\ \A i \in DOMAIN src : i \in DOMAIN a /\ a[i] = src[i] /\ i # Len(src) + 1
      /\ a[Len(src) + 1] = s /\ Len(src) + 1 \in DOMAIN a
      /\ \A i \in DOMAIN a : i \in DOMAIN src \/ i = Len(src) + 1
  BY DEF Follows
<1> QED BY <1>1 DEF Clean, Picked

(* The parts of a new builder.                                             *)
LEMMA NewCallParts ==
  ASSUME NEW kind, NEW b, b = NewCall(kind)
  PROVE  /\ IsCall(b) /\ b.kind = kind /\ b.spent = {} /\ b.dropped = {}
         /\ b.plan = Put(<<>>, "serial_strategy", Scalar("json"))
         /\ b.headers = <<>> /\ b.wire = <<>> /\ b.hooks = <<>> /\ SectionsAreObjects(b.plan)
<1> DEFINE plan == Put(<<>>, "serial_strategy", Scalar("json"))
<1>1. DOMAIN plan = {"serial_strategy"}
  BY PutNothing
<1> HIDE DEF plan
<1> DEFINE e == <<>>
<1> HIDE DEF e
<1>2. b = Builder8(kind, {}, plan, e, e, {}, {}, e)
  BY DEF NewCall, Builder8, plan, e
<1>3. /\ IsCall(b) /\ b.kind = kind /\ b.spent = {} /\ b.dropped = {}
      /\ b.plan = plan /\ b.headers = e /\ b.wire = e /\ b.hooks = e
  BY <1>2, BuilderIsCall
<1>4. SectionsAreObjects(b.plan)
  BY <1>1, <1>3 DEF SectionsAreObjects
<1> QED BY <1>3, <1>4 DEF plan, e

(* A new builder is that of the empty chain.                               *)
LEMMA NewBuilder ==
  ASSUME NEW c, NEW kind, NEW b, b = NewCall(kind), NEW src, src = <<>>
  PROVE  BuilderOf(c, src, b)
<1> DEFINE e == <<>>
           R == Picked(c, src)
           val == Scalar("json")
           plan == Put(e, "serial_strategy", val)
<1>1. DOMAIN e = {}
  OBVIOUS
<1>2. R = {}
  <2> HIDE DEF e
  <2> QED BY <1>1 DEF Picked, e
<1>3. DOMAIN plan = {"serial_strategy"} /\ plan["serial_strategy"] = val
  <2>1. DOMAIN plan = {"serial_strategy"}
    BY PutNothing
  <2> HIDE DEF e, val
  <2>2. plan["serial_strategy"] = val
    BY DEF Put
  <2> QED BY <2>1, <2>2
<1>4. /\ IsCall(b) /\ b.kind = kind /\ b.spent = {} /\ b.dropped = {}
      /\ b.plan = plan /\ b.headers = e /\ b.wire = e /\ b.hooks = e
      /\ SectionsAreObjects(b.plan)
  BY NewCallParts
<1> HIDE DEF e, plan, R, val
<1>5. TypeStates(c, b, R)
  <2>1. {Group(c, r) : r \in R} = {}
    BY <1>2
  <2> QED BY <1>2, <1>4, <2>1 DEF TypeStates
<1>6. PlanIsOf(c, b, R)
  BY <1>1, <1>2, <1>3, <1>4 DEF PlanIsOf, val
<1>7. WireIsOf(c, b, R)
  BY <1>1, <1>2, <1>4 DEF WireIsOf
<1>8. BearerCarried(c, b, R) /\ AllCarried(c, b, R)
  BY <1>2 DEF BearerCarried, AllCarried
<1> QED BY <1>5, <1>6, <1>7, <1>8 DEF BuilderOf, R

(* One method more keeps the builder that of the chain.                    *)
LEMMA BuilderStep ==
  ASSUME NEW c, Integrity(c), Disciplined(c), NEW src, NEW s, NEW a, Follows(src, s, a),
           NEW b, BuilderOf(c, src, b), MayFollow(c, s, b)
  PROVE  BuilderOf(c, a, Apply(c, b, s))
<1> DEFINE R == Picked(c, src)
           b2 == Apply(c, b, s)
           R2 == R \cup {s}
<1>1. Picked(c, a) = R2
  <2>1. ~c.options[s.id].terminal
    BY DEF MayFollow, IsStep
  <2>2. Picked(c, a) = Joined(Picked(c, src), s)
    BY <2>1, PickedMore
  <2> QED BY <2>2 DEF Joined
<1> HIDE DEF R, R2, b2
<1>2. /\ TypeStates(c, b, R) /\ PlanIsOf(c, b, R) /\ WireIsOf(c, b, R) /\ BearerCarried(c, b,
           R)
      /\ Clean(c, src) => AllCarried(c, b, R)
  BY DEF BuilderOf, R
<1>3. IsCall(b) /\ IsStep(c, s)
  BY <1>2 DEF TypeStates, MayFollow
<1> USE DEF R2, b2
<1>4. TypeStates(c, b2, R2)
  BY <1>2, TypeStatesStep
<1>5. PlanIsOf(c, b2, R2)
  BY <1>2, <1>3, PlanStep
<1>6. WireIsOf(c, b2, R2)
  BY <1>2, <1>3, WireStep
<1>7. BearerCarried(c, b2, R2)
  BY <1>2, BearerStep
<1>8. ASSUME Clean(c, a) PROVE AllCarried(c, b2, R2)
  <2>1. Clean(c, src) /\ \A r \in R : r.id = s.id => ~c.options[s.id].once
    BY <1>8, CleanPrefix DEF R
  <2>2. ~Inert(c.options[s.id]) => c.options[s.id].once
    BY <1>3 DEF Disciplined, InputsSound, IsStep, Inert
  <2>3. ~Inert(c.options[s.id]) => \A r \in R : r.id # s.id
    BY <2>1, <2>2
  <2> QED BY <1>2, <2>1, <2>3, CarriedStep
<1> HIDE DEF R2, b2
<1>9. BuilderOf(c, a, b2)
  BY <1>1, <1>4, <1>5, <1>6, <1>7, <1>8 DEF BuilderOf
<1> QED BY <1>9 DEF b2

(* So does the terminal, which leaves the builder alone.                   *)
LEMMA BuilderEnd ==
  ASSUME NEW c, NEW src, NEW s, NEW a, Follows(src, s, a), c.options[s.id].terminal, NEW b,
           BuilderOf(c, src, b)
  PROVE  BuilderOf(c, a, b)
<1>1. Picked(c, a) = Picked(c, src)
  <2>1. ASSUME NEW r PROVE r \in Picked(c, a) <=> r \in Picked(c, src)
    <3>1. r \in Picked(c, a) <=> r \in Picked(c, src) \/ (r = s /\ ~c.options[s.id].terminal)
      BY PickedAppend
    <3> QED BY <3>1
  <2> QED BY <2>1
<1>2. Clean(c, a) => Clean(c, src)
  BY CleanPrefix
<1> QED BY <1>1, <1>2 DEF BuilderOf

(* The lint and the builder move together along a chain.                   *)
Lint(sp, ap, is) == [spent |-> sp, applied |-> ap, issues |-> is]

-----------------------------------------------------------------------------
(* What the lint makes of a chain, beside what rustc makes of it.          *)

(* What the lint acc of a chain says of it when it is held against surface *)
(* S: no issue on the surface of the builder means that rustc admits the   *)
(* chain, and a chain that rustc admits has no issue but repetitions.      *)
LintAt(c, kind, ty, spent, src, S, acc) ==
  /\ acc = Lint(acc.spent, acc.applied, acc.issues)
  /\ S = {kind} /\ acc.issues = {} => ty
  /\ ty /\ kind \in S =>
       /\ acc.issues \subseteq {"repeated"} /\ acc.spent = spent
       /\ \A x \in acc.applied : \E i \in DOMAIN src : src[i].id = x
       /\ \A i \in DOMAIN src : src[i].id \in acc.applied
       /\ acc.issues # {} => \E i, j \in DOMAIN src : i # j /\ src[i].id = src[j].id
       /\ acc.issues = {} => Clean(c, src)

(* That, for each surface the chain may turn out to be on.                 *)
LintOf(c, kind, ty, spent, src) ==
  \A S \in {Unary, Stream, Both} :
    LintAt(c, kind, ty, spent, src, S, Audited(c, S, src)[Len(src)])

(* The cases of AuditMethod.                                               *)
Marked(spent, g) == spent \cup ({g} \ {""})
Meets(o, S) == o.on \cap S # {}
Free(o, acc) == o.group = "" \/ o.group \notin acc.spent
Repeats(o, acc, id) ==
  acc.issues \cup IF o.once /\ id \in acc.applied THEN {"repeated"} ELSE {}

(* The type states let a method through.                                   *)
Fits(c, s, kind, spent) ==
  /\ kind \in c.options[s.id].on
  /\ c.options[s.id].group = "" \/ c.options[s.id].group \notin spent

(* What rustc makes of one method more.                                    *)
Moved(c, s, kind, ty, spent, ty2, spent2) ==
  /\ ty2 <=> ty /\ Fits(c, s, kind, spent)
  /\ ty2 => spent2 = Marked(spent, c.options[s.id].group)

(* The parts of a lint.                                                    *)
LEMMA LintParts ==
  ASSUME NEW a, NEW sp, NEW ap, NEW is, a = Lint(sp, ap, is)
  PROVE  a = Lint(a.spent, a.applied, a.issues) /\ a.spent = sp /\ a.applied = ap
           /\ a.issues = is
  BY DEF Lint

(* A lint with other issues.                                               *)
LEMMA LintIssue ==
  ASSUME NEW a, a = Lint(a.spent, a.applied, a.issues), NEW x
  PROVE  [a EXCEPT !.issues = x] = Lint(a.spent, a.applied, x)
  BY DEF Lint

(* What AuditMethod makes of a method that is no terminal.                 *)
LEMMA AuditCases ==
  ASSUME NEW c, NEW S, NEW acc, acc = Lint(acc.spent, acc.applied, acc.issues), NEW id,
         NEW o, o = c.options[id], ~o.terminal, NEW new, new = AuditMethod(c, S, acc, id)
  PROVE  /\ new = Lint(new.spent, new.applied, new.issues)
         /\ ~Meets(o, S) \/ ~Free(o, acc) => new.issues # {}
         /\ new.issues = {} => acc.issues = {}
         /\ Meets(o, S) /\ Free(o, acc) =>
              /\ new.spent = Marked(acc.spent, o.group)
              /\ new.applied = Joined(acc.applied, id)
              /\ new.issues = Repeats(o, acc, id)
<1>1. CASE o.on \cap S = {}
  <2>1. new = [acc EXCEPT !.issues = acc.issues \cup {"wrong_surface"}]
    BY <1>1 DEF AuditMethod, Lint
  <2> DEFINE is == acc.issues \cup {"wrong_surface"}
  <2>2. is # {}
    OBVIOUS
  <2> HIDE DEF is
  <2>3. new = Lint(acc.spent, acc.applied, is)
    BY <2>1, LintIssue DEF is
  <2>4. new = Lint(new.spent, new.applied, new.issues) /\ new.issues = is
    BY <2>3, LintParts
  <2> QED BY <1>1, <2>2, <2>4 DEF Meets
<1>2. CASE o.on \cap S # {} /\ o.group # "" /\ o.group \in acc.spent
  <2>1. new = [acc EXCEPT !.issues = acc.issues \cup {"contradictory"}]
    BY <1>2 DEF AuditMethod, Lint
  <2> DEFINE is == acc.issues \cup {"contradictory"}
  <2>2. is # {}
    OBVIOUS
  <2> HIDE DEF is
  <2>3. new = Lint(acc.spent, acc.applied, is)
    BY <2>1, LintIssue DEF is
  <2>4. new = Lint(new.spent, new.applied, new.issues) /\ new.issues = is
    BY <2>3, LintParts
  <2> QED BY <1>2, <2>2, <2>4 DEF Free
<1>3. CASE o.on \cap S # {} /\ (o.group = "" \/ o.group \notin acc.spent)
  <2> DEFINE sp == acc.spent \cup ({o.group} \ {""})
             ap == acc.applied \cup {id}
             is == Repeats(o, acc, id)
  <2>1. new = Lint(sp, ap, is)
    BY <1>3 DEF AuditMethod, Lint, Repeats
  <2>2. is = {} => acc.issues = {}
    BY DEF Repeats
  <2>3. new = Lint(new.spent, new.applied, new.issues) /\ new.spent = sp
          /\ new.applied = ap /\ new.issues = is
    <3> HIDE DEF sp, ap, is
    <3> QED BY <2>1, LintParts
  <2> QED BY <1>3, <2>2, <2>3 DEF Marked, Joined, Meets, Free
<1> QED BY <1>1, <1>2, <1>3

(* One method more keeps lint and type states in step, on each surface.    *)
LEMMA LintStep ==
  ASSUME NEW c, NEW src, NEW s, NEW a, Follows(src, s, a),
         ~c.options[s.id].terminal,
         NEW kind, NEW S, NEW ty, NEW spent, NEW ty2, NEW spent2,
         Moved(c, s, kind, ty, spent, ty2, spent2),
         NEW acc, LintAt(c, kind, ty, spent, src, S, acc), NEW new, new = AuditMethod(c, S,
           acc, s.id)
  PROVE  LintAt(c, kind, ty2, spent2, a, S, new)
<1> DEFINE o == c.options[s.id]
           meets == Meets(o, S)
           free == Free(o, acc)
<1>1. /\ Len(src) \in Nat /\ DOMAIN src = 1..Len(src) /\ DOMAIN a = 1..(Len(src) + 1)
      /\ \A i \in DOMAIN src : i \in DOMAIN a /\ a[i] = src[i] /\ i # Len(src) + 1
      /\ a[Len(src) + 1] = s /\ Len(src) + 1 \in DOMAIN a
      /\ \A i \in DOMAIN a : i \in DOMAIN src \/ i = Len(src) + 1
  BY DEF Follows
<1>2. acc = Lint(acc.spent, acc.applied, acc.issues)
  BY DEF LintAt
<1>3. /\ new = Lint(new.spent, new.applied, new.issues)
      /\ ~meets \/ ~free => new.issues # {}
      /\ new.issues = {} => acc.issues = {}
      /\ meets /\ free =>
           /\ new.spent = Marked(acc.spent, o.group)
           /\ new.applied = Joined(acc.applied, s.id)
           /\ new.issues = Repeats(o, acc, s.id)
  <2>1. o = c.options[s.id] /\ ~o.terminal
    OBVIOUS
  <2> HIDE DEF o
  <2> QED BY <1>2, <2>1, AuditCases
<1> DEFINE n == Len(src) + 1
<1> HIDE DEF n, meets, free
<1>4. ASSUME S = {kind}, new.issues = {} PROVE ty2
  <2>1. ty /\ acc.spent = spent
    BY <1>3, <1>4 DEF LintAt
  <2>2. meets /\ free
    BY <1>3, <1>4
  <2> QED BY <1>4, <2>1, <2>2 DEF Moved, Fits, meets, free, Meets, Free
<1>5. ASSUME ty2, kind \in S
      PROVE  /\ new.issues \subseteq {"repeated"} /\ new.spent = spent2
             /\ \A x \in new.applied : \E i \in DOMAIN a : a[i].id = x
             /\ \A i \in DOMAIN a : a[i].id \in new.applied
             /\ new.issues # {} => \E i, j \in DOMAIN a : i # j /\ a[i].id = a[j].id
             /\ new.issues = {} => Clean(c, a)
  <2>1. /\ acc.issues \subseteq {"repeated"} /\ acc.spent = spent
        /\ \A x \in acc.applied : \E i \in DOMAIN src : src[i].id = x
        /\ \A i \in DOMAIN src : src[i].id \in acc.applied
        /\ acc.issues # {} => \E i, j \in DOMAIN src : i # j /\ src[i].id = src[j].id
        /\ acc.issues = {} => Clean(c, src)
    BY <1>5 DEF Moved, LintAt
  <2>2. meets /\ free
    BY <1>5, <2>1 DEF Moved, Fits, meets, free, Meets, Free
  <2>3. /\ new.spent = Marked(acc.spent, o.group)
        /\ new.applied = Joined(acc.applied, s.id)
        /\ new.issues = Repeats(o, acc, s.id)
    BY <1>3, <2>2
  <2>4. new.issues \subseteq {"repeated"} /\ new.spent = spent2
    BY <1>5, <2>1, <2>3 DEF Moved, Repeats
  <2>5. ASSUME NEW x \in new.applied PROVE \E i \in DOMAIN a : a[i].id = x
    <3>1. CASE x = s.id
      BY <1>1, <3>1
    <3>2. CASE x \in acc.applied
      BY <1>1, <2>1, <3>2
    <3> QED BY <2>3, <3>1, <3>2 DEF Joined
  <2>6. ASSUME NEW i \in DOMAIN a PROVE a[i].id \in new.applied
    <3>1. CASE i \in DOMAIN src
      BY <1>1, <2>1, <2>3, <3>1 DEF Joined
    <3>2. CASE i = n
      BY <1>1, <2>3, <3>2 DEF Joined, n
    <3> QED BY <1>1, <3>1, <3>2 DEF n
  <2>7. ASSUME new.issues # {} PROVE \E i, j \in DOMAIN a : i # j /\ a[i].id = a[j].id
    <3>1. CASE acc.issues # {}
      BY <1>1, <2>1, <3>1
    <3>2. CASE acc.issues = {}
      <4>1. s.id \in acc.applied
        BY <2>3, <2>7, <3>2 DEF Repeats
      <4>2. PICK i \in DOMAIN src : src[i].id = s.id
        BY <2>1, <4>1
      <4> QED BY <1>1, <4>2
    <3> QED BY <3>1, <3>2
  <2>8. ASSUME new.issues = {} PROVE Clean(c, a)
    <3>1. Clean(c, src) /\ (s.id \in acc.applied => ~o.once)
      BY <1>3, <2>1, <2>3, <2>8 DEF Repeats
    <3>2. \A i \in DOMAIN src : src[i].id = s.id => ~o.once
      BY <2>1, <3>1
    <3> QED BY <1>1, <3>1, <3>2 DEF Clean
  <2> QED BY <2>4, <2>5, <2>6, <2>7, <2>8
<1> QED BY <1>3, <1>4, <1>5 DEF LintAt

(* The lint of a longer chain goes on from that of the chain.              *)
LEMMA AuditedMore ==
  ASSUME NEW n \in Nat, NEW src, Len(src) = n, NEW a, Len(a) = n + 1,
           \A i \in 1..n : src[i] = a[i], NEW c, NEW S
  PROVE  Audited(c, S, a)[n + 1] = AuditMethod(c, S, Audited(c, S, src)[n], a[n + 1].id)
<1> DEFINE f == Audited(c, S, src)
           g == Audited(c, S, a)
<1>1. Len(src) \in Nat /\ Len(a) \in Nat
  OBVIOUS
<1>2. \A k \in 1..Len(a) : g[k] = AuditMethod(c, S, g[k - 1], a[k].id)
  BY <1>1, AuditedStep
<1>3. f[0] = Lint({}, {}, {}) /\ g[0] = Lint({}, {}, {})
  BY <1>1, AuditedStep DEF Lint
<1>4. \A k \in 0..n : Audited(c, S, src)[k] = Audited(c, S, a)[k]
  <2>1. n <= Len(src) /\ n <= Len(a) /\ 0 \in Nat /\ 0 <= n
    OBVIOUS
  <2>2. \A i \in 0..n : i # 0 => src[i] = a[i]
    OBVIOUS
  <2>3. Audited(c, S, src)[0] = Audited(c, S, a)[0]
    BY <1>3
  <2> HIDE DEF f, g
  <2> QED BY <1>1, <2>1, <2>2, <2>3, AuditedAgree
<1>5. n + 1 \in 1..Len(a) /\ (n + 1) - 1 = n /\ n \in 0..n
  OBVIOUS
<1> HIDE DEF f, g
<1>6. g[n + 1] = AuditMethod(c, S, g[n], a[n + 1].id)
  BY <1>2, <1>5
<1>7. f[n] = g[n]
  BY <1>4, <1>5 DEF f, g
<1> QED BY <1>6, <1>7 DEF f, g

(* The same, of an appended method.                                        *)
LEMMA AuditedAppend ==
  ASSUME NEW src, NEW s, NEW a, Follows(src, s, a), NEW c, NEW S
  PROVE  Audited(c, S, a)[Len(a)] = AuditMethod(c, S, Audited(c, S, src)[Len(src)], s.id)
<1> DEFINE n == Len(src)
<1>1. n \in Nat /\ Len(a) = n + 1 /\ (\A i \in 1..n : src[i] = a[i]) /\ a[n + 1] = s
  BY DEF Follows
<1>2. Len(src) = n
  OBVIOUS
<1> HIDE DEF n
<1>3. Audited(c, S, a)[n + 1] = AuditMethod(c, S, Audited(c, S, src)[n], a[n + 1].id)
  BY <1>1, <1>2, AuditedMore
<1> QED BY <1>1, <1>2, <1>3

-----------------------------------------------------------------------------
(* The invariant.                                                          *)

(* How End writes a terminal.                                              *)
Ending(t) == [id |-> t, name |-> "", arg |-> "-"]

(* What a chain is written with.                                           *)
Moves(c) ==
  (UNION {Steps(c, id) : id \in DOMAIN c.options}) \cup {Ending(t) : t \in DOMAIN c.options}

(* The builder is the last of those the chain builds, each is a call whose *)
(* path and query are objects, and no two methods are rivals.              *)
OrderOf(c, src, b) ==
  LET builds == Builds(c, b.kind, src) IN
  /\ b = builds[Len(src)]
  /\ \A n \in 0..Len(src) : IsCall(builds[n]) /\ SectionsAreObjects(builds[n].plan)
  /\ \A i \in DOMAIN src : IsStep(c, src[i])
  /\ \A i, j \in DOMAIN src : i < j => Compatible(c, src[i].id, src[j].id)

(* What the lint of an ended chain says of it.                             *)
AuditsOf(c, kind, ty, src) ==
  LET issues == AuditChain(c, src) IN
  /\ issues = {} /\ Last(src).id \in {"make_call", "stream"}
       /\ kind \in c.options[Last(src).id].on => ty
  /\ ty => issues \subseteq {"repeated"}
  /\ ty /\ issues # {} => \E i, j \in DOMAIN src : i # j /\ src[i].id = src[j].id
  /\ ty /\ issues = {} => Clean(c, src)

(* The type invariant.                                                     *)
ChainTypes(c, p, st, src, ty, b) ==
  /\ c \in Catalogs /\ p \in Palettes /\ ty \in BOOLEAN
  /\ st \in {"unparsed", "refused", "chaining", "ended", "panicked"}
  /\ src \in Seq(Moves(c)) /\ IsCall(b) /\ b.kind \in Both

(* The invariant, of any values of the variables.                          *)
Fluent(c, p, st, src, ty, b) ==
  /\ ChainTypes(c, p, st, src, ty, b)
  /\ st \in {"unparsed", "refused"} => src = <<>> /\ ty /\ b = NewCall(b.kind)
  /\ st \in {"chaining", "ended", "panicked"} => Integrity(c)
  /\ ty /\ st # "panicked" => BuilderOf(c, src, b)
  /\ st = "chaining" =>
       /\ \A i \in DOMAIN src : ~c.options[src[i].id].terminal
       /\ LintOf(c, b.kind, ty, b.spent, src)
       /\ ty => OrderOf(c, src, b)
  /\ st = "ended" => AuditsOf(c, b.kind, ty, src)

(* The inductive invariant.                                                *)
IInv == Fluent(catalog, palette, stage, source, typed, call)

(* The builders of a longer chain go on from those of the chain.           *)
LEMMA BuildsMore ==
  ASSUME NEW n \in Nat, NEW src, Len(src) = n, NEW a, Len(a) = n + 1,
           \A i \in 1..n : src[i] = a[i], NEW c, NEW kind
  PROVE  /\ \A k \in 0..n : Builds(c, kind, src)[k] = Builds(c, kind, a)[k]
         /\ Builds(c, kind, a)[n + 1] = Apply(c, Builds(c, kind, src)[n], a[n + 1])
<1> DEFINE f == Builds(c, kind, src)
           g == Builds(c, kind, a)
<1>1. Len(src) \in Nat /\ Len(a) \in Nat
  OBVIOUS
<1>2. \A k \in 1..Len(a) : g[k] = Apply(c, g[k - 1], a[k])
  BY <1>1, BuildsStep
<1>3. f[0] = NewCall(kind) /\ g[0] = NewCall(kind)
  BY <1>1, BuildsStep
<1>4. \A k \in 0..n : Builds(c, kind, src)[k] = Builds(c, kind, a)[k]
  <2>1. n <= Len(src) /\ n <= Len(a) /\ 0 \in Nat /\ 0 <= n
    OBVIOUS
  <2>2. \A i \in 0..n : i # 0 => src[i] = a[i]
    OBVIOUS
  <2>3. Builds(c, kind, src)[0] = Builds(c, kind, a)[0]
    BY <1>3
  <2> HIDE DEF f, g
  <2> QED BY <1>1, <2>1, <2>2, <2>3, BuildsAgree
<1>5. n + 1 \in 1..Len(a) /\ (n + 1) - 1 = n /\ n \in 0..n
  OBVIOUS
<1> HIDE DEF f, g
<1>6. g[n + 1] = Apply(c, g[n], a[n + 1])
  BY <1>2, <1>5
<1>7. f[n] = g[n]
  BY <1>4, <1>5 DEF f, g
<1> QED BY <1>4, <1>6, <1>7 DEF f, g

(* One method more keeps the builders of the chain.                        *)
LEMMA OrderStep ==
  ASSUME NEW c, Disciplined(c), NEW src, NEW s, NEW a, Follows(src, s, a),
         \A i \in DOMAIN src : ~c.options[src[i].id].terminal,
         NEW b, NEW R, R = Picked(c, src), TypeStates(c, b, R), OrderOf(c, src, b),
           MayFollow(c, s, b),
         NEW b2, b2 = Apply(c, b, s)
  PROVE  OrderOf(c, a, b2)
<1> DEFINE n == Len(src)
           f == Builds(c, b.kind, src)
           g == Builds(c, b.kind, a)
<1>0. Len(src) = n
  OBVIOUS
<1>1. /\ n \in Nat /\ Len(a) = n + 1 /\ DOMAIN src = 1..n /\ DOMAIN a = 1..(n + 1)
      /\ (\A i \in 1..n : a[i] = src[i] /\ i # n + 1) /\ a[n + 1] = s
  BY DEF Follows
<1>2. IsCall(b) /\ SectionsAreObjects(b.plan) /\ IsStep(c, s)
  BY DEF TypeStates, MayFollow
<1>3. /\ b = f[n] /\ (\A k \in 0..n : IsCall(f[k]) /\ SectionsAreObjects(f[k].plan))
      /\ \A i \in DOMAIN src : IsStep(c, src[i])
      /\ \A i, j \in DOMAIN src : i < j => Compatible(c, src[i].id, src[j].id)
  BY DEF OrderOf
<1> HIDE DEF n
<1>4. (\A k \in 0..n : f[k] = g[k]) /\ g[n + 1] = Apply(c, f[n], a[n + 1])
  BY <1>0, <1>1, BuildsMore
<1>5. IsCall(b2) /\ b2.kind = b.kind /\ b2.plan = PlanAfter(c, b.plan, s)
  BY <1>2, AppliedParts
<1>6. SectionsAreObjects(b2.plan)
  BY <1>2, <1>5, SectionsStep
<1> HIDE DEF f, g
<1>7. b2 = g[n + 1]
  BY <1>1, <1>3, <1>4
<1>8. ASSUME NEW k \in 0..(n + 1) PROVE IsCall(g[k]) /\ SectionsAreObjects(g[k].plan)
  <2>1. k \in 0..n \/ k = n + 1
    BY <1>1
  <2>2. CASE k \in 0..n
    BY <1>3, <1>4, <2>2
  <2>3. CASE k = n + 1
    BY <1>5, <1>6, <1>7, <2>3
  <2> QED BY <2>1, <2>2, <2>3
<1>9. ASSUME NEW i \in DOMAIN a PROVE IsStep(c, a[i])
  <2>1. i \in 1..n \/ i = n + 1
    BY <1>1
  <2> QED BY <1>1, <1>2, <1>3, <2>1
<1>10. ASSUME NEW i \in DOMAIN a, NEW j \in DOMAIN a, i < j PROVE Compatible(c, a[i].id,
                a[j].id)
  <2>1. i \in 1..n /\ (j \in 1..n \/ j = n + 1)
    BY <1>1, <1>10
  <2>2. CASE j \in 1..n
    BY <1>1, <1>3, <1>10, <2>1, <2>2
  <2>3. CASE j = n + 1
    <3>1. src[i] \in R
      BY <1>1, <2>1 DEF Picked
    <3>2. Compatible(c, src[i].id, s.id)
      BY <3>1, NoRival
    <3> QED BY <1>1, <2>1, <2>3, <3>2
  <2> QED BY <2>1, <2>2, <2>3
<1>11. OrderOf(c, a, b2)
  <2>1. b2 = Builds(c, b2.kind, a)[Len(a)]
    BY <1>1, <1>5, <1>7 DEF g
  <2>2. \A k \in 0..Len(a) : IsCall(Builds(c, b2.kind, a)[k]) /\ SectionsAreObjects(Builds(c,
          b2.kind, a)[k].plan)
    BY <1>1, <1>5, <1>8 DEF g
  <2> QED BY <2>1, <2>2, <1>9, <1>10 DEF OrderOf
<1> QED BY <1>11

(* The empty chain builds a new builder.                                   *)
LEMMA NewOrder ==
  ASSUME NEW c, NEW src, src = <<>>, NEW b, NEW kind, b = NewCall(kind)
  PROVE  OrderOf(c, src, b)
<1>1. IsCall(b) /\ b.kind = kind /\ SectionsAreObjects(b.plan)
  BY NewCallParts
<1>2. Len(src) = 0 /\ Len(src) \in Nat /\ DOMAIN src = {} /\ \A k \in 0..0 : k = 0
  OBVIOUS
<1>3. Builds(c, b.kind, src)[0] = b
  BY <1>1, <1>2, BuildsStep
<1> QED BY <1>1, <1>2, <1>3 DEF OrderOf

(* The empty chain has no issues.                                          *)
LEMMA NewLint ==
  ASSUME NEW c, NEW src, src = <<>>, NEW kind, NEW ty, ty = TRUE, NEW spent, spent = {}
  PROVE  LintOf(c, kind, ty, spent, src)
<1>2. Len(src) = 0 /\ Len(src) \in Nat /\ DOMAIN src = {}
  OBVIOUS
<1>3. ASSUME NEW S PROVE Audited(c, S, src)[0] = Lint({}, {}, {})
  BY <1>2, AuditedStep DEF Lint
<1>4. ASSUME NEW S, NEW acc, acc = Lint({}, {}, {}) PROVE LintAt(c, kind, ty, spent, src, S,
               acc)
  <2>1. acc = Lint(acc.spent, acc.applied, acc.issues) /\ acc.spent = {}
          /\ acc.applied = {} /\ acc.issues = {}
    BY <1>4, LintParts
  <2> QED BY <1>2, <2>1 DEF LintAt, Clean
<1> QED BY <1>2, <1>3, <1>4 DEF LintOf

(* One method more, on all surfaces.                                       *)
LEMMA LintOfStep ==
  ASSUME NEW c, NEW src, NEW s, NEW a, Follows(src, s, a), ~c.options[s.id].terminal,
         NEW kind, NEW ty, NEW spent, NEW ty2, NEW spent2,
         Moved(c, s, kind, ty, spent, ty2, spent2),
         LintOf(c, kind, ty, spent, src)
  PROVE  LintOf(c, kind, ty2, spent2, a)
<1> SUFFICES ASSUME NEW S \in {Unary, Stream, Both}
             PROVE  LintAt(c, kind, ty2, spent2, a, S, Audited(c, S, a)[Len(a)])
  BY DEF LintOf
<1> DEFINE acc == Audited(c, S, src)[Len(src)]
           new == Audited(c, S, a)[Len(a)]
<1>1. LintAt(c, kind, ty, spent, src, S, acc)
  BY DEF LintOf
<1>2. new = AuditMethod(c, S, acc, s.id)
  BY AuditedAppend
<1> HIDE DEF acc, new
<1>3. LintAt(c, kind, ty2, spent2, a, S, new)
  BY <1>1, <1>2, LintStep
<1> QED BY <1>3 DEF new

(* The one terminal, at the end, says which surface the chain is on.       *)
LEMMA SurfaceAtEnd ==
  ASSUME NEW c, NEW src, NEW s, NEW a, Follows(src, s, a),
         \A i \in DOMAIN src : ~c.options[src[i].id].terminal,
         NEW o, o = c.options[s.id], o.terminal
  PROVE  SurfaceOf(c, a) = o.on
<1> DEFINE n == Len(src) + 1
           T == {i \in DOMAIN a : c.options[a[i].id].terminal}
           E == {i \in T : c.options[a[i].id].on # Both}
           first == CHOOSE i \in E : \A j \in E : i <= j
<1>1. n \in DOMAIN a /\ a[n] = s /\ (\A i \in DOMAIN a : i = n \/ (i \in DOMAIN src
        /\ a[i] = src[i]))
  BY DEF Follows
<1>2. n <= n
  BY DEF Follows
<1>3. SurfaceOf(c,
        a) = IF E # {} THEN c.options[a[first].id].on ELSE IF T # {} THEN Both ELSE {}
  BY DEF SurfaceOf
<1> HIDE DEF n
<1>4. T = {n}
  BY <1>1
<1> HIDE DEF T
<1>5. CASE o.on # Both
  <2>1. E = {n}
    BY <1>1, <1>4, <1>5
  <2> HIDE DEF E
  <2>2. \E i \in E : \A j \in E : i <= j
    BY <2>1, <1>2
  <2>3. first = n
    BY <2>1, <2>2
  <2> HIDE DEF first
  <2>4. E # {}
    BY <2>1
  <2> QED BY <1>1, <1>3, <2>3, <2>4
<1>6. CASE o.on = Both
  <2>1. E = {}
    BY <1>1, <1>4, <1>6
  <2>2. T # {}
    BY <1>4
  <2> HIDE DEF E
  <2> QED BY <1>3, <1>6, <2>1, <2>2
<1> QED BY <1>5, <1>6

(* The lint of an ended chain is that of its methods, on the surface its   *)
(* terminal names.                                                         *)
LEMMA AuditAtEnd ==
  ASSUME NEW c, NEW src, NEW s, NEW a, Follows(src, s, a),
         \A i \in DOMAIN src : ~c.options[src[i].id].terminal,
         NEW o, o = c.options[s.id], o.terminal, o.on \in {Unary, Stream, Both}
  PROVE  AuditChain(c, a) = Audited(c, o.on, src)[Len(src)].issues
<1>1. SurfaceOf(c, a) = o.on
  BY SurfaceAtEnd
<1>2. o.on # {}
  BY DEF Unary, Stream, Both
<1> DEFINE acc == Audited(c, o.on, src)[Len(src)]
           new == Audited(c, o.on, a)[Len(a)]
<1>3. AuditChain(c, a) = new.issues
  BY <1>1, <1>2 DEF AuditChain
<1>4. new = AuditMethod(c, o.on, acc, s.id)
  BY AuditedAppend
<1> HIDE DEF acc, new
<1>5. new = acc
  BY <1>2, <1>4 DEF AuditMethod
<1> QED BY <1>3, <1>5 DEF acc

(* The terminal closes what lint and type states have kept in step.        *)
LEMMA AuditsEnd ==
  ASSUME NEW c, TerminalsSound(c), NEW src, NEW s, NEW a, Follows(src, s, a),
         \A i \in DOMAIN src : ~c.options[src[i].id].terminal, s.id \in DOMAIN c.options,
         NEW o, o = c.options[s.id], o.terminal, o.on \in {Unary, Stream, Both},
         NEW kind \in Both, NEW ty, NEW spent, LintOf(c, kind, ty, spent, src),
         NEW ty2, ty2 <=> ty /\ kind \in o.on /\ s.id # "make_call_or_throw"
  PROVE  AuditsOf(c, kind, ty2, a)
<1> DEFINE S == o.on
           acc == Audited(c, S, src)[Len(src)]
           issues == AuditChain(c, a)
<1>1. issues = acc.issues
  BY AuditAtEnd
<1>2. LintAt(c, kind, ty, spent, src, S, acc)
  BY DEF LintOf
<1>3. Last(a) = s
  BY DEF Last, Follows
<1> HIDE DEF acc, issues
<1>4. ASSUME issues = {}, s.id \in {"make_call", "stream"}, kind \in S PROVE ty2
  <2>1. S = {kind}
    BY <1>4 DEF TerminalsSound, Unary, Stream
  <2>2. ty
    BY <1>1, <1>2, <1>4, <2>1 DEF LintAt
  <2> QED BY <1>4, <2>2
<1>5. ASSUME ty2
      PROVE  /\ issues \subseteq {"repeated"}
             /\ issues # {} => \E i, j \in DOMAIN a : i # j /\ a[i].id = a[j].id
             /\ issues = {} => Clean(c, a)
  <2>1. /\ acc.issues \subseteq {"repeated"}
        /\ acc.issues # {} => \E i, j \in DOMAIN src : i # j /\ src[i].id = src[j].id
        /\ acc.issues = {} => Clean(c, src)
    BY <1>2, <1>5 DEF LintAt
  <2>2. \A i \in DOMAIN src : i \in DOMAIN a /\ a[i] = src[i]
    BY DEF Follows
  <2>3. issues # {} => \E i, j \in DOMAIN a : i # j /\ a[i].id = a[j].id
    BY <1>1, <2>1, <2>2
  <2>4. ASSUME issues = {} PROVE Clean(c, a)
    <3>1. Clean(c, src)
      BY <1>1, <2>1, <2>4
    <3>2. \A i \in DOMAIN src : src[i].id # s.id
      OBVIOUS
    <3> QED BY <3>1, <3>2 DEF Clean, Follows
  <2> QED BY <1>1, <2>1, <2>3, <2>4
<1> QED BY <1>3, <1>4, <1>5 DEF AuditsOf, issues

(* What an author may call is a step of the catalog.                       *)
LEMMA StepOfPalette ==
  ASSUME NEW c \in Catalogs, NEW p \in Palettes, NEW id \in p \cap DOMAIN c.options,
         NEW s \in Steps(c, id), Disciplined(c)
  PROVE  IsStep(c, s) /\ s.id = id
<1> DEFINE o == c.options[id]
<1>1. ~o.terminal
  BY FluentAssumption
<1>2. PICK n \in EntryNames(o), v \in Arguments(o.takes) :
        s = [id |-> id, name |-> n, arg |-> v]
  BY DEF Steps
<1>3. s.id = id /\ s.name = n /\ s.arg = v
  BY <1>2
<1>4. ASSUME o.takes = "entry" PROVE n # ""
  <2>1. o.field \in DOMAIN Names
    BY <1>4, FluentAssumption DEF Disciplined, InputsSound
  <2>2. n \in Names[o.field]
    BY <1>2, <1>4 DEF EntryNames
  <2> QED BY <2>1, <2>2, FluentAssumption
<1> QED BY <1>1, <1>2, <1>3, <1>4 DEF IsStep

(* Methods and terminals are moves.                                        *)
LEMMA MovesOf ==
  ASSUME NEW c, NEW id \in DOMAIN c.options
  PROVE  (\A s \in Steps(c, id) : s \in Moves(c)) /\ Ending(id) \in Moves(c)
<1> DEFINE A == {Steps(c, x) : x \in DOMAIN c.options}
           E == {Ending(t) : t \in DOMAIN c.options}
<1>1. Steps(c, id) \in A /\ Ending(id) \in E
  OBVIOUS
<1>2. Moves(c) = (UNION A) \cup E
  BY DEF Moves
<1> HIDE DEF A, E
<1> QED BY <1>1, <1>2

(* Every move names an option.                                             *)
LEMMA MoveIds ==
  ASSUME NEW c, NEW s \in Moves(c)
  PROVE  s.id \in DOMAIN c.options
<1> DEFINE A == {Steps(c, x) : x \in DOMAIN c.options}
           E == {Ending(t) : t \in DOMAIN c.options}
<1>1. Moves(c) = (UNION A) \cup E
  BY DEF Moves
<1>2. CASE s \in E
  <2>1. PICK t \in DOMAIN c.options : s = Ending(t)
    BY <1>2
  <2>2. s.id = t
    BY <2>1 DEF Ending
  <2> QED BY <2>2
<1>3. ASSUME NEW x \in DOMAIN c.options, s \in Steps(c, x) PROVE s.id = x
  BY <1>3 DEF Steps
<1>4. CASE s \in UNION A
  BY <1>3, <1>4
<1> HIDE DEF A, E
<1> QED BY <1>1, <1>2, <1>4

(* The invariant holds of a new call.                                      *)
LEMMA StartsFluent ==
  ASSUME NEW c \in Catalogs, NEW p \in Palettes, NEW kind \in Both, NEW src, src = <<>>,
         NEW b, b = NewCall(kind)
  PROVE  Fluent(c, p, "unparsed", src, TRUE, b)
<1>1. IsCall(b) /\ b.kind = kind
  BY NewCallParts
<1>2. BuilderOf(c, src, b)
  BY NewBuilder
<1>3. src \in Seq(Moves(c))
  OBVIOUS
<1> QED BY <1>1, <1>2, <1>3 DEF Fluent, ChainTypes

(* Parsing keeps the invariant.                                            *)
LEMMA ParseFluent ==
  ASSUME NEW c, NEW p, NEW src, NEW ty, NEW b, Fluent(c, p, "unparsed", src, ty, b),
         NEW st, st = IF Integrity(c) THEN "chaining" ELSE "refused"
  PROVE  Fluent(c, p, st, src, ty, b)
<1>1. /\ ChainTypes(c, p, "unparsed", src, ty, b)
      /\ src = <<>> /\ ty /\ b = NewCall(b.kind) /\ BuilderOf(c, src, b)
  BY DEF Fluent
<1>2. ChainTypes(c, p, st, src, ty, b)
  BY <1>1 DEF ChainTypes
<1>3. CASE ~Integrity(c)
  <2>1. st = "refused"
    BY <1>3
  <2> QED BY <1>1, <1>2, <2>1 DEF Fluent
<1>4. CASE Integrity(c)
  <2>1. st = "chaining"
    BY <1>4
  <2>2. ty = TRUE
    BY <1>1 DEF ChainTypes
  <2>3. b.spent = {}
    BY <1>1, NewCallParts
  <2>4. LintOf(c, b.kind, ty, b.spent, src)
    BY <1>1, <2>2, <2>3, NewLint
  <2>5. OrderOf(c, src, b)
    BY <1>1, NewOrder
  <2>6. \A i \in DOMAIN src : ~c.options[src[i].id].terminal
    <3>1. DOMAIN src = {}
      BY <1>1
    <3> QED BY <3>1
  <2> QED BY <1>1, <1>2, <1>4, <2>1, <2>4, <2>5, <2>6 DEF Fluent
<1> QED BY <1>3, <1>4

(* A method keeps the invariant, whether rustc admits it and whether its   *)
(* assertion holds.                                                        *)
LEMMA ChainFluent ==
  ASSUME NEW c, NEW p, NEW src, NEW ty, NEW b, Fluent(c, p, "chaining", src, ty, b),
         NEW id \in p \cap DOMAIN c.options, NEW s \in Steps(c, id), NEW a, a = Append(src, s)
  PROVE  /\ ty /\ Reachable(c, s, b) /\ Asserts(c.options[s.id].takes, s.arg) =>
              Fluent(c, p, "chaining", a, TRUE, Apply(c, b, s))
         /\ Fluent(c, p, "panicked", a, TRUE, b)
         /\ ~ty \/ ~Reachable(c, s, b) => Fluent(c, p, "chaining", a, FALSE, b)
<1>1. /\ ChainTypes(c, p, "chaining", src, ty, b) /\ Integrity(c)
      /\ ty => BuilderOf(c, src, b)
      /\ \A i \in DOMAIN src : ~c.options[src[i].id].terminal
      /\ LintOf(c, b.kind, ty, b.spent, src)
      /\ ty => OrderOf(c, src, b)
  BY DEF Fluent
<1>2. /\ c \in Catalogs /\ p \in Palettes /\ ty \in BOOLEAN
      /\ src \in Seq(Moves(c)) /\ IsCall(b) /\ b.kind \in Both
  BY <1>1 DEF ChainTypes
<1>3. Disciplined(c)
  BY <1>1, <1>2, CatalogsAssumption
<1>4. IsStep(c, s) /\ s.id = id /\ s \in Moves(c)
  BY <1>2, <1>3, StepOfPalette, MovesOf
<1>5. Follows(src, s, a) /\ a \in Seq(Moves(c))
  BY <1>2, <1>4, Appended
<1>6. /\ ChainTypes(c, p, "panicked", a, TRUE, b) /\ ChainTypes(c, p, "chaining", a, FALSE, b)
      /\ \A x : IsCall(x) /\ x.kind = b.kind => ChainTypes(c, p, "chaining", a, TRUE, x)
  BY <1>2, <1>5 DEF ChainTypes
<1>7. \A i \in DOMAIN a : ~c.options[a[i].id].terminal
  BY <1>1, <1>4, <1>5 DEF Follows, IsStep
<1>a. ~c.options[s.id].terminal
  BY <1>4 DEF IsStep
<1>8. ASSUME ty, Reachable(c, s, b), Asserts(c.options[s.id].takes, s.arg)
      PROVE  Fluent(c, p, "chaining", a, TRUE, Apply(c, b, s))
  <2> DEFINE b2 == Apply(c, b, s)
             R == Picked(c, src)
  <2>1. MayFollow(c, s, b)
    BY <1>4, <1>8 DEF MayFollow
  <2>2. BuilderOf(c, a, b2)
    BY <1>1, <1>3, <1>5, <1>8, <2>1, BuilderStep
  <2>3. TypeStates(c, b, R) /\ OrderOf(c, src, b)
    BY <1>1, <1>8 DEF BuilderOf
  <2> HIDE DEF b2
  <2>4. IsCall(b2) /\ b2.kind = b.kind /\ b2.spent = Marked(b.spent, c.options[s.id].group)
    <3>1. IsCall(b2) /\ b2.kind = b.kind /\ b2.spent = b.spent \cup Groups(c, s)
      BY <1>2, AppliedParts DEF b2
    <3> QED BY <3>1 DEF Groups, Marked
  <2> HIDE DEF R
  <2>5. OrderOf(c, a, b2)
    BY <1>1, <1>3, <1>5, <2>1, <2>3, OrderStep DEF b2, R
  <2>6. Moved(c, s, b.kind, ty, b.spent, TRUE, b2.spent)
    BY <1>4, <1>8, <2>4 DEF Moved, Fits, Reachable, Builder
  <2>7. LintOf(c, b2.kind, TRUE, b2.spent, a)
    <3>1. LintOf(c, b.kind, TRUE, b2.spent, a)
      BY <1>1, <1>5, <1>a, <2>6, LintOfStep
    <3> QED BY <2>4, <3>1
  <2>8. ChainTypes(c, p, "chaining", a, TRUE, b2)
    BY <1>6, <2>4
  <2>9. Fluent(c, p, "chaining", a, TRUE, b2)
    BY <1>1, <1>7, <2>2, <2>5, <2>7, <2>8 DEF Fluent
  <2> QED BY <2>9 DEF b2
<1>9. Fluent(c, p, "panicked", a, TRUE, b)
  BY <1>1, <1>6 DEF Fluent
<1>10. ASSUME ~ty \/ ~Reachable(c, s, b) PROVE Fluent(c, p, "chaining", a, FALSE, b)
  <2>1. ~(ty /\ Fits(c, s, b.kind, b.spent))
    BY <1>4, <1>10 DEF Fits, Reachable, Builder, IsStep
  <2>2. Moved(c, s, b.kind, ty, b.spent, FALSE, b.spent)
    BY <2>1 DEF Moved
  <2>3. LintOf(c, b.kind, FALSE, b.spent, a)
    BY <1>1, <1>5, <1>a, <2>2, LintOfStep
  <2> QED BY <1>1, <1>6, <1>7, <2>3 DEF Fluent
<1> QED BY <1>8, <1>9, <1>10

(* The terminal keeps the invariant.                                       *)
LEMMA EndFluent ==
  ASSUME NEW c, NEW p, NEW src, NEW ty, NEW b, Fluent(c, p, "chaining", src, ty, b),
         NEW t \in DOMAIN c.options, c.options[t].terminal,
         NEW a, a = Append(src, Ending(t)),
         NEW ty2 \in BOOLEAN, ty2 <=> ty /\ b.kind \in c.options[t].on
           /\ t # "make_call_or_throw"
  PROVE  Fluent(c, p, "ended", a, ty2, b)
<1> DEFINE s == Ending(t)
           o == c.options[s.id]
<1>1. /\ ChainTypes(c, p, "chaining", src, ty, b) /\ Integrity(c)
      /\ ty => BuilderOf(c, src, b)
      /\ \A i \in DOMAIN src : ~c.options[src[i].id].terminal
      /\ LintOf(c, b.kind, ty, b.spent, src)
  BY DEF Fluent
<1>2. /\ c \in Catalogs /\ p \in Palettes /\ ty \in BOOLEAN
      /\ src \in Seq(Moves(c)) /\ IsCall(b) /\ b.kind \in Both
  BY <1>1 DEF ChainTypes
<1>3. Disciplined(c)
  BY <1>1, <1>2, CatalogsAssumption
<1>4. s.id = t /\ s \in Moves(c)
  BY MovesOf DEF Ending
<1> HIDE DEF s
<1>5. Follows(src, s, a) /\ a \in Seq(Moves(c))
  BY <1>2, <1>4, Appended DEF s
<1>6. o.terminal /\ o.on \in {Unary, Stream, Both} /\ TerminalsSound(c)
  BY <1>3, <1>4 DEF Disciplined, InputsSound
<1>7. ty2 <=> ty /\ b.kind \in o.on /\ s.id # "make_call_or_throw"
  BY <1>4
<1>8. AuditsOf(c, b.kind, ty2, a)
  <2>1. o = c.options[s.id]
    OBVIOUS
  <2> HIDE DEF o
  <2> QED BY <1>1, <1>2, <1>4, <1>5, <1>6, <1>7, <2>1, AuditsEnd
<1>9. ty2 => BuilderOf(c, a, b)
  BY <1>1, <1>5, <1>6, BuilderEnd
<1>10. ChainTypes(c, p, "ended", a, ty2, b)
  BY <1>2, <1>5 DEF ChainTypes
<1> QED BY <1>1, <1>8, <1>9, <1>10 DEF Fluent

(* The builder, the type states and the lint follow the chain, whatever    *)
(* the catalog, the palette and the methods are (rpc_fluent.rs, audit.rs,  *)
(* model.rs).                                                              *)
THEOREM FluentInvariant == Spec => []IInv
<1>1. Init => IInv
  BY StartsFluent DEF Init, IInv
<1>2. IInv /\ [Next]_vars => IInv'
  <2> SUFFICES ASSUME IInv, [Next]_vars PROVE IInv'
    OBVIOUS
  <2>0. Fluent(catalog, palette, stage, source, typed, call)
    BY DEF IInv
  <2>1. CASE Parse
    <3>1. Fluent(catalog, palette, stage', source, typed, call)
      BY <2>0, <2>1, ParseFluent DEF Parse
    <3> QED BY <2>1, <3>1 DEF Parse, IInv
  <2>2. ASSUME NEW id \in palette \cap DOMAIN catalog.options, NEW s \in Steps(catalog, id),
                 Chain(s)
        PROVE  IInv'
    <3>1. /\ stage = "chaining" /\ source' = Append(source, s)
          /\ catalog' = catalog /\ palette' = palette
      BY <2>2 DEF Chain
    <3>2. /\ typed /\ Reachable(catalog, s, call) /\ Asserts(catalog.options[s.id].takes,
               s.arg) =>
               Fluent(catalog, palette, "chaining", source', TRUE, Apply(catalog, call, s))
          /\ Fluent(catalog, palette, "panicked", source', TRUE, call)
          /\ ~typed \/ ~Reachable(catalog, s, call) =>
               Fluent(catalog, palette, "chaining", source', FALSE, call)
      BY <2>0, <3>1, ChainFluent
    <3>3. CASE /\ typed /\ Reachable(catalog, s, call) /\ typed' = TRUE
               /\ Asserts(catalog.options[s.id].takes, s.arg)
               /\ call' = Apply(catalog, call, s) /\ stage' = stage
      BY <3>1, <3>2, <3>3 DEF IInv
    <3>4. CASE typed' = TRUE /\ call' = call /\ stage' = "panicked"
      BY <3>1, <3>2, <3>4 DEF IInv
    <3>5. CASE (~typed \/ ~Reachable(catalog, s, call)) /\ typed' = FALSE /\ call' = call
                 /\ stage' = stage
      BY <3>1, <3>2, <3>5 DEF IInv
    <3> QED BY <2>2, <3>3, <3>4, <3>5 DEF Chain
  <2>3. ASSUME NEW t \in TerminalIds, End(t) PROVE IInv'
    <3>1. /\ stage = "chaining" /\ stage' = "ended" /\ source' = Append(source, Ending(t))
          /\ catalog' = catalog /\ palette' = palette /\ call' = call
          /\ t \in DOMAIN catalog.options /\ catalog.options[t].terminal
      BY <2>3 DEF End, Ending, TerminalIds
    <3>2. typed' = (typed /\ call.kind \in catalog.options[t].on /\ t # "make_call_or_throw")
      BY <2>3 DEF End
    <3>3. typed \in BOOLEAN
      BY <2>0 DEF Fluent, ChainTypes
    <3> DEFINE ty2 == typed'
    <3>4. ty2 \in BOOLEAN /\ (ty2 <=> typed /\ call.kind \in catalog.options[t].on
            /\ t # "make_call_or_throw")
      BY <3>2, <3>3
    <3>5. Fluent(catalog, palette, "ended", source', typed', call)
      <4> HIDE DEF ty2
      <4>1. Fluent(catalog, palette, "ended", source', ty2, call)
        BY <2>0, <3>1, <3>4, EndFluent
      <4> QED BY <4>1 DEF ty2
    <3> QED BY <3>1, <3>5 DEF IInv
  <2>4. CASE UNCHANGED vars
    BY <2>0, <2>4 DEF vars, IInv
  <2> QED BY <2>1, <2>2, <2>3, <2>4 DEF Next
<1> QED BY <1>1, <1>2, PTL DEF Spec

-----------------------------------------------------------------------------
(* Order.                                                                  *)

(* A chain and the chain with two neighbours exchanged.                    *)
Exchanged(src, i, alt) ==
  /\ Len(alt) = Len(src) /\ alt[i] = src[i + 1] /\ alt[i + 1] = src[i]
  /\ \A k \in 1..Len(src) : k # i /\ k # i + 1 => alt[k] = src[k]

(* Swap exchanges two neighbours.                                          *)
LEMMA SwapParts ==
  ASSUME NEW M, NEW src \in Seq(M), NEW i \in 1..(Len(src) - 1), NEW alt, alt = Swap(src, i)
  PROVE  Exchanged(src, i, alt)
<1> DEFINE n == Len(src)
<1>1. n \in Nat /\ DOMAIN src = 1..n /\ \A k \in 1..n : src[k] \in M
  OBVIOUS
<1>2. i \in 1..n /\ i + 1 \in 1..n /\ i # i + 1
  BY <1>1
<1>3. alt = [src EXCEPT ![i] = src[i + 1], ![i + 1] = src[i]]
  BY DEF Swap
<1> HIDE DEF n
<1>4. /\ DOMAIN alt = 1..n /\ alt[i] = src[i + 1] /\ alt[i + 1] = src[i]
      /\ \A k \in 1..n : k # i /\ k # i + 1 => alt[k] = src[k]
  <2> DEFINE mid == [src EXCEPT ![i] = src[i + 1]]
  <2>1. /\ DOMAIN mid = 1..n /\ mid[i] = src[i + 1]
        /\ \A k \in 1..n : k # i => mid[k] = src[k]
    BY <1>1, <1>2
  <2>2. alt = [mid EXCEPT ![i + 1] = src[i]]
    BY <1>3
  <2> HIDE DEF mid
  <2> QED BY <1>2, <2>1, <2>2
<1>5. alt \in Seq(M)
  <2>1. src[i] \in M /\ src[i + 1] \in M
    BY <1>1, <1>2
  <2>2. \A k \in 1..n : alt[k] \in M
    BY <1>1, <1>4, <2>1
  <2>3. alt = [k \in 1..n |-> alt[k]]
    BY <1>3, <1>4
  <2> QED BY <1>1, <2>2, <2>3
<1>6. Len(alt) = n
  BY <1>1, <1>4, <1>5
<1> QED BY <1>4, <1>6 DEF Exchanged, n

(* Exchanging neighbours that set different things builds the same call.   *)
LEMMA ExchangedBuilds ==
  ASSUME NEW c, Integrity(c), Disciplined(c), NEW src, Len(src) \in Nat,
           DOMAIN src = 1..Len(src),
         NEW b, OrderOf(c, src, b), NEW i \in 1..(Len(src) - 1),
         Slot(c, src[i]) # Slot(c, src[i + 1]), NEW alt, Exchanged(src, i, alt)
  PROVE  Builds(c, b.kind, alt)[Len(alt)] = b
<1> DEFINE n == Len(src)
           kind == b.kind
           f == Builds(c, kind, src)
           g == Builds(c, kind, alt)
           s == src[i]
           t == src[i + 1]
<1>0. /\ Len(src) = n /\ Len(src) \in Nat /\ Len(alt) = n /\ Len(alt) \in Nat
      /\ \A k \in 1..n : k # i /\ k # i + 1 => alt[k] = src[k]
  BY DEF Exchanged
<1>1. /\ b = f[n] /\ (\A k \in 0..n : IsCall(f[k]) /\ SectionsAreObjects(f[k].plan))
      /\ \A x, y \in 1..n : IsStep(c, src[x]) /\ (x < y => Compatible(c, src[x].id,
           src[y].id))
  BY DEF OrderOf
<1>2. alt[i] = t /\ alt[i + 1] = s
  BY DEF Exchanged
<1>3. \A k \in 1..n : f[k] = Apply(c, f[k - 1], src[k])
  BY BuildsStep
<1>4. f[0] = NewCall(kind)
  BY BuildsStep
<1>5. \A k \in 1..n : g[k] = Apply(c, g[k - 1], alt[k])
  BY <1>0, BuildsStep
<1>6. g[0] = NewCall(kind)
  BY <1>0, BuildsStep
<1>7. n \in Nat /\ i \in 1..(n - 1)
  BY <1>0
<1>8. Slot(c, s) # Slot(c, t)
  OBVIOUS
<1> HIDE DEF n
<1>9. /\ i \in 1..n /\ i + 1 \in 1..n /\ i < i + 1 /\ (i + 1) - 1 = i
      /\ i - 1 \in 0..n /\ i - 1 \in Nat /\ i + 1 \in Nat /\ i - 1 <= n /\ i + 1 <= n
      /\ n <= n /\ 0 <= i - 1 /\ 0 \in Nat
  BY <1>7
<1> DEFINE x == i - 1
<1>10. f[x] = g[x]
  <2>1. f[0] = g[0]
    BY <1>4, <1>6
  <2>2. \A k \in 0..x : k # 0 => src[k] = alt[k]
    <3> SUFFICES ASSUME NEW k \in 0..x, k # 0 PROVE src[k] = alt[k]
      OBVIOUS
    <3>1. k \in 1..n /\ k # i /\ k # i + 1
      BY <1>7
    <3> QED BY <1>0, <3>1
  <2>3. x \in Nat /\ x <= Len(src) /\ x <= Len(alt) /\ 0 <= x /\ 0 \in Nat /\ x \in 0..x
    BY <1>0, <1>9
  <2> HIDE DEF x
  <2>4. Builds(c, kind, src)[0] = Builds(c, kind, alt)[0]
    BY <2>1
  <2> HIDE DEF f, g, kind
  <2>5. \A k \in 0..x : Builds(c, kind, src)[k] = Builds(c, kind, alt)[k]
    BY <1>0, <2>2, <2>3, <2>4, BuildsAgree
  <2> QED BY <2>3, <2>5 DEF f, g
<1>11. f[i] = Apply(c, f[x], s) /\ f[i + 1] = Apply(c, f[i], t)
  <2> HIDE DEF f, s, t
  <2> QED BY <1>3, <1>9 DEF s, t
<1>12. g[i] = Apply(c, g[x], t) /\ g[i + 1] = Apply(c, g[i], s)
  <2> HIDE DEF g, s, t
  <2> QED BY <1>2, <1>5, <1>9
<1>13. /\ IsCall(f[x]) /\ SectionsAreObjects(f[x].plan) /\ IsStep(c, s) /\ IsStep(c, t)
       /\ Compatible(c, s.id, t.id)
  BY <1>1, <1>9
<1> HIDE DEF f, g, s, t, x, kind
<1>14. Apply(c, Apply(c, f[x], s), t) = Apply(c, Apply(c, f[x], t), s)
  BY <1>8, <1>13, StepsCommute
<1>15. f[i + 1] = g[i + 1]
  BY <1>10, <1>11, <1>12, <1>14
<1> DEFINE y == i + 1
<1>16. f[n] = g[n]
  <2>1. \A k \in y..n : k # y => src[k] = alt[k]
    <3> SUFFICES ASSUME NEW k \in y..n, k # y PROVE src[k] = alt[k]
      OBVIOUS
    <3>1. k \in 1..n /\ k # i /\ k # i + 1
      BY <1>7
    <3> QED BY <1>0, <3>1
  <2>2. y \in Nat /\ n \in Nat /\ n <= Len(src) /\ n <= Len(alt) /\ y <= n /\ n \in y..n
    BY <1>0, <1>7, <1>9
  <2>3. Builds(c, kind, src)[y] = Builds(c, kind, alt)[y]
    BY <1>15 DEF f, g
  <2> HIDE DEF y
  <2>4. \A k \in y..n : Builds(c, kind, src)[k] = Builds(c, kind, alt)[k]
    BY <1>0, <2>1, <2>2, <2>3, BuildsAgree
  <2> QED BY <2>2, <2>4 DEF f, g
<1> QED BY <1>0, <1>1, <1>16 DEF f, g, kind

(* The invariant implies that order does not matter.                       *)
LEMMA OrderImplied == IInv => OrderIndependent
<1> SUFFICES ASSUME IInv, Compiled, stage = "chaining", NEW i \in 1..(Len(source) - 1),
                    Slot(catalog, source[i]) # Slot(catalog, source[i + 1])
             PROVE  Built(Swap(source, i)) = call
  BY DEF OrderIndependent
<1> DEFINE alt == Swap(source, i)
<1>1. /\ ChainTypes(catalog, palette, stage, source, typed, call)
      /\ Integrity(catalog) /\ OrderOf(catalog, source, call)
  BY DEF IInv, Fluent, Compiled
<1>2. source \in Seq(Moves(catalog)) /\ Disciplined(catalog)
  BY <1>1, CatalogsAssumption DEF ChainTypes
<1>3. Exchanged(source, i, alt)
  BY <1>2, SwapParts
<1>4. Len(source) \in Nat /\ DOMAIN source = 1..Len(source)
  BY <1>2
<1> HIDE DEF alt
<1>5. Builds(catalog, call.kind, alt)[Len(alt)] = call
  BY <1>1, <1>2, <1>3, <1>4, ExchangedBuilds
<1> QED BY <1>5 DEF Built, alt

(* The invariant implies that lint and type states agree.                  *)
LEMMA AuditImplied == IInv => AuditAgrees
<1> SUFFICES ASSUME IInv, stage = "ended" PROVE AuditAgrees
  BY DEF AuditAgrees
<1>1. AuditsOf(catalog, call.kind, typed, source)
  BY DEF IInv, Fluent
<1> QED BY <1>1 DEF AuditAgrees, AuditsOf

-----------------------------------------------------------------------------
(* Plans and the wire.                                                     *)

(* A plan by its four parts.                                               *)
Plan4(k, f, ho, he) == [kind |-> k, fields |-> f, hooks |-> ho, headers |-> he]

(* The headers and fields of a redacted plan.                              *)
RedactedHeaders(secret, headers) ==
  [h \in DOMAIN headers |->
     IF h \in secret \cup SensitiveHeaders THEN {REDACTED} ELSE headers[h]]

(* All of the fields.                                                      *)
RedactedFields(fields) == [f \in DOMAIN fields |-> RedactedField(f, fields[f])]

(* The parts of a plan made of parts.                                      *)
LEMMA PlanParts ==
  ASSUME NEW p, NEW k, NEW f, NEW ho, NEW he, p = Plan4(k, f, ho, he)
  PROVE  p.kind = k /\ p.fields = f /\ p.hooks = ho /\ p.headers = he
  BY DEF Plan4

(* What reaches the wire, by its parts.                                    *)
LEMMA WirePlanParts ==
  ASSUME NEW c, NEW b
  PROVE  WirePlan(c, b) = Plan4(b.kind, b.plan, b.hooks, WireHeaders(c, b))
  BY DEF WirePlan, Plan4

(* The redacted plan, by its parts.                                        *)
LEMMA ToPlanParts ==
  ASSUME NEW c, NEW b
  PROVE  ToPlan(c, b) = Plan4(b.kind, RedactedFields(b.plan), b.hooks,
                              RedactedHeaders(b.secret, WireHeaders(c, b)))
<1> DEFINE q == WirePlan(c, b)
           he == RedactedHeaders(b.secret, q.headers)
           fi == RedactedFields(q.fields)
<1>1. q = Plan4(b.kind, b.plan, b.hooks, WireHeaders(c, b))
  BY WirePlanParts
<1> HIDE DEF q
<1>2. q = Plan4(q.kind, q.fields, q.hooks, q.headers)
  BY <1>1 DEF Plan4
<1>3. ASSUME NEW x, NEW y PROVE [q EXCEPT !.headers = x, !.fields = y] = Plan4(q.kind, y,
               q.hooks, x)
  <2> DEFINE m == [q EXCEPT !.headers = x]
  <2>1. m = Plan4(q.kind, q.fields, q.hooks, x)
    BY <1>2 DEF Plan4
  <2>2. [q EXCEPT !.headers = x, !.fields = y] = [m EXCEPT !.fields = y]
    OBVIOUS
  <2> HIDE DEF m
  <2> QED BY <2>1, <2>2 DEF Plan4
<1>4. RedactWith(b.secret, q) = [q EXCEPT !.headers = he, !.fields = fi]
  BY DEF RedactWith, RedactedHeaders, RedactedFields, RedactedField
<1>5. ToPlan(c, b) = RedactWith(b.secret, q)
  BY DEF ToPlan, q
<1> HIDE DEF he, fi
<1>6. ToPlan(c, b) = Plan4(q.kind, fi, q.hooks, he)
  BY <1>3, <1>4, <1>5
<1>7. q.kind = b.kind /\ q.hooks = b.hooks /\ q.fields = b.plan /\ q.headers = WireHeaders(c,
        b)
  BY <1>1, PlanParts
<1> QED BY <1>6, <1>7 DEF he, fi

(* What an option wrote is among the headers sent, unless it is dropped.   *)
LEMMA OnTheWire ==
  ASSUME NEW c, NEW b, NEW h \in DOMAIN b.wire, h \notin b.dropped, NEW d \in b.wire[h]
  PROVE  h \in DOMAIN WireHeaders(c, b) /\ d \in WireHeaders(c, b)[h]
  BY DEF WireHeaders

(* The invariant implies that credentials stay out of the plan.            *)
LEMMA SecretsImplied == IInv => SecretsRedacted
<1> SUFFICES ASSUME IInv, Compiled PROVE SecretsRedacted
  BY DEF SecretsRedacted
<1> DEFINE c == catalog
           b == call
           p == ToPlan(c, b)
<1>1. p.fields = RedactedFields(b.plan) /\ p.headers = RedactedHeaders(b.secret,
        WireHeaders(c, b))
  BY ToPlanParts, PlanParts
<1> HIDE DEF p
<1>2. ASSUME NEW h \in DOMAIN p.headers, h \in SensitiveHeaders
               PROVE p.headers[h] = {REDACTED}
  BY <1>1, <1>2 DEF RedactedHeaders
<1>3. ASSUME NEW f \in DOMAIN p.fields
      PROVE  p.fields[f] = RedactedField(f, b.plan[f])
  BY <1>1 DEF RedactedFields
<1>4. ASSUME "query" \in DOMAIN p.fields, NEW n \in DOMAIN p.fields["query"],
               n \in SensitiveQuery
      PROVE  p.fields["query"][n] = REDACTED
  <2> DEFINE old == b.plan["query"]
  <2>1. p.fields["query"] = [x \in DOMAIN old |-> IF x \in SensitiveQuery THEN REDACTED ELSE old[x]]
    BY <1>3, <1>4 DEF RedactedField
  <2> HIDE DEF old
  <2> QED BY <1>4, <2>1
<1>5. ASSUME "proxy_url" \in DOMAIN p.fields
               PROVE p.fields["proxy_url"] # Scalar("userinfo url")
  <2> DEFINE u == StripUserinfo(b.plan["proxy_url"][""])
  <2>1. p.fields["proxy_url"] = Scalar(u)
    BY <1>3, <1>5 DEF RedactedField
  <2>2. u # "userinfo url"
    BY DEF StripUserinfo
  <2> HIDE DEF u
  <2>3. Scalar(u)[""] = u /\ Scalar("userinfo url")[""] = "userinfo url"
    BY DEF Scalar
  <2> QED BY <2>1, <2>2, <2>3
<1>6. ASSUME NEW i \in DOMAIN source, source[i].id = "with_bearer_token"
      PROVE  "credential" \in WireHeaders(c, b)["authorization"]
  <2> DEFINE r == source[i]
  <2>1. /\ ChainTypes(catalog, palette, stage, source, typed, call) /\ Integrity(c)
        /\ BearerCarried(c, b, Picked(c, source)) /\ TypeStates(c, b, Picked(c, source))
    BY DEF IInv, Fluent, Compiled, BuilderOf
  <2>2. c \in Catalogs /\ Disciplined(c) /\ source \in Seq(Moves(c))
    BY <2>1, CatalogsAssumption DEF ChainTypes
  <2>3. r \in Moves(c)
    BY <2>2
  <2>4. r.id \in DOMAIN c.options
    BY <2>3, MoveIds
  <2>5. ~c.options[r.id].terminal
    BY <1>6, <2>2, <2>4 DEF Disciplined, BearerSound
  <2>6. r \in Picked(c, source)
    BY <2>5 DEF Picked
  <2> HIDE DEF r
  <2>7. /\ "authorization" \in DOMAIN b.wire /\ "credential" \in b.wire["authorization"]
        /\ "authorization" \notin b.dropped
    BY <1>6, <2>1, <2>6 DEF BearerCarried, r
  <2> QED BY <2>7, OnTheWire
<1> QED BY <1>2, <1>4, <1>5, <1>6 DEF SecretsRedacted, p

(* The invariant implies that the wire carries what was chosen.            *)
LEMMA WireImplied == IInv => WireCarriesPlan
<1> SUFFICES ASSUME IInv, Compiled, stage = "ended", AuditChain(catalog, source) = {}
             PROVE  WireCarriesPlan
  BY DEF WireCarriesPlan
<1> DEFINE c == catalog
           b == call
           R == Picked(c, source)
           steps == {source[i] : i \in {j \in DOMAIN source :
                       ~c.options[source[j].id].terminal
                         /\ c.options[source[j].id].takes # "entry"}}
           W == {WireOf(c.options[s.id], s.arg) : s \in steps}
           written == UNION W
<1>1. /\ ChainTypes(catalog, palette, stage, source, typed, call) /\ Integrity(c)
      /\ BuilderOf(c, source, b) /\ AuditsOf(c, b.kind, typed, source) /\ typed
  BY DEF IInv, Fluent, Compiled
<1>2. c \in Catalogs /\ Disciplined(c)
  BY <1>1, CatalogsAssumption DEF ChainTypes
<1>3. AllCarried(c, b, R) /\ WireIsOf(c, b, R) /\ TypeStates(c, b, R)
  BY <1>1 DEF AuditsOf, BuilderOf
<1>4. \A s : s \in steps <=> s \in R /\ c.options[s.id].takes # "entry"
  BY DEF Picked
<1> HIDE DEF steps, R
<1>5. \A w : w \in written <=> \E s \in steps : w \in WireOf(c.options[s.id], s.arg)
  OBVIOUS
<1>6. ASSUME NEW w \in written, w[1] \notin b.dropped PROVE w[2] \in WireHeaders(c, b)[w[1]]
  <2>1. PICK s \in steps : w \in WireOf(c.options[s.id], s.arg)
    BY <1>5
  <2> DEFINE o == c.options[s.id]
  <2>2. s \in R /\ o.takes # "entry" /\ IsStep(c, s)
    BY <1>3, <1>4 DEF TypeStates
  <2>3. ~Inert(o)
    <3> SUFFICES ASSUME o.takes = "callback" PROVE FALSE
      BY <2>2 DEF Inert
    <3>1. o.writes = {}
      BY <1>2, <2>2 DEF Disciplined, InputsSound, IsStep
    <3>2. WireOf(o, s.arg) = {}
      BY <3>1 DEF WireOf, HeaderEffect
    <3> QED BY <2>1, <3>2
  <2>4. w[1] \in DOMAIN b.wire /\ w[2] \in b.wire[w[1]]
    BY <1>3, <2>1, <2>2, <2>3 DEF AllCarried, Carried
  <2> QED BY <1>6, <2>4, OnTheWire
<1>7. ASSUME NEW h \in DOMAIN b.wire, NEW d \in b.wire[h] PROVE <<h, d>> \in written
  <2>1. PICK r \in R : ~Inert(c.options[r.id]) /\ <<h, d>> \in WireOf(c.options[r.id], r.arg)
    BY <1>3 DEF WireIsOf
  <2>2. r \in steps
    BY <1>4, <2>1 DEF Inert
  <2> HIDE DEF W
  <2> QED BY <1>5, <2>1, <2>2
<1> HIDE DEF W
<1>8. WireCarriesPlan
  BY <1>6, <1>7 DEF WireCarriesPlan, W, steps
<1> QED BY <1>8

-----------------------------------------------------------------------------
(* Plans and the schemas.                                                  *)

(* Which options account for a field of a chain's plan.                    *)
LEMMA FieldSetter ==
  ASSUME NEW c, Disciplined(c), NEW b, NEW R, TypeStates(c, b, R), PlanIsOf(c, b, R),
         NEW f \in DOMAIN b.plan
  PROVE  \/ f = "serial_strategy"
         \/ \E r \in R : /\ Field(c, r) = f /\ r.id \in DOMAIN c.options /\ f # ""
                         /\ ~Idle(c.options[r.id]) /\ b.kind \in c.options[r.id].on
<1>1. CASE f # "serial_strategy"
  <2>1. PICK r \in R : ~Idle(c.options[r.id]) /\ Field(c, r) = f
    BY <1>1 DEF PlanIsOf
  <2>2. IsStep(c, r) /\ b.kind \in c.options[r.id].on
    BY DEF TypeStates
  <2>3. r.id \in DOMAIN c.options /\ f # ""
    BY <2>1, <2>2 DEF IsStep, Field, Disciplined, InputsSound
  <2> QED BY <2>1, <2>2, <2>3
<1> QED BY <1>1

(* Options of one field are alike.                                         *)
LEMMA FieldAlike ==
  ASSUME NEW c, Disciplined(c), NEW a \in DOMAIN c.options, NEW b \in DOMAIN c.options,
         c.options[a].field = c.options[b].field, c.options[a].field # ""
  PROVE  /\ c.options[a].on = c.options[b].on /\ c.options[a].group = c.options[b].group
         /\ c.options[a].requires = c.options[b].requires
  BY DEF Disciplined, FieldsShared

(* No field of the plan is of the other surface.                           *)
LEMMA SurfacesApart ==
  ASSUME NEW c, Disciplined(c), Authored(c), NEW b, NEW R, TypeStates(c, b, R),
         PlanIsOf(c, b, R), NEW f \in DOMAIN b.plan
  PROVE  /\ b.kind = "stream" => f \notin UnaryFields
         /\ b.kind = "unary" => f \notin StreamFields
<1> SUFFICES ASSUME f \in UnaryFields \cup StreamFields
             PROVE  /\ f \in UnaryFields => b.kind = "unary"
                    /\ f \in StreamFields => b.kind = "stream"
  OBVIOUS
<1>1. f # "serial_strategy"
  BY DEF UnaryFields, StreamFields
<1>2. PICK r \in R : Field(c, r) = f /\ r.id \in DOMAIN c.options /\ f # ""
        /\ b.kind \in c.options[r.id].on
  BY <1>1, FieldSetter
<1>3. /\ f \in UnaryFields => c.options[r.id].on = Unary
      /\ f \in StreamFields => c.options[r.id].on = Stream
  BY <1>2 DEF Authored, Field
<1> QED BY <1>2, <1>3 DEF Unary, Stream

(* No two fields of the plan shape one rate.                               *)
LEMMA ShapingsApart ==
  ASSUME NEW c, Disciplined(c), Authored(c), NEW b, NEW R, TypeStates(c, b, R),
         PlanIsOf(c, b, R), NEW s \in RateShapings, NEW f \in s, NEW g \in s,
         f \in DOMAIN b.plan, g \in DOMAIN b.plan
  PROVE  f = g
<1> SUFFICES ASSUME f # g PROVE FALSE
  OBVIOUS
<1>1. f # "serial_strategy" /\ g # "serial_strategy"
  BY DEF RateShapings
<1>2. PICK r \in R : Field(c, r) = f /\ r.id \in DOMAIN c.options
  BY <1>1, FieldSetter
<1>3. PICK q \in R : Field(c, q) = g /\ q.id \in DOMAIN c.options
  BY <1>1, FieldSetter
<1>4. c.options[r.id].group # "" /\ c.options[r.id].group = c.options[q.id].group
  <2>1. {c.options[r.id].field, c.options[q.id].field} \subseteq s
    BY <1>2, <1>3 DEF Field
  <2> QED BY <1>2, <1>3, <2>1 DEF Authored
<1>5. r # q
  BY <1>2, <1>3
<1>6. Compatible(c, r.id, q.id)
  BY <1>5 DEF TypeStates
<1> QED BY <1>4, <1>6 DEF Compatible

(* A plan with a backoff has a budget of retries.                          *)
LEMMA BackoffBudget ==
  ASSUME NEW c, Disciplined(c), Authored(c), NEW b, NEW R, TypeStates(c, b, R),
         PlanIsOf(c, b, R),
         \A r \in R : \A x \in c.options[r.id].requires : \E q \in R : q.id = x,
         "retry_backoff" \in DOMAIN b.plan
  PROVE  "retry_count" \in DOMAIN b.plan
<1>1. PICK r \in R : Field(c, r) = "retry_backoff" /\ r.id \in DOMAIN c.options
  BY FieldSetter
<1>2. PICK x \in c.options[r.id].requires : c.options[x].field = "retry_count"
  BY <1>1 DEF Authored, Field
<1>3. PICK q \in R : q.id = x
  BY <1>2
<1>4. c.options[x].takes # "callback"
  BY <1>1, <1>2 DEF Disciplined, RequiresSound
<1>5. ~Idle(c.options[q.id]) /\ Field(c, q) = "retry_count"
  BY <1>2, <1>3, <1>4 DEF Idle, Field
<1> QED BY <1>5 DEF PlanIsOf

(* The schema admits every value of the plan.                              *)
LEMMA FieldsAdmitted ==
  ASSUME NEW c, Disciplined(c), Authored(c), NEW b, NEW R, TypeStates(c, b, R),
         PlanIsOf(c, b, R), \A r \in R : r.arg \notin Malformed, NEW f \in DOMAIN b.plan
  PROVE  AuthoredAdmits(f, RedactedField(f, b.plan[f]))
<1>1. CASE f \in {"path", "query"}
  <2>1. "" \notin DOMAIN b.plan[f]
    BY <1>1 DEF TypeStates, SectionsAreObjects, IsObject
  <2>2. DOMAIN RedactedField(f, b.plan[f]) = DOMAIN b.plan[f]
    BY <1>1 DEF RedactedField
  <2> QED BY <1>1, <2>1, <2>2 DEF AuthoredAdmits
<1>2. CASE f = "body"
  BY <1>2 DEF AuthoredAdmits, AnyValue
<1>3. f # "headers"
  <2> SUFFICES ASSUME f = "headers" PROVE FALSE
    OBVIOUS
  <2>1. PICK r \in R : Field(c, r) = f /\ r.id \in DOMAIN c.options /\ ~Idle(c.options[r.id])
    BY FieldSetter
  <2>2. c.options[r.id].takes \in {"entry", "body"} /\ c.options[r.id].takes # "body"
    BY <2>1 DEF Disciplined, InputsSound, InputFields, Field
  <2> QED BY <2>1, <2>2 DEF Idle, Field
<1>4. CASE f = "serial_strategy" /\ b.plan[f] = Scalar("json")
  <2>1. RedactedField(f, b.plan[f]) = Scalar("json")
    BY <1>4 DEF RedactedField
  <2> QED BY <1>4, <2>1 DEF Authored
<1>5. CASE f \notin InputFields /\ ~(f = "serial_strategy" /\ b.plan[f] = Scalar("json"))
  <2>1. PICK r \in R : /\ ~Inert(c.options[r.id]) /\ Field(c, r) = f
                       /\ b.plan[f] = PlanValue(c.options[r.id], r.arg)
    BY <1>5 DEF PlanIsOf
  <2> DEFINE o == c.options[r.id]
  <2>2. /\ r.id \in DOMAIN c.options /\ ~o.terminal /\ r.arg \in Arguments(o.takes)
        /\ Asserts(o.takes, r.arg) /\ r.arg \notin Malformed
    BY DEF TypeStates, IsStep
  <2>3. o.field = f /\ f # "" /\ o.takes \notin {"entry", "callback"}
    BY <2>1, <2>2 DEF Field, Inert, Disciplined, InputsSound
  <2>4. AuthoredAdmits(o.field, RedactedField(o.field, PlanValue(o, r.arg)))
    BY <2>2, <2>3 DEF Authored
  <2> QED BY <2>1, <2>3, <2>4
<1> QED BY <1>1, <1>2, <1>3, <1>4, <1>5 DEF InputFields

(* The plan has fields of the schema only.                                 *)
LEMMA FieldsKnown ==
  ASSUME NEW c, Disciplined(c), Authored(c), NEW b, NEW R, TypeStates(c, b, R),
         PlanIsOf(c, b, R)
  PROVE  DOMAIN b.plan \subseteq AuthoredFields /\ DOMAIN b.hooks \subseteq AuthoredFields
<1>1. ASSUME NEW r \in R, Field(c, r) # "" PROVE Field(c, r) \in AuthoredFields
  <2>1. r.id \in DOMAIN c.options
    BY DEF TypeStates, IsStep
  <2> QED BY <1>1, <2>1 DEF Authored, Field
<1>2. ASSUME NEW f \in DOMAIN b.plan PROVE f \in AuthoredFields
  <2>1. CASE f = "serial_strategy"
    <3>1. PICK a \in DOMAIN c.options : c.options[a].field = f
      BY <2>1 DEF Disciplined, StrategySound, FieldOptions
    <3>2. c.options[a].field # ""
      BY <2>1, <3>1
    <3>3. c.options[a].field \in AuthoredFields
      BY <3>1, <3>2 DEF Authored
    <3> QED BY <3>1, <3>3
  <2>2. CASE f # "serial_strategy"
    <3>1. PICK r \in R : /\ Field(c, r) = f /\ r.id \in DOMAIN c.options /\ f # ""
                         /\ ~Idle(c.options[r.id]) /\ b.kind \in c.options[r.id].on
      BY ONLY Disciplined(c), TypeStates(c, b, R), PlanIsOf(c, b, R), f \in DOMAIN b.plan,
                <2>2, FieldSetter
    <3> QED BY <1>1, <3>1
  <2> QED BY <2>1, <2>2
<1>3. ASSUME NEW f \in DOMAIN b.hooks PROVE f \in AuthoredFields
  <2>1. PICK r \in R : c.options[r.id].takes = "callback" /\ Field(c, r) = f
    BY DEF PlanIsOf
  <2>2. IsStep(c, r)
    BY DEF TypeStates
  <2>3. f # ""
    BY <2>1, <2>2 DEF IsStep, Field, Disciplined, InputsSound
  <2> QED BY <1>1, <2>1, <2>3
<1> QED BY <1>2, <1>3

(* Every header of the plan has a name that the schema takes.              *)
LEMMA HeadersNamed ==
  ASSUME NEW c, Disciplined(c), Authored(c), NEW b, NEW R, TypeStates(c, b, R),
         WireIsOf(c, b, R), \A r \in R : r.arg \notin Malformed /\ HeaderName(r.name),
         NEW h \in DOMAIN WireHeaders(c, b)
  PROVE  HeaderName(h)
<1>1. h \in DOMAIN b.headers \/ h \in DOMAIN b.wire
  BY DEF WireHeaders
<1>2. CASE h \in DOMAIN b.headers
  BY <1>2 DEF WireIsOf
<1>3. CASE h \in DOMAIN b.wire
  <2>1. PICK r \in R : /\ ~Inert(c.options[r.id])
                       /\ \E w \in WireOf(c.options[r.id], r.arg) : w[1] = h
    BY <1>3 DEF WireIsOf
  <2>2. /\ r.id \in DOMAIN c.options /\ ~c.options[r.id].terminal
        /\ r.arg \in Arguments(c.options[r.id].takes)
        /\ Asserts(c.options[r.id].takes, r.arg) /\ r.arg \notin Malformed
    BY DEF TypeStates, IsStep
  <2>3. c.options[r.id].field # ""
    BY <2>2 DEF Disciplined, InputsSound
  <2>4. \A w \in WireOf(c.options[r.id], r.arg) : HeaderName(w[1])
    BY <2>2, <2>3 DEF Authored
  <2> QED BY <2>1, <2>4
<1> QED BY <1>1, <1>2, <1>3

(* The plan of a compiled chain conforms to the authored schema.           *)
LEMMA PlanConforms ==
  ASSUME NEW c, Disciplined(c), Authored(c), NEW b, b.kind \in Both, NEW R,
         TypeStates(c, b, R), PlanIsOf(c, b, R), WireIsOf(c, b, R),
         \A r \in R : r.arg \notin Malformed /\ HeaderName(r.name),
         \A r \in R : \A x \in c.options[r.id].requires : \E q \in R : q.id = x
  PROVE  AuthoredAccepts(ToPlan(c, b))
<1> DEFINE fi == RedactedFields(b.plan)
           he == RedactedHeaders(b.secret, WireHeaders(c, b))
           p == ToPlan(c, b)
<1>1. p = Plan4(b.kind, fi, b.hooks, he)
  BY ToPlanParts
<1>2. DOMAIN fi = DOMAIN b.plan /\ \A f \in DOMAIN fi : fi[f] = RedactedField(f, b.plan[f])
  BY DEF RedactedFields
<1>3. DOMAIN he = DOMAIN WireHeaders(c, b)
  BY DEF RedactedHeaders
<1> HIDE DEF fi, he, p
<1>4. p.kind = b.kind /\ p.fields = fi /\ p.hooks = b.hooks /\ p.headers = he
  BY <1>1, PlanParts
<1>5. DOMAIN p.fields \cup DOMAIN p.hooks \subseteq AuthoredFields
  <2>1. DOMAIN b.plan \subseteq AuthoredFields /\ DOMAIN b.hooks \subseteq AuthoredFields
    BY FieldsKnown
  <2> QED BY <1>2, <1>4, <2>1
<1>6. "serial_strategy" \in DOMAIN p.fields /\ p.kind \in {"unary", "stream"}
  BY <1>2, <1>4 DEF PlanIsOf, Both
<1>7. ASSUME NEW f \in DOMAIN p.fields PROVE AuthoredAdmits(f, p.fields[f])
  BY <1>2, <1>4, FieldsAdmitted
<1>8. ASSUME NEW h \in DOMAIN p.headers PROVE HeaderName(h)
  BY <1>3, <1>4, HeadersNamed
<1>9. /\ p.kind = "stream" => DOMAIN p.fields \cap UnaryFields = {}
      /\ p.kind = "unary" => DOMAIN p.fields \cap StreamFields = {}
  BY <1>2, <1>4, SurfacesApart
<1>10. ASSUME NEW s \in RateShapings, NEW f \in s, NEW g \in s,
              {f, g} \subseteq DOMAIN p.fields
       PROVE  f = g
  BY <1>2, <1>4, <1>10, ShapingsApart
<1>11. "retry_backoff" \in DOMAIN p.fields => "retry_count" \in DOMAIN p.fields
  BY <1>2, <1>4, BackoffBudget
<1>12. AuthoredAccepts(p)
  BY <1>5, <1>6, <1>7, <1>8, <1>9, <1>10, <1>11 DEF AuthoredAccepts
<1> QED BY <1>12 DEF p

(* The invariant implies that plans conform.                               *)
LEMMA PlansImplied == IInv => TypedPlansConform
<1> SUFFICES ASSUME IInv, Compiled, Prerequired, WellFormed(source)
             PROVE  AuthoredAccepts(ToPlan(catalog, call))
  BY DEF TypedPlansConform
<1> DEFINE c == catalog
           b == call
           R == Picked(c, source)
<1>1. /\ ChainTypes(catalog, palette, stage, source, typed, call) /\ Integrity(c)
      /\ TypeStates(c, b, R) /\ PlanIsOf(c, b, R) /\ WireIsOf(c, b, R)
  BY DEF IInv, Fluent, Compiled, BuilderOf
<1>2. c \in Catalogs /\ Disciplined(c) /\ Authored(c) /\ b.kind \in Both
  BY <1>1, CatalogsAssumption DEF ChainTypes
<1>3. \A r \in R : r.arg \notin Malformed /\ HeaderName(r.name)
  BY DEF Picked, WellFormed, WellNamed
<1>4. ASSUME NEW r \in R, NEW x \in c.options[r.id].requires PROVE \E q \in R : q.id = x
  <2>1. PICK i \in DOMAIN source : source[i] = r
    BY DEF Picked
  <2>2. PICK j \in DOMAIN source : source[j].id = x
    BY <2>1, <1>4 DEF Prerequired
  <2>3. r.id \in DOMAIN c.options
    BY <1>1 DEF TypeStates, IsStep
  <2>4. ~c.options[x].terminal
    BY <1>2, <1>4, <2>3 DEF Disciplined, RequiresSound
  <2>5. source[j] \in R
    BY <2>2, <2>4 DEF Picked
  <2> QED BY <2>2, <2>5
<1> HIDE DEF R
<1> QED BY <1>1, <1>2, <1>3, <1>4, PlanConforms

-----------------------------------------------------------------------------
(* The theorems.                                                           *)

(* The chain, the builder and the stage keep their types.                  *)
THEOREM TypeCorrect == Spec => []ChainTypes(catalog, palette, stage, source, typed, call)
<1>1. IInv => ChainTypes(catalog, palette, stage, source, typed, call)
  BY DEF IInv, Fluent
<1> QED BY <1>1, FluentInvariant, PTL

(* rpc_fluent.rs, audit.rs, conformance.rs: of every chain, the plan of    *)
(* one that rustc admits conforms to the authored schema, the lint agrees  *)
(* with the type states, and neighbours that set different things may      *)
(* stand in either order.                                                  *)
THEOREM JudgesAgree == Spec => []ChainsAgree
<1>1. IInv => ChainsAgree
  BY PlansImplied, AuditImplied, OrderImplied DEF ChainsAgree
<1> QED BY <1>1, FluentInvariant, PTL

(* rpc_fluent.rs: whatever the chain, no chosen directive vanishes from    *)
(* the wire, the wire has none but those that were chosen, and no          *)
(* credential enters the plan.                                             *)
THEOREM EmissionKept == Spec => []PlanEmission
<1>1. IInv => PlanEmission
  BY WireImplied, SecretsImplied DEF PlanEmission
<1> QED BY <1>1, FluentInvariant, PTL
=============================================================================
