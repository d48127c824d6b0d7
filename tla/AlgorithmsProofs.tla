-------------------------- MODULE AlgorithmsProofs --------------------------
(***************************************************************************)
(* The sequential parts, which share no state: sums of amounts are exact,  *)
(* the registry answers lookups as the configuration says, and reports are *)
(* what the rules and the requests make them.  The facts hold of every     *)
(* configuration, request and bound the assumptions of the modules allow.  *)
(***************************************************************************)
EXTENDS Money, ReportRules, Registry, FiniteSetTheorems, WellFoundedInduction, TLAPS

-----------------------------------------------------------------------------
(* Sums of amounts.                                                        *)

Parts(m) == m.units \in Int /\ m.nanos \in Int

\* An amount as add() takes or makes it: parts of one sign, and nanos below a
\* billion but for the sum that is not carried.
Proper(m) ==
  /\ Parts(m) /\ Agree(m.units, m.nanos)
  /\ m.nanos \in (1 - Billion)..Billion

LEMMA Constants ==
  Billion \in Nat /\ Billion >= 2 /\ Int64Max \in Nat /\ Int64Max >= 1
BY MoneyAssumption

LEMMA Distributes ==
  ASSUME NEW u \in Int, NEW v \in Int, NEW b \in Int
  PROVE  (u + v) * b = u * b + v * b
OBVIOUS

\* More units are more nanos.
LEMMA Grows ==
  ASSUME NEW u \in Int, NEW v \in Int, NEW b \in Nat, u <= v
  PROVE  u * b <= v * b
OBVIOUS

LEMMA AmountIsProper ==
  ASSUME NEW m \in Amounts
  PROVE  Proper(m) /\ m.nanos < Billion
<1>1. ValidMoney(m)
  BY MoneyAssumption
<1>2. m.units \in Int /\ m.nanos \in (1 - Billion)..(Billion - 1) /\ Agree(m.units, m.nanos)
  BY <1>1, Constants DEF ValidMoney, Valid64
<1>3. m.nanos \in Int /\ m.nanos \in (1 - Billion)..Billion /\ m.nanos < Billion
  BY <1>2, Constants
<1>4. QED
  BY <1>2, <1>3 DEF Proper, Parts

-----------------------------------------------------------------------------
(* What _sum_nanos and the adjustment do.                                  *)

\* The carry leaves nanos that one adjustment can put right.
LEMMA CarryLeaves ==
  ASSUME NEW n \in (2 - 2 * Billion)..(2 * Billion - 1)
  PROVE  /\ Carry(n) \in {-1, 0, 1}
         /\ n - Carry(n) * Billion \in (1 - Billion)..Billion
<1>0. n \in Int /\ Billion \in Int /\ Billion >= 2
  BY Constants
<1>1. CASE n > Billion
  BY <1>0, <1>1 DEF Carry
<1>2. CASE n <= -Billion
  BY <1>0, <1>2 DEF Carry
<1>3. CASE ~(n > Billion) /\ ~(n <= -Billion)
  BY <1>0, <1>3 DEF Carry
<1>4. QED
  BY <1>1, <1>2, <1>3

\* The adjustment keeps the amount and makes the signs agree.
LEMMA AdjustedIs ==
  ASSUME NEW u \in Int, NEW n \in (1 - Billion)..Billion
  PROVE  Proper(Adjusted(u, n)) /\ InNanos(Adjusted(u, n)) = u * Billion + n
<1>0. n \in Int /\ Billion \in Int /\ Billion >= 2
  BY Constants
<1>1. CASE u > 0 /\ n < 0
  <2>1. Adjusted(u, n) = [units |-> u - 1, nanos |-> n + Billion]
    BY <1>1 DEF Adjusted
  <2>2. (u - 1) * Billion + (n + Billion) = u * Billion + n
    BY <1>0
  <2>3. n + Billion \in (1 - Billion)..Billion /\ u - 1 \in Int /\ Agree(u - 1, n + Billion)
    BY <1>0, <1>1 DEF Agree
  <2>4. QED
    BY <1>0, <2>1, <2>2, <2>3 DEF Proper, Parts, InNanos
<1>2. CASE u < 0 /\ n > 0
  <2>1. Adjusted(u, n) = [units |-> u + 1, nanos |-> n - Billion]
    BY <1>0, <1>2 DEF Adjusted
  <2>2. (u + 1) * Billion + (n - Billion) = u * Billion + n
    BY <1>0
  <2>3. n - Billion \in (1 - Billion)..Billion /\ u + 1 \in Int /\ Agree(u + 1, n - Billion)
    BY <1>0, <1>2 DEF Agree
  <2>4. QED
    BY <1>0, <2>1, <2>2, <2>3 DEF Proper, Parts, InNanos
<1>3. CASE ~(u > 0 /\ n < 0) /\ ~(u < 0 /\ n > 0)
  <2>1. Adjusted(u, n) = [units |-> u, nanos |-> n]
    BY <1>3 DEF Adjusted
  <2>2. QED
    BY <1>0, <1>3, <2>1 DEF Proper, Parts, InNanos, Agree
<1>4. QED
  BY <1>1, <1>2, <1>3

\* The sum of two amounts is exact and proper again, whatever their signs.
LEMMA SumIs ==
  ASSUME NEW a, NEW b, Proper(a), Proper(b), b.nanos < Billion
  PROVE  Proper(Sum64(a, b)) /\ InNanos(Sum64(a, b)) = InNanos(a) + InNanos(b)
<1> DEFINE n == a.nanos + b.nanos
           c == Carry(n)
           u == a.units + b.units
<1>0. /\ a.units \in Int /\ a.nanos \in Int /\ b.units \in Int /\ b.nanos \in Int
      /\ Billion \in Int /\ u \in Int /\ n \in Int
  BY Constants DEF Proper, Parts
<1>1. n \in (2 - 2 * Billion)..(2 * Billion - 1)
  BY <1>0 DEF Proper
<1> HIDE DEF n
<1>2. c \in {-1, 0, 1} /\ n - c * Billion \in (1 - Billion)..Billion
  BY <1>1, CarryLeaves
<1> HIDE DEF c, u
<1>3. u + c \in Int /\ c \in Int
  BY <1>0, <1>2
<1>4. /\ Proper(Adjusted(u + c, n - c * Billion))
      /\ InNanos(Adjusted(u + c, n - c * Billion)) = (u + c) * Billion + (n - c * Billion)
  BY <1>2, <1>3, AdjustedIs
<1>5. Sum64(a, b) = Adjusted(u + c, n - c * Billion)
  BY DEF Sum64, n, c, u
<1>6. (u + c) * Billion = u * Billion + c * Billion
  BY <1>0, <1>3, Distributes
<1>7. u * Billion = a.units * Billion + b.units * Billion
  BY <1>0, Distributes DEF u
<1>8. (u + c) * Billion + (n - c * Billion) = InNanos(a) + InNanos(b)
  <2>1. u * Billion \in Int /\ c * Billion \in Int /\ a.units * Billion \in Int
        /\ b.units * Billion \in Int
    BY <1>0, <1>3
  <2>2. QED
    BY <1>0, <1>6, <1>7, <2>1 DEF n, InNanos
<1>9. QED
  BY <1>4, <1>5, <1>8

-----------------------------------------------------------------------------
(* An overflow is a sum at the limit or past it.                           *)

\* What the sign of the units says of an amount, and of its bounds.
LEMMA Bounds ==
  ASSUME NEW m, Proper(m), NEW u \in Int
  PROVE  /\ m.units >= u /\ u > 0 => InNanos(m) >= u * Billion
         /\ m.units <= u /\ u < 0 => InNanos(m) <= u * Billion
<1>0. m.units \in Int /\ m.nanos \in Int /\ Billion \in Nat
      /\ Agree(m.units, m.nanos)
  BY Constants DEF Proper, Parts
<1>1. m.units * Billion \in Int /\ u * Billion \in Int
  BY <1>0
<1>2. ASSUME m.units >= u, u > 0 PROVE InNanos(m) >= u * Billion
  <2>1. u * Billion <= m.units * Billion
    BY <1>0, <1>2, Grows
  <2>2. m.nanos >= 0
    BY <1>0, <1>2 DEF Agree
  <2>3. QED
    BY <1>0, <1>1, <2>1, <2>2 DEF InNanos
<1>3. ASSUME m.units <= u, u < 0 PROVE InNanos(m) <= u * Billion
  <2>1. m.units * Billion <= u * Billion
    BY <1>0, <1>3, Grows
  <2>2. m.nanos <= 0
    BY <1>0, <1>3 DEF Agree
  <2>3. QED
    BY <1>0, <1>1, <2>1, <2>2 DEF InNanos
<1>4. QED
  BY <1>2, <1>3

\* An amount below zero has no part above it.
LEMMA BelowZero ==
  ASSUME NEW m, Proper(m), Sign(m) < 0
  PROVE  m.units <= 0 /\ m.nanos <= 0
<1>0. /\ m.units \in Int /\ m.nanos \in Int /\ Billion \in Nat /\ Billion >= 2
      /\ Agree(m.units, m.nanos) /\ m.nanos >= 1 - Billion
  BY Constants DEF Proper, Parts
<1>1. m.units * Billion \in Int
  BY <1>0
<1>2. m.units * Billion + m.nanos < 0
  BY <1>0, <1>1 DEF Sign, InNanos
<1>3. m.units <= 0
  <2>1. SUFFICES ASSUME m.units >= 1 PROVE FALSE
    BY <1>0
  <2>2. m.nanos >= 0
    BY <1>0, <2>1 DEF Agree
  <2>3. 0 * Billion <= m.units * Billion
    BY <1>0, <2>1, Grows
  <2>4. QED
    BY <1>0, <1>1, <1>2, <2>2, <2>3
<1>4. m.nanos <= 0
  <2>1. CASE m.units = 0
    BY <1>0, <1>2, <2>1
  <2>2. CASE m.units < 0
    BY <1>0, <2>2 DEF Agree
  <2>3. QED
    BY <1>0, <1>3, <2>1, <2>2
<1>5. QED
  BY <1>3, <1>4

LEMMA UpIsAbove ==
  ASSUME NEW a, NEW b, Proper(a), Proper(b), b.nanos < Billion, OverflowsUp(a, b)
  PROVE  InNanos(a) + InNanos(b) >= Int64Max * Billion
<1>1. Sum64(a, b).units >= Int64Max /\ Int64Max > 0 /\ Int64Max \in Int
  BY Constants DEF OverflowsUp
<1>2. QED
  BY <1>1, SumIs, Bounds

LEMMA DownIsBelow ==
  ASSUME NEW a, NEW b, Proper(a), Proper(b), b.nanos < Billion, OverflowsDown(a, b)
  PROVE  InNanos(a) + InNanos(b) <= (1 - Int64Max) * Billion
<1> DEFINE s == InNanos(a) + InNanos(b)
<1>0. /\ a.units \in Int /\ a.nanos \in Int /\ b.units \in Int /\ b.nanos \in Int
      /\ Billion \in Nat /\ Int64Max \in Int /\ Int64Max >= 1
  BY Constants DEF Proper, Parts
<1>1. a.units * Billion \in Int /\ b.units * Billion \in Int /\ s \in Int
  BY <1>0 DEF InNanos
<1>2. CASE Sum64(a, b).units <= -Int64Max
  <2> DEFINE v == -Int64Max
  <2>1. v \in Int /\ v < 0 /\ v <= 1 - Int64Max
    BY <1>0
  <2>2. Proper(Sum64(a, b)) /\ InNanos(Sum64(a, b)) = s /\ Sum64(a, b).units <= v
    BY <1>2, SumIs
  <2> HIDE DEF s, v
  <2>3. s <= v * Billion
    BY <2>1, <2>2, Bounds
  <2>4. v * Billion <= (1 - Int64Max) * Billion
    BY <1>0, <2>1, Grows
  <2>5. v * Billion \in Int /\ (1 - Int64Max) * Billion \in Int
    BY <1>0, <2>1
  <2>6. s <= (1 - Int64Max) * Billion
    BY <1>1, <2>3, <2>4, <2>5
  <2>7. QED
    BY <2>6 DEF s
<1>3. CASE a.units + b.units <= -Int64Max
  <2>1. a.nanos <= 0 /\ b.nanos <= 0
    BY BelowZero DEF OverflowsDown
  <2>2. (a.units + b.units) * Billion <= (1 - Int64Max) * Billion
    <3>1. a.units + b.units \in Int /\ 1 - Int64Max \in Int
          /\ a.units + b.units <= 1 - Int64Max
      BY <1>0, <1>3
    <3>2. QED
      BY <1>0, <3>1, Grows
  <2>3. (a.units + b.units) * Billion = a.units * Billion + b.units * Billion
    BY <1>0, Distributes
  <2>4. (1 - Int64Max) * Billion \in Int
    BY <1>0
  <2>5. QED
    BY <1>0, <1>1, <2>1, <2>2, <2>3, <2>4 DEF InNanos
<1>4. QED
  BY <1>2, <1>3 DEF OverflowsDown

-----------------------------------------------------------------------------
\* The inductive invariant: as long as nothing has overflown, the total is proper
\* and exact.
MoneyInv ==
  /\ outcome \in {"added", "above", "below"} /\ SumExact
  /\ outcome = "added" => Proper(total) /\ InNanos(total) = exact

\* The sum of what was added is exact and proper, of any amounts.
THEOREM SumExactHolds == MoneySpec => []SumExact
<1>1. MoneyInit => MoneyInv
  <2> SUFFICES ASSUME MoneyInit PROVE MoneyInv
    OBVIOUS
  <2>1. Proper(total) /\ outcome = "added" /\ InNanos(total) = exact
    BY AmountIsProper DEF MoneyInit
  <2>2. QED
    BY <2>1 DEF MoneyInv, SumExact, Proper
<1>2. MoneyInv /\ [MoneyNext]_moneyVars => MoneyInv'
  <2> SUFFICES ASSUME MoneyInv, [MoneyNext]_moneyVars PROVE MoneyInv'
    OBVIOUS
  <2>1. CASE UNCHANGED moneyVars
    BY <2>1 DEF moneyVars, MoneyInv, SumExact, Proper, Parts, Agree, InNanos
  <2>2. ASSUME NEW m \in Amounts, outcome = "added", AddExactly(m) PROVE MoneyInv'
    <3>1. Proper(total) /\ InNanos(total) = exact /\ Proper(m) /\ m.nanos < Billion
      BY <2>2, AmountIsProper DEF MoneyInv
    <3>2. total' = Sum64(total, m) /\ exact' = exact + InNanos(m) /\ outcome' = "added"
      BY <2>2 DEF AddExactly
    <3>3. Proper(Sum64(total, m)) /\ InNanos(Sum64(total, m)) = exact + InNanos(m)
      BY <3>1, SumIs
    <3>4. Proper(total') /\ InNanos(total') = exact'
      BY <3>2, <3>3
    <3>5. QED
      BY <3>2, <3>4 DEF MoneyInv, SumExact, Proper, Parts, Agree, InNanos
  <2>3. ASSUME NEW m \in Amounts, outcome = "added", Overflow(m) \/ Saturate(m) PROVE MoneyInv'
    <3>1. Proper(total) /\ InNanos(total) = exact /\ Proper(m) /\ m.nanos < Billion
      BY <2>3, AmountIsProper DEF MoneyInv
    <3>2. /\ OverflowsUp(total, m) \/ OverflowsDown(total, m)
          /\ outcome' = IF OverflowsUp(total, m) THEN "above" ELSE "below"
          /\ exact' = exact + InNanos(m)
      BY <2>3 DEF Overflow, Saturate
    <3>3. CASE OverflowsUp(total, m)
      BY <3>1, <3>2, <3>3, UpIsAbove DEF MoneyInv, SumExact
    <3>4. CASE ~OverflowsUp(total, m)
      BY <3>1, <3>2, <3>4, DownIsBelow DEF MoneyInv, SumExact
    <3>5. QED
      BY <3>3, <3>4
  <2>4. QED
    BY <2>1, <2>2, <2>3 DEF MoneyNext
<1>3. MoneyInv => SumExact
  BY DEF MoneyInv
<1>4. QED
  BY <1>1, <1>2, <1>3, PTL DEF MoneySpec

-----------------------------------------------------------------------------
(* The method registry.                                                    *)

(* Sets of numbers.                                                        *)

LEMMA SetHasMin ==
  ASSUME NEW S \in SUBSET Nat, S # {}
  PROVE  Min(S) \in S /\ \A y \in S : Min(S) <= y
<1> DEFINE R == OpToRel(<, Nat)
<1>0. \A x, y \in Nat : y < x => <<y, x>> \in R
  BY DEF OpToRel
<1>1. \E x \in S : \A y \in S : ~(<<y, x>> \in R)
  BY NatLessThanWellFounded, WFMin
<1> HIDE DEF R
<1>2. PICK x \in S : \A y \in S : ~(<<y, x>> \in R)
  BY <1>1
<1>3. \A y \in S : ~(y < x)
  BY <1>0, <1>2
<1>4. \A y \in S : x <= y
  BY <1>3
<1>5. QED
  BY <1>4 DEF Min

LEMMA MinIs ==
  ASSUME NEW S \in SUBSET Nat, NEW x \in S, \A y \in S : x <= y
  PROVE  Min(S) = x
<1>1. Min(S) \in S /\ \A y \in S : Min(S) <= y
  BY SetHasMin
<1>2. Min(S) <= x /\ x <= Min(S) /\ Min(S) \in Nat
  BY <1>1
<1>3. QED
  BY <1>2

-----------------------------------------------------------------------------
(* The invariant.                                                          *)

Selectors == {config.http[i].selector : i \in DOMAIN config.http}
Urls == {config.http[i].url : i \in DOMAIN config.http}
ReservedNames == {Reserved[k] : k \in DOMAIN Reserved}
Entry == [url : Urls, selector : Selectors \cup ReservedNames]
Started == phase # "rules"

RegistryTypeOK ==
  /\ config \in Configs
  /\ phase \in {"rules", "cors", "usage", "params", "built"}
  /\ next \in Nat \ {0}
  /\ templates \in [LowerMethods -> Seq(Entry)]
  /\ urls \subseteq Urls \ BadUrls /\ optionUrls \subseteq urls
  /\ cors \in {"none"} \cup ReservedNames

\* Methods are records, and have the audiences of their selector.
MethodsOK ==
  \A s \in DOMAIN methods :
    /\ methods[s] = [auth |-> AuthInfo(s), unregistered |-> methods[s].unregistered,
                     body |-> methods[s].body, params |-> methods[s].params]
    /\ methods[s].unregistered \in BOOLEAN

\* The rules and usage rules that have been read.
Extracted(i) == Started \/ i < next
Used(j) == phase \in {"params", "built"} \/ (phase = "usage" /\ j < next)

\* A rule that was extracted has its method; the method of the preflights is one
\* that no rule names.
MethodsMade ==
  /\ \A i \in DOMAIN config.http :
       Bound(config.http[i]) /\ Extracted(i) => config.http[i].selector \in DOMAIN methods
  /\ ~Started => DOMAIN methods \subseteq Selectors
  /\ Started =>
       /\ cors \in DOMAIN methods /\ cors # "none"
       /\ \A i \in DOMAIN config.http :
            Bound(config.http[i]) => config.http[i].selector # cors

\* The URLs are those of the extracted rules.
UrlsKept ==
  /\ \A i \in UsableRules : Extracted(i) => config.http[i].url \in urls
  /\ \A url \in urls : \E i \in UsableRules : config.http[i].url = url
  /\ phase \notin {"rules", "cors"} => urls \subseteq optionUrls

\* A method admits callers without a key as the last usage rule read says, and
\* without one, if it is the method of the preflights.
UsedNames(s) == \E i \in DOMAIN config.usage : Used(i) /\ config.usage[i].selector = s
UsedAllows(s) ==
  \E i \in DOMAIN config.usage :
    /\ Used(i) /\ config.usage[i].selector = s /\ config.usage[i].allow
    /\ \A j \in DOMAIN config.usage : Used(j) /\ j > i => config.usage[j].selector # s

Admission ==
  \A s \in DOMAIN methods :
    /\ UsedNames(s) => (methods[s].unregistered <=> UsedAllows(s))
    /\ ~UsedNames(s) => (methods[s].unregistered <=> Started /\ s = cors)

\* The rules extracted for a method and path, and the first template.
ExtractedFor(method, path) == {i \in DeclaredFor(method, path) : Extracted(i)}

\* The first template that matches is that of the first rule.
FirstAgrees(method, path) ==
  \E t \in Matching(method, path), r \in ExtractedFor(method, path) :
    /\ \A u \in Matching(method, path) : t <= u
    /\ \A q \in ExtractedFor(method, path) : r <= q
    /\ templates[Lower[method]][t].selector = config.http[r].selector

\* What no rule declares is the preflights'.
OnlyCors(method, path) ==
  \A t \in Matching(method, path) :
    /\ Started /\ Lower[method] = Lower[OPTIONS]
    /\ templates[Lower[method]][t].selector = cors
    /\ templates[Lower[method]][t].url \in urls

TemplatesAgree ==
  \A method \in DOMAIN Lower : \A path \in Paths :
    IF ExtractedFor(method, path) # {} THEN FirstAgrees(method, path)
    ELSE OnlyCors(method, path)

\* A URL that needs no more preflights has an OPTIONS template.
OptionsMatch ==
  \A url \in optionUrls : \A path \in Matches[url] : Matching(OPTIONS, path) # {}

RegistryInv ==
  /\ RegistryTypeOK /\ MethodsOK /\ MethodsMade /\ UrlsKept /\ Admission
  /\ TemplatesAgree /\ OptionsMatch

-----------------------------------------------------------------------------
(* What registering a template does.                                       *)

LEMMA ConfigIsList ==
  ASSUME config \in Configs
  PROVE  /\ DOMAIN config.http = 1..Len(config.http) /\ DOMAIN config.http \subseteq Nat
         /\ DOMAIN config.usage = 1..Len(config.usage) /\ DOMAIN config.usage \subseteq Nat
         /\ \A i \in DOMAIN config.http :
              Bound(config.http[i]) => config.http[i].method \in DOMAIN Lower
         /\ \A i \in DOMAIN config.usage : config.usage[i].allow \in BOOLEAN
BY RegistryAssumption

\* One more template at the end of a method's list, and no other list changes.
LEMMA RegisterAppends ==
  ASSUME RegistryTypeOK, UNCHANGED config,
         NEW method \in DOMAIN Lower, NEW url \in Urls \ BadUrls,
         NEW selector \in Selectors \cup ReservedNames,
         templates' = Register(templates, method, url, selector)
  PROVE  /\ templates' \in [LowerMethods -> Seq(Entry)]
         /\ \A m \in DOMAIN Lower :
              templates'[Lower[m]] =
                IF Lower[m] = Lower[method]
                  THEN Append(templates[Lower[m]], [url |-> url, selector |-> selector])
                  ELSE templates[Lower[m]]
<1>1. templates \in [LowerMethods -> Seq(Entry)]
  BY DEF RegistryTypeOK
<1>2. Lower[method] \in LowerMethods /\ [url |-> url, selector |-> selector] \in Entry
  BY DEF LowerMethods, Entry
<1>3. templates' = [templates EXCEPT ![Lower[method]] =
                      Append(@, [url |-> url, selector |-> selector])]
  BY DEF Register
<1>4. Append(templates[Lower[method]], [url |-> url, selector |-> selector]) \in Seq(Entry)
  BY <1>1, <1>2
<1>5. \A m \in DOMAIN Lower : Lower[m] \in LowerMethods
  BY DEF LowerMethods
<1>6. QED
  BY <1>1, <1>2, <1>3, <1>4, <1>5

\* The templates that match: the new one, if it does, is the last of them.
LEMMA RegisterMatches ==
  ASSUME RegistryTypeOK, UNCHANGED config,
         NEW method \in DOMAIN Lower, NEW url \in Urls \ BadUrls,
         NEW selector \in Selectors \cup ReservedNames,
         templates' = Register(templates, method, url, selector),
         NEW m \in DOMAIN Lower, NEW path
  PROVE  /\ Matching(m, path) \subseteq Nat
         /\ \A t \in Matching(m, path) : templates'[Lower[m]][t] = templates[Lower[m]][t]
         /\ Lower[m] = Lower[method] /\ path \in Matches[url] =>
              \E n \in Nat :
                /\ Matching(m, path)' = Matching(m, path) \cup {n}
                /\ \A t \in Matching(m, path) : t < n
                /\ templates'[Lower[m]][n] = [url |-> url, selector |-> selector]
         /\ ~(Lower[m] = Lower[method] /\ path \in Matches[url]) =>
              Matching(m, path)' = Matching(m, path)
<1> DEFINE old == templates[Lower[m]]
           new == templates'[Lower[m]]
           entry == [url |-> url, selector |-> selector]
<1>1. old \in Seq(Entry) /\ entry \in Entry
  BY DEF RegistryTypeOK, LowerMethods, Entry
<1>2. new = IF Lower[m] = Lower[method] THEN Append(old, entry) ELSE old
  BY RegisterAppends
<1>3. /\ Matching(m, path) = {i \in DOMAIN old : path \in Matches[old[i].url]}
      /\ Matching(m, path)' = {i \in DOMAIN new : path \in Matches[new[i].url]}
  BY DEF Matching
<1>4. entry.url = url
  OBVIOUS
<1> HIDE DEF old, new, entry
<1>5. DOMAIN old = 1..Len(old) /\ Len(old) \in Nat
  BY <1>1
<1>6. CASE Lower[m] # Lower[method]
  BY <1>2, <1>3, <1>5, <1>6 DEF old, new
<1>7. CASE Lower[m] = Lower[method]
  <2>1. /\ DOMAIN new = (DOMAIN old) \cup {Len(old) + 1}
        /\ new[Len(old) + 1] = entry
        /\ \A i \in DOMAIN old : new[i] = old[i]
    BY <1>1, <1>2, <1>5, <1>7
  <2>2. Len(old) + 1 \in Nat /\ \A i \in DOMAIN old : i < Len(old) + 1 /\ i \in Nat
    BY <1>5
  <2>3. path \in Matches[url] => Matching(m, path)' = Matching(m, path) \cup {Len(old) + 1}
    BY <1>3, <1>4, <2>1, <2>2
  <2>4. path \notin Matches[url] => Matching(m, path)' = Matching(m, path)
    BY <1>3, <1>4, <2>1, <2>2
  <2>5. Matching(m, path) \subseteq DOMAIN old
    BY <1>3
  <2>6. QED
    BY <1>7, <2>1, <2>2, <2>3, <2>4, <2>5 DEF old, new, entry
<1>8. QED
  BY <1>6, <1>7

-----------------------------------------------------------------------------
(* A round of _extract_methods.                                            *)

LEMMA ConfigKept ==
  ASSUME UNCHANGED config
  PROVE  /\ UsableRules' = UsableRules
         /\ Selectors' = Selectors /\ Urls' = Urls /\ Entry' = Entry
         /\ \A m, path : DeclaredFor(m, path)' = DeclaredFor(m, path)
         /\ \A s : AuthInfo(s)' = AuthInfo(s)
BY DEF UsableRules, Selectors, Urls, Entry, DeclaredFor, Declaring, AuthInfo

\* The rules extracted so far, and those after one more.
LEMMA ExtractsNext ==
  ASSUME RegistryTypeOK, ExtractRule
  PROVE  /\ ~Started /\ ~Started' /\ next \in DOMAIN config.http
         /\ \A i \in DOMAIN config.http : Extracted(i)' <=> Extracted(i) \/ i = next
         /\ \A i \in DOMAIN config.http : Extracted(i) => i < next
         /\ \A m, path : ExtractedFor(m, path)' =
                           ExtractedFor(m, path) \cup ({next} \cap DeclaredFor(m, path))
<1>1. /\ phase = "rules" /\ phase' = "rules" /\ next' = next + 1 /\ next \in Nat
      /\ next \in DOMAIN config.http /\ config' = config /\ DOMAIN config.http \subseteq Nat
  BY ConfigIsList DEF ExtractRule, RegistryTypeOK
<1>2. \A i \in DOMAIN config.http : Extracted(i)' <=> Extracted(i) \/ i = next
  BY <1>1 DEF Extracted, Started
<1>3. \A i \in DOMAIN config.http : Extracted(i) => i < next
  BY <1>1 DEF Extracted, Started
<1>4. \A m, path : DeclaredFor(m, path) \subseteq DOMAIN config.http
  BY DEF DeclaredFor, Declaring, UsableRules
<1>5. \A m, path : DeclaredFor(m, path)' = DeclaredFor(m, path)
  BY <1>1, ConfigKept
<1>6. \A m, path : ExtractedFor(m, path)' =
                    ExtractedFor(m, path) \cup ({next} \cap DeclaredFor(m, path))
  BY <1>2, <1>4, <1>5 DEF ExtractedFor
<1>7. QED
  BY <1>1, <1>2, <1>3, <1>6 DEF Started

LEMMA ExtractTypeOK ==
  ASSUME RegistryTypeOK, ExtractRule
  PROVE  RegistryTypeOK'
<1>1. /\ phase' = phase /\ phase = "rules" /\ next' = next + 1 /\ config' = config /\ cors' = cors
      /\ next \in DOMAIN config.http
  BY DEF ExtractRule
<1> DEFINE rule == config.http[next]
<1>2. Entry' = Entry /\ Urls' = Urls
  BY <1>1, ConfigKept
<1>3. CASE ~Bound(rule)
  BY <1>1, <1>2, <1>3 DEF ExtractRule, RegistryTypeOK
<1>4. CASE Bound(rule)
  <2>1. /\ templates' = Register(templates, rule.method, rule.url, rule.selector)
        /\ urls' = urls \cup ({rule.url} \ BadUrls)
        /\ optionUrls' = IF rule.method = OPTIONS
                           THEN optionUrls \cup ({rule.url} \ BadUrls) ELSE optionUrls
    BY <1>4 DEF ExtractRule
  <2>2. rule.url \in Urls /\ rule.selector \in Selectors
    BY <1>1 DEF Urls, Selectors
  <2>3. rule.method \in DOMAIN Lower
    BY <1>1, <1>4, ConfigIsList DEF RegistryTypeOK
  <2>4. templates' \in [LowerMethods -> Seq(Entry)]
    <3>1. CASE rule.url \in BadUrls
      BY <2>1, <3>1 DEF Register, RegistryTypeOK
    <3>2. CASE rule.url \notin BadUrls
      BY <1>1, <2>1, <2>2, <2>3, <3>2, RegisterAppends
    <3>3. QED
      BY <3>1, <3>2
  <2>5. urls' \subseteq Urls \ BadUrls /\ optionUrls' \subseteq urls'
    BY <2>1, <2>2 DEF RegistryTypeOK
  <2>6. QED
    BY <1>1, <1>2, <2>4, <2>5 DEF RegistryTypeOK
<1>5. QED
  BY <1>3, <1>4

\* The first template and the first rule still agree.
LEMMA ExtractAgrees ==
  ASSUME RegistryTypeOK, TemplatesAgree, ExtractRule
  PROVE  TemplatesAgree'
<1> SUFFICES ASSUME NEW m \in DOMAIN Lower, NEW path \in Paths
             PROVE  IF ExtractedFor(m, path)' # {} THEN FirstAgrees(m, path)'
                    ELSE OnlyCors(m, path)'
  BY DEF TemplatesAgree
<1> DEFINE rule == config.http[next]
           T == Matching(m, path)
           R == ExtractedFor(m, path)
<1>1. /\ config' = config /\ urls \subseteq urls' /\ cors' = cors
  BY DEF ExtractRule
<1>2. /\ ~Started /\ ~Started' /\ next \in DOMAIN config.http /\ DOMAIN config.http \subseteq Nat
      /\ R' = R \cup ({next} \cap DeclaredFor(m, path))
      /\ \A q \in R : q < next /\ q \in Nat
  <2>1. R \subseteq DOMAIN config.http /\ \A q \in R : Extracted(q)
    BY DEF ExtractedFor, DeclaredFor, Declaring, UsableRules
  <2>2. QED
    BY <2>1, ExtractsNext, ConfigIsList DEF RegistryTypeOK
<1>3. R = {} => T = {}
  BY <1>2 DEF TemplatesAgree, OnlyCors
<1>4. R # {} => FirstAgrees(m, path)
  BY DEF TemplatesAgree
<1>5. next \in DeclaredFor(m, path) <=>
        Bound(rule) /\ rule.url \notin BadUrls /\ path \in Matches[rule.url]
        /\ Lower[rule.method] = Lower[m]
  BY <1>2 DEF DeclaredFor, Declaring, UsableRules
<1>6. CASE ~Bound(rule) \/ rule.url \in BadUrls
  <2>1. templates' = templates /\ R' = R
    BY <1>2, <1>5, <1>6 DEF ExtractRule, Register
  <2>2. T' = T
    BY <2>1 DEF Matching
  <2>3. CASE R = {}
    BY <1>3, <2>1, <2>2, <2>3 DEF OnlyCors
  <2>4. CASE R # {}
    BY <1>1, <1>4, <2>1, <2>2, <2>4 DEF FirstAgrees
  <2>5. QED
    BY <2>3, <2>4
<1>7. CASE Bound(rule) /\ rule.url \notin BadUrls
  <2>1. templates' = Register(templates, rule.method, rule.url, rule.selector)
    BY <1>7 DEF ExtractRule
  <2>2. rule.url \in Urls \ BadUrls /\ rule.selector \in Selectors \cup ReservedNames
    BY <1>2, <1>7 DEF Urls, Selectors
  <2>3. rule.method \in DOMAIN Lower
    BY <1>2, <1>7, ConfigIsList DEF RegistryTypeOK
  <2> HIDE DEF rule
  <2>4. /\ T \subseteq Nat
        /\ \A t \in T : templates'[Lower[m]][t] = templates[Lower[m]][t]
        /\ Lower[m] = Lower[rule.method] /\ path \in Matches[rule.url] =>
             \E n \in Nat :
               /\ T' = T \cup {n}
               /\ \A t \in T : t < n
               /\ templates'[Lower[m]][n] = [url |-> rule.url, selector |-> rule.selector]
        /\ ~(Lower[m] = Lower[rule.method] /\ path \in Matches[rule.url]) => T' = T
    BY <1>1, <2>1, <2>2, <2>3, RegisterMatches
  <2> HIDE DEF T, R
  <2>5. CASE ~(Lower[m] = Lower[rule.method] /\ path \in Matches[rule.url])
    <3>1. R' = R /\ T' = T
      BY <1>2, <1>5, <2>4, <2>5
    <3>2. CASE R = {}
      BY <1>3, <3>1, <3>2 DEF OnlyCors, T, R
    <3>3. CASE R # {}
      BY <1>1, <1>4, <2>4, <3>1, <3>3 DEF FirstAgrees, T, R
    <3>4. QED
      BY <3>2, <3>3 DEF R
  <2>6. CASE Lower[m] = Lower[rule.method] /\ path \in Matches[rule.url]
    <3>1. R' = R \cup {next}
      BY <1>2, <1>5, <1>7, <2>6
    <3>2. PICK n \in Nat : /\ T' = T \cup {n}
                           /\ \A t \in T : t < n
                           /\ templates'[Lower[m]][n] = [url |-> rule.url, selector |-> rule.selector]
      BY <2>4, <2>6
    <3>3. CASE R = {}
      <4>1. T' = {n} /\ R' = {next} /\ next \in Nat
        BY <1>2, <1>3, <3>1, <3>2, <3>3
      <4>2. templates'[Lower[m]][n].selector = config'.http[next].selector
        BY <1>1, <3>2 DEF rule
      <4>3. FirstAgrees(m, path)'
        BY <4>1, <4>2 DEF FirstAgrees, T, R
      <4>4. QED
        BY <4>1, <4>3 DEF R
    <3>4. CASE R # {}
      <4>1. PICK t \in T, r \in R :
              /\ \A u \in T : t <= u
              /\ \A q \in R : r <= q
              /\ templates[Lower[m]][t].selector = config.http[r].selector
        BY <1>4, <3>4 DEF FirstAgrees, T, R
      <4>2. t \in T' /\ r \in R'
        BY <3>1, <3>2, <4>1
      <4>3. \A u \in T' : t <= u
        BY <2>4, <3>2, <4>1
      <4>4. \A q \in R' : r <= q
        BY <1>2, <3>1, <4>1
      <4>5. templates'[Lower[m]][t].selector = config'.http[r].selector
        BY <1>1, <2>4, <4>1
      <4>6. FirstAgrees(m, path)'
        BY <4>2, <4>3, <4>4, <4>5 DEF FirstAgrees, T, R
      <4>7. QED
        BY <4>2, <4>6 DEF R
    <3>5. QED
      BY <3>3, <3>4
  <2>7. QED
    BY <2>5, <2>6
<1>8. QED
  BY <1>6, <1>7

\* A method as it is made, whatever becomes of its body and parameters.
MethodOf(s, unregistered, body, params) ==
  [auth |-> AuthInfo(s), unregistered |-> unregistered, body |-> body, params |-> params]

LEMMA MethodFields ==
  ASSUME NEW s, NEW u, NEW b, NEW p
  PROVE  /\ MethodOf(s, u, b, p).auth = AuthInfo(s) /\ MethodOf(s, u, b, p).unregistered = u
         /\ MethodOf(s, u, b, p).body = b /\ MethodOf(s, u, b, p).params = p
BY DEF MethodOf

LEMMA WithMethodIs ==
  ASSUME MethodsOK, NEW s
  PROVE  LET ms == WithMethod(methods, s) IN
         /\ DOMAIN ms = DOMAIN methods \cup {s}
         /\ \A k \in DOMAIN methods : ms[k] = methods[k]
         /\ s \notin DOMAIN methods => ms[s] = MethodOf(s, FALSE, "none", {})
         /\ \A k \in DOMAIN ms :
              /\ ms[k] = MethodOf(k, ms[k].unregistered, ms[k].body, ms[k].params)
              /\ ms[k].unregistered \in BOOLEAN
<1> DEFINE ms == WithMethod(methods, s)
<1>1. CASE s \in DOMAIN methods
  BY <1>1 DEF WithMethod, MethodsOK, MethodOf
<1>2. CASE s \notin DOMAIN methods
  <2>1. /\ DOMAIN ms = DOMAIN methods \cup {s}
        /\ \A k \in DOMAIN methods : ms[k] = methods[k]
        /\ ms[s] = MethodOf(s, FALSE, "none", {})
    BY <1>2 DEF WithMethod, MethodOf
  <2>2. /\ MethodOf(s, FALSE, "none", {}).unregistered = FALSE
        /\ MethodOf(s, FALSE, "none", {}).body = "none"
        /\ MethodOf(s, FALSE, "none", {}).params = {}
    BY DEF MethodOf
  <2> HIDE DEF ms
  <2>3. \A k \in DOMAIN methods :
          /\ ms[k] = MethodOf(k, ms[k].unregistered, ms[k].body, ms[k].params)
          /\ ms[k].unregistered \in BOOLEAN
    BY <2>1 DEF MethodsOK, MethodOf
  <2>4. /\ ms[s] = MethodOf(s, ms[s].unregistered, ms[s].body, ms[s].params)
        /\ ms[s].unregistered \in BOOLEAN
    BY <2>1, <2>2
  <2>5. QED
    BY <1>2, <2>1, <2>3, <2>4 DEF ms
<1>3. QED
  BY <1>1, <1>2

\* The extracted methods, and what the round leaves alone of them.
LEMMA ExtractMethods ==
  ASSUME RegistryTypeOK, MethodsOK, ExtractRule
  PROVE  /\ MethodsOK'
         /\ DOMAIN methods \subseteq DOMAIN methods'
         /\ DOMAIN methods' \subseteq DOMAIN methods \cup Selectors
         /\ \A s \in DOMAIN methods : methods'[s].unregistered = methods[s].unregistered
         /\ \A s \in DOMAIN methods' \ DOMAIN methods : methods'[s].unregistered = FALSE
         /\ Bound(config.http[next]) => config.http[next].selector \in DOMAIN methods'
<1> DEFINE rule == config.http[next]
           ms == WithMethod(methods, rule.selector)
<1>1. config' = config /\ \A s : AuthInfo(s)' = AuthInfo(s)
  BY ConfigKept DEF ExtractRule
<1>2. CASE ~Bound(rule)
  <2>1. methods' = methods
    BY <1>2 DEF ExtractRule
  <2>2. QED
    BY <1>1, <1>2, <2>1 DEF MethodsOK
<1>3. CASE Bound(rule)
  <2>1. methods' = [ms EXCEPT ![rule.selector].body = IF rule.body = "none" THEN @ ELSE rule.body]
    BY <1>3 DEF ExtractRule
  <2>2. /\ DOMAIN ms = DOMAIN methods \cup {rule.selector}
        /\ \A k \in DOMAIN methods : ms[k] = methods[k]
        /\ rule.selector \notin DOMAIN methods =>
             ms[rule.selector] = MethodOf(rule.selector, FALSE, "none", {})
        /\ \A k \in DOMAIN ms :
              /\ ms[k] = MethodOf(k, ms[k].unregistered, ms[k].body, ms[k].params)
              /\ ms[k].unregistered \in BOOLEAN
    BY WithMethodIs
  <2>3. MethodOf(rule.selector, FALSE, "none", {}).unregistered = FALSE
    BY DEF MethodOf
  <2> DEFINE s == rule.selector
             body == IF rule.body = "none" THEN ms[s].body ELSE rule.body
  <2> HIDE DEF ms
  <2>4. /\ DOMAIN methods' = DOMAIN ms
        /\ \A k \in DOMAIN ms \ {s} : methods'[k] = ms[k]
        /\ methods'[s] = [ms[s] EXCEPT !.body = body]
    BY <2>1, <2>2
  <2> HIDE DEF body
  <2>5. methods'[s] = MethodOf(s, ms[s].unregistered, body, ms[s].params)
    <3>1. ms[s] = [auth |-> AuthInfo(s), unregistered |-> ms[s].unregistered,
                   body |-> ms[s].body, params |-> ms[s].params]
      BY <2>2 DEF MethodOf
    <3>2. [ms[s] EXCEPT !.body = body] =
            [auth |-> AuthInfo(s), unregistered |-> ms[s].unregistered,
             body |-> body, params |-> ms[s].params]
      BY <3>1
    <3>3. QED
      BY <2>4, <3>2 DEF MethodOf
  <2>6. /\ methods'[s].unregistered = ms[s].unregistered
        /\ methods'[s].body = body /\ methods'[s].params = ms[s].params
    BY <2>5, MethodFields
  <2>7. \A k \in DOMAIN methods' :
          /\ methods'[k].unregistered = ms[k].unregistered
          /\ methods'[k] = MethodOf(k, methods'[k].unregistered, methods'[k].body, methods'[k].params)
    BY <2>2, <2>4, <2>5, <2>6
  <2>8. MethodsOK'
    BY <1>1, <2>2, <2>4, <2>7 DEF MethodsOK, MethodOf
  <2>9. DOMAIN methods' = DOMAIN methods \cup {s}
    BY <2>2, <2>4
  <2>10. \A k \in DOMAIN methods : methods'[k].unregistered = methods[k].unregistered
    BY <2>2, <2>7, <2>9
  <2>11. s \notin DOMAIN methods => methods'[s].unregistered = FALSE
    BY <2>2, <2>3, <2>6
  <2>12. s \in Selectors
    BY DEF ExtractRule, Selectors
  <2>13. QED
    BY <2>8, <2>9, <2>10, <2>11, <2>12
<1>4. QED
  BY <1>2, <1>3

LEMMA ExtractKeepsInv ==
  ASSUME RegistryInv, ExtractRule
  PROVE  RegistryInv'
<1> DEFINE rule == config.http[next]
<1>1. /\ RegistryTypeOK /\ MethodsOK /\ MethodsMade /\ UrlsKept /\ Admission
      /\ TemplatesAgree /\ OptionsMatch
  BY DEF RegistryInv
<1>2. /\ ~Started /\ ~Started' /\ next \in DOMAIN config.http
      /\ \A i \in DOMAIN config.http : Extracted(i)' <=> Extracted(i) \/ i = next
      /\ config' = config /\ cors' = cors /\ UsableRules' = UsableRules /\ Selectors' = Selectors
      /\ UsableRules \subseteq DOMAIN config.http
  BY <1>1, ExtractsNext, ConfigKept DEF ExtractRule, UsableRules
<1>3. /\ MethodsOK'
      /\ DOMAIN methods \subseteq DOMAIN methods'
      /\ DOMAIN methods' \subseteq DOMAIN methods \cup Selectors
      /\ \A s \in DOMAIN methods : methods'[s].unregistered = methods[s].unregistered
      /\ \A s \in DOMAIN methods' \ DOMAIN methods : methods'[s].unregistered = FALSE
      /\ Bound(rule) => rule.selector \in DOMAIN methods'
  BY <1>1, ExtractMethods
<1>4. RegistryTypeOK'
  BY <1>1, ExtractTypeOK
<1>5. MethodsMade'
  <2>1. \A i \in DOMAIN config.http :
          Bound(config.http[i]) /\ Extracted(i)' => config.http[i].selector \in DOMAIN methods'
    BY <1>1, <1>2, <1>3 DEF MethodsMade
  <2>2. DOMAIN methods' \subseteq Selectors'
    BY <1>1, <1>2, <1>3 DEF MethodsMade
  <2>3. QED
    BY <1>2, <2>1, <2>2 DEF MethodsMade
<1>6. UrlsKept'
  <2>1. urls' = urls \cup (IF Bound(rule) THEN {rule.url} \ BadUrls ELSE {})
    BY DEF ExtractRule
  <2>2. next \in UsableRules <=> Bound(rule) /\ rule.url \notin BadUrls
    BY <1>2 DEF UsableRules
  <2>3. \A i \in UsableRules : Extracted(i)' => config.http[i].url \in urls'
    BY <1>1, <1>2, <2>1, <2>2 DEF UrlsKept
  <2>4. \A url \in urls' : \E i \in UsableRules : config.http[i].url = url
    BY <1>1, <1>2, <2>1, <2>2 DEF UrlsKept
  <2>5. phase' = "rules"
    BY DEF ExtractRule
  <2>6. QED
    BY <1>2, <2>3, <2>4, <2>5 DEF UrlsKept
<1>7. Admission'
  <2>1. \A i : ~Used(i) /\ ~Used(i)'
    BY DEF Used, ExtractRule
  <2>2. \A s : ~UsedNames(s) /\ ~UsedNames(s)'
    BY <2>1 DEF UsedNames
  <2>3. \A s \in DOMAIN methods : ~methods[s].unregistered
    BY <1>1, <1>2, <2>2 DEF Admission
  <2>4. \A s \in DOMAIN methods' : ~methods'[s].unregistered
    BY <1>3, <2>3
  <2>5. QED
    BY <1>2, <2>2, <2>4 DEF Admission
<1>8. TemplatesAgree'
  BY <1>1, ExtractAgrees
<1>9. OptionsMatch'
  <2> SUFFICES ASSUME NEW url \in optionUrls', NEW path \in Matches[url]
               PROVE  Matching(OPTIONS, path)' # {}
    BY DEF OptionsMatch
  <2>0. OPTIONS \in DOMAIN Lower
    BY RegistryAssumption
  <2>1. CASE ~Bound(rule) \/ rule.url \in BadUrls
    <3>1. templates' = templates /\ optionUrls' = optionUrls
      BY <1>1, <2>1 DEF ExtractRule, Register, RegistryTypeOK
    <3>2. Matching(OPTIONS, path)' = Matching(OPTIONS, path)
      BY <3>1 DEF Matching
    <3>3. QED
      BY <1>1, <3>1, <3>2 DEF OptionsMatch
  <2>2. CASE Bound(rule) /\ rule.url \notin BadUrls
    <3>1. /\ templates' = Register(templates, rule.method, rule.url, rule.selector)
          /\ optionUrls' = IF rule.method = OPTIONS
                             THEN optionUrls \cup ({rule.url} \ BadUrls) ELSE optionUrls
      BY <2>2 DEF ExtractRule
    <3>2. rule.url \in Urls \ BadUrls /\ rule.selector \in Selectors \cup ReservedNames
      BY <1>2, <2>2 DEF Urls, Selectors
    <3>3. rule.method \in DOMAIN Lower
      BY <1>1, <1>2, <2>2, ConfigIsList DEF RegistryTypeOK
    <3> HIDE DEF rule
    <3>4. /\ Lower[OPTIONS] = Lower[rule.method] /\ path \in Matches[rule.url] =>
               \E n \in Nat : Matching(OPTIONS, path)' = Matching(OPTIONS, path) \cup {n}
          /\ ~(Lower[OPTIONS] = Lower[rule.method] /\ path \in Matches[rule.url]) =>
               Matching(OPTIONS, path)' = Matching(OPTIONS, path)
      <4>1. RegistryTypeOK /\ config' = config
        BY <1>1, <1>2
      <4>2. /\ Lower[OPTIONS] = Lower[rule.method] /\ path \in Matches[rule.url] =>
                 \E n \in Nat :
                   /\ Matching(OPTIONS, path)' = Matching(OPTIONS, path) \cup {n}
                   /\ \A t \in Matching(OPTIONS, path) : t < n
                   /\ templates'[Lower[OPTIONS]][n] = [url |-> rule.url, selector |-> rule.selector]
            /\ ~(Lower[OPTIONS] = Lower[rule.method] /\ path \in Matches[rule.url]) =>
                 Matching(OPTIONS, path)' = Matching(OPTIONS, path)
        BY <2>0, <3>1, <3>2, <3>3, <4>1, RegisterMatches
      <4>3. QED
        BY <4>2
    <3>5. CASE url \in optionUrls
      <4>1. Matching(OPTIONS, path) # {}
        BY <1>1, <3>5 DEF OptionsMatch
      <4>2. QED
        BY <3>4, <4>1
    <3>6. CASE url \notin optionUrls
      <4>1. rule.method = OPTIONS /\ rule.url = url
        BY <3>1, <3>6
      <4>2. QED
        BY <3>4, <4>1
    <3>7. QED
      BY <3>5, <3>6
  <2>3. QED
    BY <2>1, <2>2
<1>10. QED
  BY <1>3, <1>4, <1>5, <1>6, <1>7, <1>8, <1>9 DEF RegistryInv

-----------------------------------------------------------------------------
(* The preflights.                                                         *)

\* A name for their method is found, and no rule uses it.
LEMMA CorsNameIsFree ==
  ASSUME RegistryTypeOK, MethodsMade, ~Started
  PROVE  LET name == Reserved[CorsSelector(methods)] IN
         name \in ReservedNames /\ name # "none" /\ name \notin DOMAIN methods
<1> DEFINE F == {i \in DOMAIN Reserved : Reserved[i] \notin DOMAIN methods}
<1>1. /\ DOMAIN Reserved \subseteq Nat
      /\ \A i \in DOMAIN Reserved : Reserved[i] \in ReservedNames /\ Reserved[i] # "none"
  BY RegistryAssumption DEF ReservedNames
<1>2. PICK k \in DOMAIN Reserved : \A i \in DOMAIN config.http : config.http[i].selector # Reserved[k]
  BY RegistryAssumption DEF RegistryTypeOK
<1>3. k \in F /\ F \subseteq Nat
  BY <1>1, <1>2 DEF MethodsMade, Selectors
<1>4. Min(F) \in F
  <2> HIDE DEF F
  <2>1. QED
    BY <1>3, SetHasMin
<1>5. CorsSelector(methods) \in F
  BY <1>4 DEF CorsSelector
<1>6. QED
  BY <1>1, <1>5

LEMMA AddCorsKeepsInv ==
  ASSUME RegistryInv, AddCorsOptions
  PROVE  RegistryInv'
<1> DEFINE name == Reserved[CorsSelector(methods)]
           ms == WithMethod(methods, name)
<1>1. /\ RegistryTypeOK /\ MethodsOK /\ MethodsMade /\ UrlsKept /\ Admission
      /\ TemplatesAgree /\ OptionsMatch
  BY DEF RegistryInv
<1>2. /\ phase = "rules" /\ phase' = "cors" /\ next > Len(config.http) /\ next' = next
      /\ config' = config /\ templates' = templates /\ urls' = urls /\ optionUrls' = optionUrls
      /\ cors' = name /\ methods' = [ms EXCEPT ![name].unregistered = TRUE]
  BY DEF AddCorsOptions
<1>3. ~Started /\ Started'
  BY <1>2 DEF Started
<1>4. /\ \A i \in DOMAIN config.http : Extracted(i) /\ Extracted(i)'
      /\ UsableRules \subseteq DOMAIN config.http
  <2>1. DOMAIN config.http = 1..Len(config.http)
    BY <1>1, ConfigIsList DEF RegistryTypeOK
  <2>2. next \in Nat
    BY <1>1 DEF RegistryTypeOK
  <2>3. \A i \in DOMAIN config.http : i < next
    BY <1>2, <2>1, <2>2
  <2>4. QED
    BY <1>3, <2>3 DEF Extracted, UsableRules
<1>5. name \in ReservedNames /\ name # "none" /\ name \notin DOMAIN methods
  BY <1>1, <1>2, <1>3, CorsNameIsFree
<1> HIDE DEF name
<1>6. /\ Entry' = Entry /\ Urls' = Urls /\ UsableRules' = UsableRules
      /\ \A m, path : DeclaredFor(m, path)' = DeclaredFor(m, path)
      /\ \A s : AuthInfo(s)' = AuthInfo(s)
  BY <1>2, ConfigKept
<1>7. RegistryTypeOK'
  BY <1>1, <1>2, <1>5, <1>6 DEF RegistryTypeOK
<1>8. /\ DOMAIN methods' = DOMAIN methods \cup {name}
      /\ \A s \in DOMAIN methods : methods'[s] = methods[s]
      /\ methods'[name] = MethodOf(name, TRUE, "none", {})
  <2>1. /\ DOMAIN ms = DOMAIN methods \cup {name}
        /\ \A k \in DOMAIN methods : ms[k] = methods[k]
        /\ ms[name] = MethodOf(name, FALSE, "none", {})
    BY <1>1, <1>5, WithMethodIs
  <2> HIDE DEF ms
  <2>2. /\ DOMAIN methods' = DOMAIN ms
        /\ \A k \in DOMAIN ms \ {name} : methods'[k] = ms[k]
        /\ methods'[name] = [ms[name] EXCEPT !.unregistered = TRUE]
    BY <1>2, <2>1
  <2>3. [MethodOf(name, FALSE, "none", {}) EXCEPT !.unregistered = TRUE] =
          MethodOf(name, TRUE, "none", {})
    <3>1. \A u, v : [MethodOf(name, u, "none", {}) EXCEPT !.unregistered = v] =
                      MethodOf(name, v, "none", {})
      BY DEF MethodOf
    <3>2. QED
      BY <3>1, Zenon
  <2>4. QED
    BY <1>5, <2>1, <2>2, <2>3
<1>9. /\ methods'[name].unregistered = TRUE
      /\ methods'[name].body = "none" /\ methods'[name].params = {}
  <2>1. /\ MethodOf(name, TRUE, "none", {}).unregistered = TRUE
        /\ MethodOf(name, TRUE, "none", {}).body = "none"
        /\ MethodOf(name, TRUE, "none", {}).params = {}
    BY DEF MethodOf
  <2>2. QED
    BY <1>8, <2>1
<1>10. MethodsOK'
  <2>1. \A s \in DOMAIN methods :
          /\ methods'[s] = MethodOf(s, methods'[s].unregistered, methods'[s].body, methods'[s].params)
          /\ methods'[s].unregistered \in BOOLEAN
    BY <1>1, <1>8 DEF MethodsOK, MethodOf
  <2>2. methods'[name] = MethodOf(name, methods'[name].unregistered, methods'[name].body,
                                   methods'[name].params)
    BY <1>8, <1>9
  <2>3. QED
    BY <1>6, <1>8, <1>9, <2>1, <2>2 DEF MethodsOK, MethodOf
<1>11. MethodsMade'
  BY <1>1, <1>2, <1>3, <1>4, <1>5, <1>8 DEF MethodsMade
<1>12. UrlsKept'
  BY <1>1, <1>2, <1>4, <1>6 DEF UrlsKept
<1>13. Admission'
  <2>1. \A i : ~Used(i) /\ ~Used(i)'
    BY <1>2 DEF Used
  <2>2. \A s : ~UsedNames(s) /\ ~UsedNames(s)'
    BY <2>1 DEF UsedNames
  <2>3. \A s \in DOMAIN methods : ~methods[s].unregistered
    BY <1>1, <1>3, <2>2 DEF Admission
  <2>4. \A s \in DOMAIN methods' : methods'[s].unregistered <=> s = name
    BY <1>5, <1>8, <1>9, <2>3
  <2>5. QED
    BY <1>2, <1>3, <2>2, <2>4 DEF Admission
<1>14. \A m, path : /\ Matching(m, path)' = Matching(m, path)
                    /\ ExtractedFor(m, path)' = ExtractedFor(m, path)
  <2>1. \A m, path : DeclaredFor(m, path) \subseteq DOMAIN config.http
    BY DEF DeclaredFor, Declaring, UsableRules
  <2>2. QED
    BY <1>2, <1>4, <1>6, <2>1 DEF Matching, ExtractedFor
<1>s. TemplatesAgree'
  <2> SUFFICES ASSUME NEW m \in DOMAIN Lower, NEW path \in Paths
               PROVE  IF ExtractedFor(m, path)' # {} THEN FirstAgrees(m, path)'
                      ELSE OnlyCors(m, path)'
    BY DEF TemplatesAgree
  <2>1. CASE ExtractedFor(m, path) # {}
    <3>1. FirstAgrees(m, path)
      BY <1>1, <2>1 DEF TemplatesAgree
    <3>2. QED
      BY <1>2, <1>14, <2>1, <3>1 DEF FirstAgrees
  <2>2. CASE ExtractedFor(m, path) = {}
    <3>1. Matching(m, path) = {}
      BY <1>1, <1>3, <2>2 DEF TemplatesAgree, OnlyCors
    <3>2. QED
      BY <1>14, <2>2, <3>1 DEF OnlyCors
  <2>3. QED
    BY <2>1, <2>2
<1>c. OptionsMatch'
  BY <1>1, <1>2, <1>14 DEF OptionsMatch
<1>17. QED
  BY <1>7, <1>10, <1>11, <1>12, <1>13, <1>s, <1>c DEF RegistryInv

LEMMA RegisterOptionsKeepsInv ==
  ASSUME RegistryInv, RegisterOptions
  PROVE  RegistryInv'
<1>1. /\ RegistryTypeOK /\ MethodsOK /\ MethodsMade /\ UrlsKept /\ Admission
      /\ TemplatesAgree /\ OptionsMatch
  BY DEF RegistryInv
<1>2. PICK url \in urls \ optionUrls :
        /\ phase = "cors"
        /\ templates' = Register(templates, OPTIONS, url, cors)
        /\ optionUrls' = optionUrls \cup {url}
        /\ UNCHANGED <<config, phase, next, methods, urls, cors>>
  BY DEF RegisterOptions
<1>3. /\ phase' = "cors" /\ next' = next /\ config' = config /\ methods' = methods
      /\ urls' = urls /\ cors' = cors
  BY <1>2
<1>4. Started /\ Started' /\ (\A i : Extracted(i) /\ Extracted(i)') /\ (\A i : ~Used(i) /\ ~Used(i)')
  BY <1>2, <1>3 DEF Started, Extracted, Used
<1>5. /\ Entry' = Entry /\ Urls' = Urls /\ UsableRules' = UsableRules
      /\ \A m, path : ExtractedFor(m, path)' = ExtractedFor(m, path)
      /\ \A s : AuthInfo(s)' = AuthInfo(s)
  BY <1>3, <1>4, ConfigKept DEF ExtractedFor
<1>6. /\ OPTIONS \in DOMAIN Lower /\ url \in Urls \ BadUrls /\ cors \in Selectors \cup ReservedNames
  <2>1. cors # "none"
    BY <1>1, <1>4 DEF MethodsMade
  <2>2. QED
    BY <1>1, <1>2, <2>1, RegistryAssumption DEF RegistryTypeOK
<1>7. RegistryTypeOK'
  <2>1. templates' \in [LowerMethods -> Seq(Entry)]
    BY <1>1, <1>2, <1>3, <1>6, RegisterAppends
  <2>2. QED
    BY <1>1, <1>2, <1>3, <1>5, <2>1 DEF RegistryTypeOK
<1>8. MethodsOK' /\ MethodsMade'
  BY <1>1, <1>3, <1>4, <1>5 DEF MethodsOK, MethodsMade
<1>9. UrlsKept'
  BY <1>1, <1>2, <1>3, <1>4, <1>5 DEF UrlsKept
<1>10. Admission'
  BY <1>1, <1>3, <1>4 DEF Admission, UsedNames
<1>11. ASSUME NEW m \in DOMAIN Lower, NEW path
       PROVE  /\ Matching(m, path) \subseteq Nat
              /\ \A t \in Matching(m, path) : templates'[Lower[m]][t] = templates[Lower[m]][t]
              /\ Lower[m] = Lower[OPTIONS] /\ path \in Matches[url] =>
                   \E n \in Nat :
                     /\ Matching(m, path)' = Matching(m, path) \cup {n}
                     /\ \A t \in Matching(m, path) : t < n
                     /\ templates'[Lower[m]][n] = [url |-> url, selector |-> cors]
              /\ ~(Lower[m] = Lower[OPTIONS] /\ path \in Matches[url]) =>
                   Matching(m, path)' = Matching(m, path)
  BY <1>1, <1>2, <1>3, <1>6, RegisterMatches
<1>12. TemplatesAgree'
  <2> SUFFICES ASSUME NEW m \in DOMAIN Lower, NEW path \in Paths
               PROVE  IF ExtractedFor(m, path)' # {} THEN FirstAgrees(m, path)'
                      ELSE OnlyCors(m, path)'
    BY DEF TemplatesAgree
  <2> DEFINE T == Matching(m, path)
             R == ExtractedFor(m, path)
  <2>1. /\ T \subseteq Nat /\ R' = R
        /\ \A t \in T : templates'[Lower[m]][t] = templates[Lower[m]][t]
        /\ \/ T' = T
           \/ /\ Lower[m] = Lower[OPTIONS]
              /\ \E n \in Nat :
                   /\ T' = T \cup {n}
                   /\ \A t \in T : t < n
                   /\ templates'[Lower[m]][n] = [url |-> url, selector |-> cors]
    BY <1>5, <1>11
  <2>2. CASE R # {}
    <3>1. FirstAgrees(m, path)
      BY <1>1, <2>2 DEF TemplatesAgree
    <3> HIDE DEF T, R
    <3>2. PICK t \in T, r \in R :
            /\ \A u \in T : t <= u
            /\ \A q \in R : r <= q
            /\ templates[Lower[m]][t].selector = config.http[r].selector
      BY <3>1 DEF FirstAgrees, T, R
    <3>3. t \in T' /\ \A u \in T' : t <= u
      <4>1. CASE T' = T
        BY <3>2, <4>1
      <4>2. CASE T' # T
        <5>1. PICK n \in Nat : T' = T \cup {n} /\ \A u \in T : u < n
          BY <2>1, <4>2
        <5>2. t < n /\ t \in Nat
          BY <2>1, <3>2, <5>1
        <5>3. t <= n
          BY <5>2
        <5>4. QED
          BY <3>2, <5>1, <5>3
      <4>3. QED
        BY <4>1, <4>2
    <3>4. templates'[Lower[m]][t].selector = config'.http[r].selector
      BY <1>3, <2>1, <3>2
    <3>5. FirstAgrees(m, path)'
      BY <2>1, <3>2, <3>3, <3>4 DEF FirstAgrees, T, R
    <3>6. QED
      BY <2>1, <2>2, <3>5 DEF R
  <2>3. CASE R = {}
    <3>1. OnlyCors(m, path)
      BY <1>1, <2>3 DEF TemplatesAgree
    <3> HIDE DEF T, R
    <3>2. \A t \in T : /\ Lower[m] = Lower[OPTIONS]
                       /\ templates[Lower[m]][t].selector = cors
                       /\ templates[Lower[m]][t].url \in urls
      BY <3>1 DEF OnlyCors, T
    <3>3. \A t \in T' : /\ Lower[m] = Lower[OPTIONS]
                        /\ templates'[Lower[m]][t].selector = cors
                        /\ templates'[Lower[m]][t].url \in urls
      <4>1. CASE T' = T
        BY <2>1, <3>2, <4>1
      <4>2. CASE T' # T
        <5>1. PICK n \in Nat : /\ T' = T \cup {n}
                               /\ templates'[Lower[m]][n] = [url |-> url, selector |-> cors]
          BY <2>1, <4>2
        <5>2. /\ templates'[Lower[m]][n].selector = cors
              /\ templates'[Lower[m]][n].url = url /\ url \in urls
          BY <1>2, <5>1
        <5>3. QED
          BY <2>1, <3>2, <4>2, <5>1, <5>2
      <4>3. QED
        BY <4>1, <4>2
    <3>4. OnlyCors(m, path)'
      BY <1>3, <1>4, <3>3 DEF OnlyCors, T
    <3>5. QED
      BY <2>1, <2>3, <3>4 DEF R
  <2>4. QED
    BY <2>2, <2>3
<1>13. OptionsMatch'
  <2> SUFFICES ASSUME NEW u \in optionUrls', NEW path \in Matches[u]
               PROVE  Matching(OPTIONS, path)' # {}
    BY DEF OptionsMatch
  <2>1. /\ path \in Matches[url] =>
             \E n \in Nat : Matching(OPTIONS, path)' = Matching(OPTIONS, path) \cup {n}
        /\ path \notin Matches[url] => Matching(OPTIONS, path)' = Matching(OPTIONS, path)
    BY <1>6, <1>11
  <2>2. CASE u = url
    BY <2>1, <2>2
  <2>3. CASE u # url
    <3>1. Matching(OPTIONS, path) # {}
      BY <1>1, <1>2, <2>3 DEF OptionsMatch
    <3>2. QED
      BY <2>1, <3>1
  <2>4. QED
    BY <2>2, <2>3
<1>14. QED
  BY <1>7, <1>8, <1>9, <1>10, <1>12, <1>13 DEF RegistryInv

-----------------------------------------------------------------------------
(* The passes over the usage rules and the system parameters.              *)

\* What only concerns the templates stays, once the rules are extracted.
LEMMA TemplatesKept ==
  ASSUME RegistryInv, Started, Started', phase' # "cors" => urls \subseteq optionUrls,
         UNCHANGED <<config, templates, urls, optionUrls, cors>>,
         DOMAIN methods' = DOMAIN methods
  PROVE  MethodsMade' /\ UrlsKept' /\ TemplatesAgree' /\ OptionsMatch'
<1>1. MethodsMade /\ UrlsKept /\ TemplatesAgree /\ OptionsMatch
  BY DEF RegistryInv
<1>2. /\ config' = config /\ templates' = templates /\ urls' = urls
      /\ optionUrls' = optionUrls /\ cors' = cors
  OBVIOUS
<1>3. \A i : Extracted(i) /\ Extracted(i)'
  BY DEF Extracted
<1>4. UsableRules' = UsableRules /\ \A m, path : DeclaredFor(m, path)' = DeclaredFor(m, path)
  BY <1>2, ConfigKept
<1>5. \A m, path : /\ Matching(m, path)' = Matching(m, path)
                   /\ ExtractedFor(m, path)' = ExtractedFor(m, path)
  BY <1>2, <1>3, <1>4 DEF Matching, ExtractedFor
<1>6. MethodsMade'
  BY <1>1, <1>2, <1>3 DEF MethodsMade
<1>7. UrlsKept'
  BY <1>1, <1>2, <1>3, <1>4 DEF UrlsKept, Started
<1>8. OptionsMatch'
  BY <1>1, <1>2, <1>5 DEF OptionsMatch
<1>9. TemplatesAgree'
  <2>1. \A m, path : /\ FirstAgrees(m, path) => FirstAgrees(m, path)'
                     /\ OnlyCors(m, path) => OnlyCors(m, path)'
    BY <1>2, <1>5 DEF FirstAgrees, OnlyCors
  <2>2. QED
    BY <1>1, <1>5, <2>1 DEF TemplatesAgree
<1>10. QED
  BY <1>6, <1>7, <1>8, <1>9

LEMMA UsesNext ==
  ASSUME RegistryTypeOK, UpdateUsage
  PROVE  /\ next \in DOMAIN config.usage /\ DOMAIN config.usage \subseteq Nat
         /\ \A i \in DOMAIN config.usage : Used(i)' <=> Used(i) \/ i = next
         /\ \A i \in DOMAIN config.usage : Used(i) => i < next
<1>1. /\ phase = "usage" /\ phase' = "usage" /\ next' = next + 1 /\ next \in Nat
      /\ next \in DOMAIN config.usage /\ DOMAIN config.usage \subseteq Nat
  BY ConfigIsList DEF UpdateUsage, RegistryTypeOK
<1>2. \A i \in DOMAIN config.usage : Used(i)' <=> Used(i) \/ i = next
  BY <1>1 DEF Used
<1>3. \A i \in DOMAIN config.usage : Used(i) => i < next
  BY <1>1 DEF Used
<1>4. QED
  BY <1>1, <1>2, <1>3

LEMMA UsageKeepsInv ==
  ASSUME RegistryInv, UpdateUsage
  PROVE  RegistryInv'
<1> DEFINE rule == config.usage[next]
<1>1. RegistryTypeOK /\ MethodsOK /\ UrlsKept /\ Admission
  BY DEF RegistryInv
<1>2. /\ phase = "usage" /\ phase' = "usage" /\ next \in DOMAIN config.usage /\ next' = next + 1
      /\ config' = config /\ templates' = templates /\ urls' = urls /\ optionUrls' = optionUrls
      /\ cors' = cors
      /\ methods' = IF rule.selector \notin DOMAIN methods THEN methods
                    ELSE [methods EXCEPT ![rule.selector].unregistered = rule.allow]
  BY DEF UpdateUsage
<1>3. /\ Started /\ Started' /\ next \in Nat /\ DOMAIN config.usage \subseteq Nat
      /\ rule.allow \in BOOLEAN
  BY <1>1, <1>2, ConfigIsList DEF Started, RegistryTypeOK
<1>4. /\ Entry' = Entry /\ Urls' = Urls /\ \A s : AuthInfo(s)' = AuthInfo(s)
  BY <1>2, ConfigKept
<1>5. RegistryTypeOK'
  BY <1>1, <1>2, <1>3, <1>4 DEF RegistryTypeOK
<1> HIDE DEF rule
<1>s. PICK s : s = rule.selector
  OBVIOUS
<1>6. /\ DOMAIN methods' = DOMAIN methods
      /\ \A k \in DOMAIN methods \ {s} : methods'[k] = methods[k]
      /\ s \in DOMAIN methods =>
           methods'[s] = MethodOf(s, rule.allow, methods[s].body, methods[s].params)
  <2>1. CASE s \notin DOMAIN methods
    BY <1>2, <1>s, <2>1
  <2>2. CASE s \in DOMAIN methods
    <3>1. methods' = [methods EXCEPT ![s] = [@ EXCEPT !.unregistered = rule.allow]]
      BY <1>2, <1>s, <2>2
    <3>2. methods[s] = [auth |-> AuthInfo(s), unregistered |-> methods[s].unregistered,
                        body |-> methods[s].body, params |-> methods[s].params]
      BY <1>1, <2>2 DEF MethodsOK
    <3>3. [methods[s] EXCEPT !.unregistered = rule.allow] =
            [auth |-> AuthInfo(s), unregistered |-> rule.allow,
             body |-> methods[s].body, params |-> methods[s].params]
      BY <3>2
    <3>4. QED
      BY <2>2, <3>1, <3>3 DEF MethodOf
  <2>3. QED
    BY <2>1, <2>2
<1>7. s \in DOMAIN methods =>
        /\ methods'[s] = MethodOf(s, methods'[s].unregistered, methods'[s].body, methods'[s].params)
        /\ methods'[s].unregistered = rule.allow
  BY <1>6, MethodFields
<1>8. MethodsOK'
  <2>1. \A k \in DOMAIN methods \ {s} :
          /\ methods'[k] = MethodOf(k, methods'[k].unregistered, methods'[k].body, methods'[k].params)
          /\ methods'[k].unregistered \in BOOLEAN
    BY <1>1, <1>6 DEF MethodsOK, MethodOf
  <2>2. s \in DOMAIN methods => methods'[s].unregistered \in BOOLEAN
    BY <1>3, <1>7
  <2>3. QED
    BY <1>4, <1>6, <1>7, <2>1, <2>2 DEF MethodsOK, MethodOf
<1>9. MethodsMade' /\ UrlsKept' /\ TemplatesAgree' /\ OptionsMatch'
  <2>1. urls \subseteq optionUrls
    BY <1>1, <1>2 DEF UrlsKept
  <2>2. QED
    BY <1>2, <1>3, <1>6, <2>1, TemplatesKept
<1>10. /\ next \in DOMAIN config.usage /\ DOMAIN config.usage \subseteq Nat
       /\ \A i \in DOMAIN config.usage : Used(i)' <=> Used(i) \/ i = next
       /\ \A i \in DOMAIN config.usage : Used(i) => i < next
  BY <1>1, UsesNext
<1>c. config' = config
  BY <1>2
<1>11. Admission'
  <2>1. UsedNames(s)' /\ (UsedAllows(s)' <=> rule.allow)
    <3>1. UsedNames(s)'
      BY <1>s, <1>c, <1>10 DEF UsedNames, rule
    <3>2. rule.allow => UsedAllows(s)'
      <4>1. \A j \in DOMAIN config.usage : Used(j)' => ~(j > next)
        BY <1>10
      <4>2. config.usage[next].allow <=> rule.allow
        BY DEF rule
      <4>3. QED
        BY <1>s, <1>c, <1>10, <4>1, <4>2 DEF UsedAllows, rule
    <3>3. UsedAllows(s)' => rule.allow
      <4> SUFFICES ASSUME UsedAllows(s)' PROVE rule.allow
        OBVIOUS
      <4>1. PICK i \in DOMAIN config.usage :
              /\ Used(i)' /\ config.usage[i].selector = s /\ config.usage[i].allow
              /\ \A j \in DOMAIN config.usage : Used(j)' /\ j > i => config.usage[j].selector # s
        BY <1>c DEF UsedAllows
      <4>2. ~(next > i)
        BY <1>s, <1>c, <1>10, <4>1 DEF rule
      <4>3. i = next
        BY <1>10, <4>1, <4>2
      <4>4. QED
        BY <4>1, <4>3 DEF rule
    <3>4. QED
      BY <3>1, <3>2, <3>3
  <2>2. ASSUME NEW k, k # s
        PROVE  (UsedNames(k)' <=> UsedNames(k)) /\ (UsedAllows(k)' <=> UsedAllows(k))
    <3>1. \A i \in DOMAIN config.usage : config.usage[i].selector = k => i # next
      BY <1>s, <2>2 DEF rule
    <3>2. \A i \in DOMAIN config.usage : config.usage[i].selector = k => (Used(i)' <=> Used(i))
      BY <1>10, <3>1
    <3>3. UsedNames(k)' <=> UsedNames(k)
      BY <1>c, <3>2 DEF UsedNames
    <3>4. UsedAllows(k)' <=> UsedAllows(k)
      BY <1>c, <3>2 DEF UsedAllows
    <3>5. QED
      BY <3>3, <3>4
  <2>3. ASSUME NEW k \in DOMAIN methods', k = s
        PROVE  UsedNames(k)' /\ (methods'[k].unregistered <=> UsedAllows(k)')
    BY <1>6, <1>7, <2>1, <2>3
  <2>4. ASSUME NEW k \in DOMAIN methods', k # s
        PROVE  /\ UsedNames(k)' => (methods'[k].unregistered <=> UsedAllows(k)')
               /\ ~UsedNames(k)' => (methods'[k].unregistered <=> k = cors)
    <3>1. k \in DOMAIN methods /\ methods'[k] = methods[k]
      BY <1>6, <2>4
    <3>2. /\ UsedNames(k) => (methods[k].unregistered <=> UsedAllows(k))
          /\ ~UsedNames(k) => (methods[k].unregistered <=> k = cors)
      BY <1>1, <1>3, <3>1 DEF Admission
    <3>3. QED
      BY <2>2, <2>4, <3>1, <3>2
  <2>5. QED
    BY <1>2, <1>3, <2>3, <2>4 DEF Admission
<1>12. QED
  BY <1>5, <1>8, <1>9, <1>11 DEF RegistryInv

LEMMA ParametersKeepInv ==
  ASSUME RegistryInv, UpdateSystemParameters
  PROVE  RegistryInv'
<1> DEFINE rule == config.params[next]
<1>1. RegistryTypeOK /\ MethodsOK /\ UrlsKept /\ Admission
  BY DEF RegistryInv
<1>2. /\ phase = "params" /\ phase' = "params" /\ next' = next + 1
      /\ config' = config /\ templates' = templates /\ urls' = urls /\ optionUrls' = optionUrls
      /\ cors' = cors
      /\ methods' = IF rule.selector \notin DOMAIN methods THEN methods
                    ELSE [methods EXCEPT ![rule.selector].params = @ \cup (rule.names \ {"none"})]
  BY DEF UpdateSystemParameters
<1>3. Started /\ Started' /\ next' \in Nat \ {0}
  BY <1>1, <1>2 DEF Started, RegistryTypeOK
<1>4. /\ Entry' = Entry /\ Urls' = Urls /\ \A s : AuthInfo(s)' = AuthInfo(s)
  BY <1>2, ConfigKept
<1>5. RegistryTypeOK'
  BY <1>1, <1>2, <1>3, <1>4 DEF RegistryTypeOK
<1> HIDE DEF rule
<1> DEFINE s == rule.selector
           params == methods[s].params \cup (rule.names \ {"none"})
<1>6. /\ DOMAIN methods' = DOMAIN methods
      /\ \A k \in DOMAIN methods \ {s} : methods'[k] = methods[k]
      /\ s \in DOMAIN methods =>
           methods'[s] = MethodOf(s, methods[s].unregistered, methods[s].body, params)
  <2>1. CASE s \notin DOMAIN methods
    BY <1>2, <2>1
  <2>2. CASE s \in DOMAIN methods
    <3>1. methods' = [methods EXCEPT ![s] = [@ EXCEPT !.params = params]]
      BY <1>2, <2>2
    <3>2. methods[s] = [auth |-> AuthInfo(s), unregistered |-> methods[s].unregistered,
                        body |-> methods[s].body, params |-> methods[s].params]
      BY <1>1, <2>2 DEF MethodsOK
    <3> HIDE DEF params
    <3>3. [methods[s] EXCEPT !.params = params] =
            [auth |-> AuthInfo(s), unregistered |-> methods[s].unregistered,
             body |-> methods[s].body, params |-> params]
      BY <3>2
    <3>4. QED
      BY <2>2, <3>1, <3>3 DEF MethodOf
  <2>3. QED
    BY <2>1, <2>2
<1> HIDE DEF params
<1>7. s \in DOMAIN methods =>
        /\ methods'[s] = MethodOf(s, methods'[s].unregistered, methods'[s].body, methods'[s].params)
        /\ methods'[s].unregistered = methods[s].unregistered
  BY <1>6, MethodFields
<1>8. \A k \in DOMAIN methods : methods'[k].unregistered = methods[k].unregistered
  BY <1>6, <1>7
<1>9. MethodsOK'
  <2>1. \A k \in DOMAIN methods \ {s} :
          methods'[k] = MethodOf(k, methods'[k].unregistered, methods'[k].body, methods'[k].params)
    BY <1>1, <1>6 DEF MethodsOK, MethodOf
  <2>2. \A k \in DOMAIN methods : methods'[k].unregistered \in BOOLEAN
    BY <1>1, <1>8 DEF MethodsOK
  <2>3. QED
    BY <1>4, <1>6, <1>7, <2>1, <2>2 DEF MethodsOK, MethodOf
<1>10. MethodsMade' /\ UrlsKept' /\ TemplatesAgree' /\ OptionsMatch'
  <2>1. urls \subseteq optionUrls
    BY <1>1, <1>2 DEF UrlsKept
  <2>2. QED
    BY <1>2, <1>3, <1>6, <2>1, TemplatesKept
<1>11. Admission'
  <2>1. \A i : Used(i) /\ Used(i)'
    BY <1>2 DEF Used
  <2>2. \A k : (UsedNames(k)' <=> UsedNames(k)) /\ (UsedAllows(k)' <=> UsedAllows(k))
    BY <1>2, <2>1 DEF UsedNames, UsedAllows
  <2>3. QED
    BY <1>1, <1>2, <1>3, <1>6, <1>8, <2>2 DEF Admission
<1>12. QED
  BY <1>5, <1>9, <1>10, <1>11 DEF RegistryInv

LEMMA NextPhaseKeepsInv ==
  ASSUME RegistryInv, NextPhase
  PROVE  RegistryInv'
<1>1. RegistryTypeOK /\ MethodsOK /\ UrlsKept /\ Admission
  BY DEF RegistryInv
<1>2. /\ \/ phase = "cors" /\ urls \subseteq optionUrls /\ phase' = "usage"
         \/ phase = "usage" /\ next > Len(config.usage) /\ phase' = "params"
         \/ phase = "params" /\ phase' = "built"
      /\ next' = 1
      /\ config' = config /\ templates' = templates /\ urls' = urls /\ optionUrls' = optionUrls
      /\ cors' = cors /\ methods' = methods
  BY DEF NextPhase
<1>3. Started /\ Started' /\ next \in Nat
  BY <1>1, <1>2 DEF Started, RegistryTypeOK
<1>4. /\ Entry' = Entry /\ Urls' = Urls /\ \A s : AuthInfo(s)' = AuthInfo(s)
  BY <1>2, ConfigKept
<1>5. RegistryTypeOK'
  BY <1>1, <1>2, <1>4 DEF RegistryTypeOK
<1>6. MethodsOK'
  BY <1>1, <1>2, <1>4 DEF MethodsOK
<1>7. MethodsMade' /\ UrlsKept' /\ TemplatesAgree' /\ OptionsMatch'
  <2>1. urls \subseteq optionUrls
    BY <1>1, <1>2 DEF UrlsKept
  <2>2. QED
    BY <1>2, <1>3, <2>1, TemplatesKept
<1>8. \A i \in DOMAIN config.usage : Used(i)' <=> Used(i)
  <2>1. DOMAIN config.usage = 1..Len(config.usage) /\ DOMAIN config.usage \subseteq Nat
    BY <1>1, ConfigIsList DEF RegistryTypeOK
  <2>2. \A i \in DOMAIN config.usage : i \in Nat /\ i >= 1 /\ i <= Len(config.usage)
    BY <2>1
  <2>3. CASE phase = "cors"
    BY <1>2, <2>2, <2>3 DEF Used
  <2>4. CASE phase = "usage"
    <3>1. \A i \in DOMAIN config.usage : i < next
      BY <1>2, <1>3, <2>1, <2>4
    <3>2. QED
      BY <1>2, <2>4, <3>1 DEF Used
  <2>5. CASE phase = "params"
    BY <1>2, <2>5 DEF Used
  <2>6. QED
    BY <1>2, <2>3, <2>4, <2>5
<1>9. Admission'
  <2>1. \A k : (UsedNames(k)' <=> UsedNames(k)) /\ (UsedAllows(k)' <=> UsedAllows(k))
    BY <1>2, <1>8 DEF UsedNames, UsedAllows
  <2>2. QED
    BY <1>1, <1>2, <1>3, <2>1 DEF Admission
<1>10. QED
  BY <1>5, <1>6, <1>7, <1>9 DEF RegistryInv

-----------------------------------------------------------------------------
(* The theorem.                                                            *)

THEOREM RegistryInvariant == RegistrySpec => []RegistryInv
<1>1. RegistryInit => RegistryInv
  <2> SUFFICES ASSUME RegistryInit PROVE RegistryInv
    OBVIOUS
  <2>1. /\ config \in Configs /\ phase = "rules" /\ next = 1
        /\ DOMAIN methods = {} /\ templates = [m \in LowerMethods |-> <<>>]
        /\ urls = {} /\ optionUrls = {} /\ cors = "none"
    BY DEF RegistryInit
  <2>2. ~Started /\ (\A i : ~Used(i)) /\ \A i \in DOMAIN config.http : ~Extracted(i)
    <3>1. \A i \in DOMAIN config.http : i \in Nat /\ i >= 1
      BY <2>1, ConfigIsList
    <3>2. QED
      BY <2>1, <3>1 DEF Started, Used, Extracted
  <2>3. RegistryTypeOK
    <3>1. <<>> \in Seq(Entry)
      OBVIOUS
    <3>2. templates \in [LowerMethods -> Seq(Entry)]
      BY <2>1, <3>1
    <3>3. config \in Configs /\ phase = "rules" /\ next = 1 /\ urls = {} /\ optionUrls = {}
      BY <2>1
    <3>4. cors \in {"none"} \cup ReservedNames
      BY <2>1
    <3>5. urls \subseteq Urls \ BadUrls /\ optionUrls \subseteq urls
      BY <3>3
    <3>6. QED
      BY <3>2, <3>3, <3>4, <3>5 DEF RegistryTypeOK
  <2>4. \A m \in DOMAIN Lower : \A path :
          Matching(m, path) = {} /\ ExtractedFor(m, path) = {}
    BY <2>1, <2>2 DEF Matching, LowerMethods, ExtractedFor, DeclaredFor, Declaring, UsableRules
  <2>5. MethodsOK /\ MethodsMade /\ UrlsKept /\ Admission /\ OptionsMatch
    BY <2>1, <2>2
       DEF MethodsOK, MethodsMade, UrlsKept, Admission, OptionsMatch, UsableRules
  <2>6. TemplatesAgree
    BY <2>4 DEF TemplatesAgree, OnlyCors
  <2>7. QED
    BY <2>3, <2>5, <2>6 DEF RegistryInv
<1>2. RegistryInv /\ [RegistryNext]_registryVars => RegistryInv'
  <2> SUFFICES ASSUME RegistryInv, [RegistryNext]_registryVars PROVE RegistryInv'
    OBVIOUS
  <2>1. CASE ExtractRule
    BY <2>1, ExtractKeepsInv
  <2>2. CASE AddCorsOptions
    BY <2>2, AddCorsKeepsInv
  <2>3. CASE RegisterOptions
    BY <2>3, RegisterOptionsKeepsInv
  <2>4. CASE UpdateUsage
    BY <2>4, UsageKeepsInv
  <2>5. CASE UpdateSystemParameters
    BY <2>5, ParametersKeepInv
  <2>6. CASE NextPhase
    BY <2>6, NextPhaseKeepsInv
  <2>7. CASE UNCHANGED registryVars
    <3>1. /\ config' = config /\ phase' = phase /\ next' = next /\ methods' = methods
          /\ templates' = templates /\ urls' = urls /\ optionUrls' = optionUrls /\ cors' = cors
      BY <2>7 DEF registryVars
    <3>2. /\ RegistryTypeOK /\ MethodsOK /\ MethodsMade /\ UrlsKept /\ Admission
          /\ TemplatesAgree /\ OptionsMatch
      BY DEF RegistryInv
    <3>3. /\ Entry' = Entry /\ Urls' = Urls /\ Selectors' = Selectors /\ UsableRules' = UsableRules
          /\ \A s : AuthInfo(s)' = AuthInfo(s)
          /\ \A m, path : DeclaredFor(m, path)' = DeclaredFor(m, path)
      BY <3>1, ConfigKept
    <3>4. /\ Started' <=> Started
          /\ \A i : (Extracted(i)' <=> Extracted(i)) /\ (Used(i)' <=> Used(i))
      BY <3>1 DEF Started, Extracted, Used
    <3>5. RegistryTypeOK' /\ MethodsOK'
      BY <3>1, <3>2, <3>3 DEF RegistryTypeOK, MethodsOK
    <3>6. MethodsMade' /\ UrlsKept'
      BY <3>1, <3>2, <3>3, <3>4 DEF MethodsMade, UrlsKept
    <3>7. Admission'
      <4>1. \A k : (UsedNames(k)' <=> UsedNames(k)) /\ (UsedAllows(k)' <=> UsedAllows(k))
        BY <3>1, <3>4 DEF UsedNames, UsedAllows
      <4>2. QED
        BY <3>1, <3>2, <3>4, <4>1 DEF Admission
    <3>8. \A m, path : /\ Matching(m, path)' = Matching(m, path)
                       /\ ExtractedFor(m, path)' = ExtractedFor(m, path)
      BY <3>1, <3>3, <3>4 DEF Matching, ExtractedFor
    <3>9. OptionsMatch'
      BY <3>1, <3>2, <3>8 DEF OptionsMatch
    <3>10. TemplatesAgree'
      <4>1. \A m, path : /\ FirstAgrees(m, path) => FirstAgrees(m, path)'
                         /\ OnlyCors(m, path) => OnlyCors(m, path)'
        BY <3>1, <3>4, <3>8 DEF FirstAgrees, OnlyCors
      <4>2. QED
        BY <3>2, <3>8, <4>1 DEF TemplatesAgree
    <3>11. QED
      BY <3>5, <3>6, <3>7, <3>9, <3>10 DEF RegistryInv
  <2>8. QED
    BY <2>1, <2>2, <2>3, <2>4, <2>5, <2>6, <2>7 DEF RegistryNext
<1>3. QED
  BY <1>1, <1>2, PTL DEF RegistrySpec

\* What the invariant says of a registry that is built.
LEMMA BuiltAnswers ==
  ASSUME RegistryInv, phase = "built", NEW path \in Paths, NEW method \in DOMAIN Lower
  PROVE  LET rules == DeclaredFor(method, path)
             found == Lookup(method, path)
         IN /\ rules # {} =>
                 /\ found = config.http[Min(rules)].selector
                 /\ methods[found].auth = AuthInfo(found)
                 /\ methods[found].unregistered <=> LastAllows(found)
            /\ rules = {} /\ Lower[method] # Lower[OPTIONS] => found = "none"
            /\ rules = {} /\ Lower[method] = Lower[OPTIONS] =>
                 IF Declaring(path) = {} THEN found = "none"
                 ELSE /\ found # "none"
                      /\ \A i \in UsableRules : found # config.http[i].selector
                      /\ methods[found].unregistered <=>
                           (UsageNames(found) => LastAllows(found))
<1> DEFINE rules == DeclaredFor(method, path)
           found == Lookup(method, path)
           T == Matching(method, path)
<1>1. /\ RegistryTypeOK /\ MethodsOK /\ MethodsMade /\ UrlsKept /\ Admission
      /\ TemplatesAgree /\ OptionsMatch
  BY DEF RegistryInv
<1>2. Started /\ (\A i : Extracted(i)) /\ (\A i : Used(i))
  BY DEF Started, Extracted, Used
<1>3. ExtractedFor(method, path) = rules
  BY <1>2 DEF ExtractedFor
<1>4. \A s : (UsedNames(s) <=> UsageNames(s)) /\ (UsedAllows(s) <=> LastAllows(s))
            /\ (LastAllows(s) => UsageNames(s))
  BY <1>2 DEF UsedNames, UsageNames, UsedAllows, LastAllows
<1>5. T \subseteq Nat
  <2>1. templates[Lower[method]] \in Seq(Entry)
    BY <1>1 DEF RegistryTypeOK, LowerMethods
  <2>2. DOMAIN templates[Lower[method]] \subseteq Nat
    BY <2>1
  <2>3. QED
    BY <2>2 DEF Matching
<1>6. /\ rules \subseteq UsableRules /\ UsableRules \subseteq DOMAIN config.http
      /\ \A i \in UsableRules : Bound(config.http[i]) /\ i \in Nat
  BY <1>1, ConfigIsList DEF DeclaredFor, Declaring, UsableRules, RegistryTypeOK
<1>7. T = {} => found = "none"
  BY DEF Lookup
<1>8. CASE rules # {}
  <2>1. PICK t \in T, r \in rules :
          /\ \A u \in T : t <= u
          /\ \A q \in rules : r <= q
          /\ templates[Lower[method]][t].selector = config.http[r].selector
    BY <1>1, <1>3, <1>8 DEF TemplatesAgree, FirstAgrees
  <2>2. Min(T) = t
    <3> HIDE DEF T
    <3>1. QED
      BY <1>5, <2>1, MinIs
  <2>3. Min(rules) = r
    <3>1. rules \subseteq Nat
      BY <1>6
    <3> HIDE DEF rules
    <3>2. QED
      BY <2>1, <3>1, MinIs
  <2>4. found = config.http[Min(rules)].selector
    BY <2>1, <2>2, <2>3 DEF Lookup
  <2>5. found \in DOMAIN methods /\ found # cors
    BY <1>1, <1>2, <1>6, <2>1, <2>3, <2>4 DEF MethodsMade
  <2> HIDE DEF rules, found, T
  <2>6. methods[found].auth = AuthInfo(found)
    <3>1. methods[found] =
            [auth |-> AuthInfo(found), unregistered |-> methods[found].unregistered,
             body |-> methods[found].body, params |-> methods[found].params]
      BY <1>1, <2>5 DEF MethodsOK
    <3>2. QED
      BY <3>1
  <2>7. methods[found].unregistered <=> LastAllows(found)
    BY <1>1, <1>4, <2>5 DEF Admission
  <2>8. QED
    BY <1>8, <2>4, <2>6, <2>7 DEF rules, found
<1>9. CASE rules = {}
  <2>1. \A t \in T : /\ Lower[method] = Lower[OPTIONS]
                     /\ templates[Lower[method]][t].selector = cors
                     /\ templates[Lower[method]][t].url \in urls
    BY <1>1, <1>3, <1>9 DEF TemplatesAgree, OnlyCors
  <2>2. Lower[method] # Lower[OPTIONS] => found = "none"
    BY <1>7, <2>1
  <2>3. Declaring(path) = {} => found = "none"
    <3> SUFFICES ASSUME Declaring(path) = {}, NEW t \in T PROVE FALSE
      BY <1>7
    <3>1. path \in Matches[templates[Lower[method]][t].url]
      BY DEF Matching
    <3>2. PICK i \in UsableRules : config.http[i].url = templates[Lower[method]][t].url
      BY <1>1, <2>1 DEF UrlsKept
    <3>3. i \in Declaring(path)
      BY <3>1, <3>2 DEF Declaring
    <3>4. QED
      BY <3>3
  <2>4. ASSUME Lower[method] = Lower[OPTIONS], Declaring(path) # {}
        PROVE  found = cors
    <3>1. PICK i \in UsableRules : path \in Matches[config.http[i].url]
      BY <2>4 DEF Declaring
    <3>2. config.http[i].url \in optionUrls
      BY <1>1, <1>2 DEF UrlsKept
    <3>3. T # {}
      BY <1>1, <2>4, <3>1, <3>2 DEF OptionsMatch, Matching
    <3>4. Min(T) \in T
      <4> HIDE DEF T
      <4>1. QED
        BY <1>5, <3>3, SetHasMin
    <3>5. QED
      BY <2>1, <3>3, <3>4 DEF Lookup
  <2>5. /\ cors # "none" /\ cors \in DOMAIN methods
        /\ \A i \in UsableRules : cors # config.http[i].selector
    BY <1>1, <1>2, <1>6 DEF MethodsMade
  <2>6. methods[cors].unregistered <=> (UsageNames(cors) => LastAllows(cors))
    BY <1>1, <1>2, <1>4, <2>5 DEF Admission
  <2> HIDE DEF rules, found, T
  <2>7. QED
    BY <1>9, <2>2, <2>3, <2>4, <2>5, <2>6 DEF rules, found
<1>10. QED
  BY <1>8, <1>9

\* A built registry answers each request with the first rule that declares it, and
\* the preflights that no rule declares with a method of their own; with the
\* audiences and admission of the last rules that name the method: for every
\* configuration and set of templates.
THEOREM LookupAnswersHolds == RegistrySpec => []LookupAnswers
<1>1. RegistryInv => LookupAnswers
  BY BuiltAnswers DEF LookupAnswers
<1>2. QED
  BY <1>1, RegistryInvariant, PTL

-----------------------------------------------------------------------------
(* Reports.                                                                *)

(* Reading the configuration.                                              *)

\* The names that have been read.
LogRead(i, n) ==
  \/ stage # "logging"
  \/ i < destination
  \/ i = destination /\ n < named
MetricRead(i, n) ==
  \/ stage = "extracted"
  \/ stage = "monitoring" /\ i < destination
  \/ stage = "monitoring" /\ i = destination /\ n < named

RulesTypeOK ==
  /\ service \in Services
  /\ stage \in {"logging", "monitoring", "extracted"}
  /\ destination \in Nat \ {0} /\ named \in Nat
  /\ named > 0 => Reading

\* A metric that is used has its labels.
MetricsComplete ==
  \A m \in metrics :
    /\ m \in KnownMetrics /\ m \in DOMAIN service.metrics
    /\ \A i \in DOMAIN service.metrics[m].labels :
         LabelSupported(service.metrics[m].labels[i]) =>
           service.metrics[m].labels[i].key \in DOMAIN labels

\* What has been read and can be used is.
LogsUsed ==
  \A i \in DOMAIN service.logging : Known(service.logging[i]) =>
    \A n \in DOMAIN service.logging[i].logs :
      LogRead(i, n) /\ service.logging[i].logs[n] \in DOMAIN service.logs =>
        service.logging[i].logs[n] \in logs

Settled(m) ==
  m \in DOMAIN service.metrics /\ MetricSupported(m, service.metrics[m]) =>
    m \in metrics \/ Conflicting(labels, service.metrics[m].labels)

MetricsUsed ==
  \A i \in DOMAIN service.monitoring : Known(service.monitoring[i]) =>
    \A n \in DOMAIN service.monitoring[i].metrics :
      MetricRead(i, n) => Settled(service.monitoring[i].metrics[n])

SpecInv == RulesTypeOK /\ MetricsComplete /\ LogsUsed /\ MetricsUsed

LEMMA ServiceLists ==
  ASSUME service \in Services
  PROVE  /\ DOMAIN service.logging = 1..Len(service.logging) /\ Len(service.logging) \in Nat
         /\ DOMAIN service.monitoring = 1..Len(service.monitoring)
         /\ Len(service.monitoring) \in Nat
         /\ \A i \in DOMAIN service.logging :
              /\ DOMAIN service.logging[i].logs = 1..Len(service.logging[i].logs)
              /\ Len(service.logging[i].logs) \in Nat
         /\ \A i \in DOMAIN service.monitoring :
              /\ DOMAIN service.monitoring[i].metrics = 1..Len(service.monitoring[i].metrics)
              /\ Len(service.monitoring[i].metrics) \in Nat
BY RulesAssumption DEF IsList

\* Labels are added, never taken away or changed; without a conflict all are.
LEMMA LabelsGrow ==
  ASSUME NEW descs
  PROVE  /\ DOMAIN labels \subseteq DOMAIN WithLabels(labels, descs)
         /\ \A k \in DOMAIN labels : WithLabels(labels, descs)[k] = labels[k]
         /\ ~Conflicting(labels, descs) =>
              \A i \in DOMAIN descs :
                LabelSupported(descs[i]) => descs[i].key \in DOMAIN WithLabels(labels, descs)
<1>1. CASE Conflicting(labels, descs)
  BY <1>1 DEF WithLabels
<1>2. CASE ~Conflicting(labels, descs)
  BY <1>2 DEF WithLabels
<1>3. QED
  BY <1>1, <1>2

\* A contradiction stays one.
GrowsTo(ls, new) == DOMAIN ls \subseteq DOMAIN new /\ \A k \in DOMAIN ls : new[k] = ls[k]

LEMMA ConflictsStay ==
  ASSUME NEW ls, NEW new, GrowsTo(ls, new), NEW descs, Conflicting(ls, descs)
  PROVE  Conflicting(new, descs)
BY DEF Conflicting, GrowsTo

\* What a step that adds labels and metrics keeps.
LEMMA GrowthKeeps ==
  ASSUME SpecInv, UNCHANGED service, GrowsTo(labels, labels'), metrics \subseteq metrics', logs \subseteq logs'
  PROVE  /\ \A m \in metrics : \A i \in DOMAIN service.metrics[m].labels :
              LabelSupported(service.metrics[m].labels[i]) =>
                service.metrics[m].labels[i].key \in DOMAIN labels'
         /\ \A m : Settled(m) => Settled(m)'
<1>1. \A m : Settled(m) => Settled(m)'
  BY ConflictsStay DEF Settled
<1>2. QED
  BY <1>1 DEF SpecInv, MetricsComplete, GrowsTo

LEMMA SpecInit ==
  ASSUME RulesInit
  PROVE  SpecInv
<1>1. /\ service \in Services /\ stage = "logging" /\ destination = 1 /\ named = 0
      /\ logs = {} /\ metrics = {}
  BY DEF RulesInit
<1>2. \A i \in DOMAIN service.logging : ~(i < 1)
  BY <1>1, ServiceLists
<1>3. \A i \in DOMAIN service.logging : \A n \in DOMAIN service.logging[i].logs : ~(n < 0)
  BY <1>1, ServiceLists
<1>4. LogsUsed
  BY <1>1, <1>2, <1>3 DEF LogsUsed, LogRead
<1>5. MetricsUsed
  BY <1>1 DEF MetricsUsed, MetricRead
<1>6. QED
  BY <1>1, <1>4, <1>5 DEF SpecInv, RulesTypeOK, MetricsComplete

\* What each step adds to what has been read.
LEMMA ReadByEnter ==
  ASSUME SpecInv, EnterDestination
  PROVE  /\ \A i \in DOMAIN service.logging : Known(service.logging[i]) =>
              \A n \in DOMAIN service.logging[i].logs : LogRead(i, n)' => LogRead(i, n)
         /\ \A i \in DOMAIN service.monitoring : Known(service.monitoring[i]) =>
              \A n \in DOMAIN service.monitoring[i].metrics :
                MetricRead(i, n)' => MetricRead(i, n)
         /\ RulesTypeOK'
<1>1. /\ Reading /\ named = 0 /\ service' = service /\ stage' = stage
      /\ \/ Known(Current) /\ named' = 1 /\ destination' = destination
         \/ ~Known(Current) /\ named' = named /\ destination' = destination + 1
  BY DEF EnterDestination
<1>2. /\ service \in Services /\ destination \in Nat \ {0}
      /\ stage \in {"logging", "monitoring", "extracted"}
  BY DEF SpecInv, RulesTypeOK
<1>3. ASSUME NEW i \in DOMAIN service.logging, Known(service.logging[i]),
             NEW n \in DOMAIN service.logging[i].logs, LogRead(i, n)'
      PROVE  LogRead(i, n)
  <2>1. n \in Nat /\ n > 0 /\ i \in Nat
    BY <1>2, <1>3, ServiceLists
  <2>2. stage = "logging" => Current = service.logging[destination]
    BY DEF Current, Destinations
  <2>3. i = destination /\ stage = "logging" => Known(Current)
    BY <1>3, <2>2
  <2>4. QED
    BY <1>1, <1>2, <1>3, <2>1, <2>3 DEF LogRead
<1>4. ASSUME NEW i \in DOMAIN service.monitoring, Known(service.monitoring[i]),
             NEW n \in DOMAIN service.monitoring[i].metrics, MetricRead(i, n)'
      PROVE  MetricRead(i, n)
  <2>1. n \in Nat /\ n > 0 /\ i \in Nat
    BY <1>2, <1>4, ServiceLists
  <2>2. stage = "monitoring" => Current = service.monitoring[destination]
    BY DEF Current, Destinations
  <2>3. i = destination /\ stage = "monitoring" => Known(Current)
    BY <1>4, <2>2
  <2>4. QED
    BY <1>1, <1>2, <1>4, <2>1, <2>3 DEF MetricRead
<1>5. RulesTypeOK'
  <2>1. Destinations' = Destinations
    BY <1>1 DEF Destinations
  <2>2. (named > 0 => Reading)'
    BY <1>1, <1>2, <2>1 DEF Reading
  <2>3. QED
    BY <1>1, <1>2, <2>2 DEF RulesTypeOK
<1>6. QED
  BY <1>3, <1>4, <1>5

LEMMA ReadByLeave ==
  ASSUME SpecInv, LeaveDestination
  PROVE  /\ \A i \in DOMAIN service.logging : Known(service.logging[i]) =>
              \A n \in DOMAIN service.logging[i].logs : LogRead(i, n)' => LogRead(i, n)
         /\ \A i \in DOMAIN service.monitoring : Known(service.monitoring[i]) =>
              \A n \in DOMAIN service.monitoring[i].metrics :
                MetricRead(i, n)' => MetricRead(i, n)
         /\ RulesTypeOK'
<1>1. /\ Reading /\ named > Len(Names) /\ service' = service /\ stage' = stage
      /\ named' = 0 /\ destination' = destination + 1
  BY DEF LeaveDestination
<1>2. /\ service \in Services /\ destination \in Nat \ {0} /\ named \in Nat
      /\ stage \in {"logging", "monitoring", "extracted"}
  BY DEF SpecInv, RulesTypeOK
<1>3. ASSUME NEW i \in DOMAIN service.logging,
             NEW n \in DOMAIN service.logging[i].logs, LogRead(i, n)'
      PROVE  LogRead(i, n)
  <2>1. n \in 1..Len(service.logging[i].logs) /\ i \in Nat /\ Len(service.logging[i].logs) \in Nat
    BY <1>2, <1>3, ServiceLists
  <2>2. i = destination /\ stage = "logging" => Names = service.logging[i].logs
    BY DEF Names, Current, Destinations
  <2>3. i = destination /\ stage = "logging" => n < named
    BY <1>1, <1>2, <2>1, <2>2
  <2>4. QED
    BY <1>1, <1>2, <1>3, <2>1, <2>3 DEF LogRead
<1>4. ASSUME NEW i \in DOMAIN service.monitoring,
             NEW n \in DOMAIN service.monitoring[i].metrics, MetricRead(i, n)'
      PROVE  MetricRead(i, n)
  <2>1. /\ n \in 1..Len(service.monitoring[i].metrics) /\ i \in Nat
        /\ Len(service.monitoring[i].metrics) \in Nat
    BY <1>2, <1>4, ServiceLists
  <2>2. i = destination /\ stage = "monitoring" => Names = service.monitoring[i].metrics
    BY DEF Names, Current, Destinations
  <2>3. i = destination /\ stage = "monitoring" => n < named
    BY <1>1, <1>2, <2>1, <2>2
  <2>4. QED
    BY <1>1, <1>2, <1>4, <2>1, <2>3 DEF MetricRead
<1>5. RulesTypeOK'
  BY <1>1, <1>2 DEF RulesTypeOK
<1>6. QED
  BY <1>3, <1>4, <1>5

LEMMA ReadByStage ==
  ASSUME SpecInv, NextStage
  PROVE  /\ \A i \in DOMAIN service.logging : Known(service.logging[i]) =>
              \A n \in DOMAIN service.logging[i].logs : LogRead(i, n)' => LogRead(i, n)
         /\ \A i \in DOMAIN service.monitoring : Known(service.monitoring[i]) =>
              \A n \in DOMAIN service.monitoring[i].metrics :
                MetricRead(i, n)' => MetricRead(i, n)
         /\ RulesTypeOK'
<1>1. /\ stage # "extracted" /\ destination > Len(Destinations) /\ service' = service
      /\ stage' = IF stage = "logging" THEN "monitoring" ELSE "extracted"
      /\ destination' = 1 /\ named' = named
  BY DEF NextStage
<1>2. /\ service \in Services /\ destination \in Nat \ {0} /\ named \in Nat
      /\ stage \in {"logging", "monitoring", "extracted"} /\ (named > 0 => Reading)
  BY DEF SpecInv, RulesTypeOK
<1>3. DOMAIN Destinations = 1..Len(Destinations) /\ Len(Destinations) \in Nat
  BY <1>2, ServiceLists DEF Destinations
<1>4. named = 0
  BY <1>1, <1>2, <1>3 DEF Reading
<1>5. ASSUME NEW i \in DOMAIN service.logging PROVE stage = "logging" => i < destination
  BY <1>1, <1>2, <1>3 DEF Destinations
<1>6. ASSUME NEW i \in DOMAIN service.monitoring PROVE stage = "monitoring" => i < destination
  BY <1>1, <1>2, <1>3 DEF Destinations
<1>7. ASSUME NEW i \in DOMAIN service.logging,
             NEW n \in DOMAIN service.logging[i].logs, LogRead(i, n)'
      PROVE  LogRead(i, n)
  BY <1>2, <1>5, <1>7 DEF LogRead
<1>8. ASSUME NEW i \in DOMAIN service.monitoring,
             NEW n \in DOMAIN service.monitoring[i].metrics, MetricRead(i, n)'
      PROVE  MetricRead(i, n)
  <2>1. n \in Nat /\ n > 0 /\ i \in Nat /\ i > 0
    BY <1>2, <1>8, ServiceLists
  <2>2. QED
    BY <1>1, <1>2, <1>4, <1>6, <1>8, <2>1 DEF MetricRead
<1>9. RulesTypeOK'
  BY <1>1, <1>2, <1>4 DEF RulesTypeOK
<1>10. QED
  BY <1>7, <1>8, <1>9

\* ReadLog and ReadMetric read one more name.
LEMMA ReadByName ==
  ASSUME SpecInv, ReadLog \/ ReadMetric
  PROVE  /\ \A i \in DOMAIN service.logging : \A n \in DOMAIN service.logging[i].logs :
              LogRead(i, n)' =>
                \/ LogRead(i, n)
                \/ stage = "logging" /\ service.logging[i].logs[n] = Names[named]
         /\ \A i \in DOMAIN service.monitoring :
              \A n \in DOMAIN service.monitoring[i].metrics :
                MetricRead(i, n)' =>
                  \/ MetricRead(i, n)
                  \/ stage = "monitoring" /\ service.monitoring[i].metrics[n] = Names[named]
         /\ RulesTypeOK'
<1>1. /\ Reading /\ service' = service /\ stage' = stage
      /\ destination' = destination /\ named' = named + 1
  BY DEF ReadLog, ReadMetric
<1>2. /\ service \in Services /\ destination \in Nat \ {0} /\ named \in Nat
      /\ stage \in {"logging", "monitoring", "extracted"}
  BY DEF SpecInv, RulesTypeOK
<1>3. ASSUME NEW i \in DOMAIN service.logging, NEW n \in DOMAIN service.logging[i].logs,
             LogRead(i, n)', ~LogRead(i, n)
      PROVE  stage = "logging" /\ service.logging[i].logs[n] = Names[named]
  <2>1. n \in Nat /\ i \in Nat
    BY <1>2, ServiceLists
  <2>2. stage = "logging" /\ i = destination /\ n = named
    BY <1>1, <1>2, <1>3, <2>1 DEF LogRead
  <2>3. QED
    BY <2>2 DEF Names, Current, Destinations
<1>4. ASSUME NEW i \in DOMAIN service.monitoring,
             NEW n \in DOMAIN service.monitoring[i].metrics, MetricRead(i, n)', ~MetricRead(i, n)
      PROVE  stage = "monitoring" /\ service.monitoring[i].metrics[n] = Names[named]
  <2>1. n \in Nat /\ i \in Nat
    BY <1>2, ServiceLists
  <2>2. stage = "monitoring" /\ i = destination /\ n = named
    BY <1>1, <1>2, <1>4, <2>1 DEF MetricRead
  <2>3. QED
    BY <2>2 DEF Names, Current, Destinations
<1>5. RulesTypeOK'
  <2>1. Destinations' = Destinations
    BY <1>1 DEF Destinations
  <2>2. Reading'
    BY <1>1, <2>1 DEF Reading
  <2>3. QED
    BY <1>1, <1>2, <2>2 DEF RulesTypeOK
<1>6. QED
  BY <1>3, <1>4, <1>5

\* A step that reads no name, and may add labels.
LEMMA NothingReadKeepsInv ==
  ASSUME SpecInv, UNCHANGED <<service, logs, metrics>>, GrowsTo(labels, labels'),
         EnterDestination \/ LeaveDestination \/ NextStage
  PROVE  SpecInv'
<1>1. /\ \A i \in DOMAIN service.logging : Known(service.logging[i]) =>
           \A n \in DOMAIN service.logging[i].logs : LogRead(i, n)' => LogRead(i, n)
      /\ \A i \in DOMAIN service.monitoring : Known(service.monitoring[i]) =>
           \A n \in DOMAIN service.monitoring[i].metrics :
             MetricRead(i, n)' => MetricRead(i, n)
      /\ RulesTypeOK'
  BY ReadByEnter, ReadByLeave, ReadByStage
<1>2. /\ \A m \in metrics : \A i \in DOMAIN service.metrics[m].labels :
           LabelSupported(service.metrics[m].labels[i]) =>
             service.metrics[m].labels[i].key \in DOMAIN labels'
      /\ \A m : Settled(m) => Settled(m)'
  BY GrowthKeeps
<1>3. \A d : Known(d)' <=> Known(d)
  BY DEF Known
<1>4. MetricsComplete'
  BY <1>2 DEF SpecInv, MetricsComplete
<1>5. LogsUsed'
  BY <1>1, <1>3 DEF SpecInv, LogsUsed
<1>6. MetricsUsed'
  BY <1>1, <1>2, <1>3 DEF SpecInv, MetricsUsed
<1>7. QED
  BY <1>1, <1>4, <1>5, <1>6 DEF SpecInv

LEMMA ReadLogKeepsInv ==
  ASSUME SpecInv, ReadLog
  PROVE  SpecInv'
<1>1. /\ UNCHANGED <<service, metrics>> /\ stage = "logging" /\ stage' = stage
      /\ LET log == Names[named] IN
         IF log \in DOMAIN service.logs
           THEN labels' = WithLabels(labels, service.logs[log]) /\ logs' = logs \cup {log}
           ELSE UNCHANGED <<labels, logs>>
  BY DEF ReadLog
<1>2. /\ GrowsTo(labels, labels') /\ logs \subseteq logs'
      /\ Names[named] \in DOMAIN service.logs => Names[named] \in logs'
  BY <1>1, LabelsGrow DEF GrowsTo
<1>3. /\ \A i \in DOMAIN service.logging : \A n \in DOMAIN service.logging[i].logs :
           LogRead(i, n)' =>
             \/ LogRead(i, n)
             \/ stage = "logging" /\ service.logging[i].logs[n] = Names[named]
      /\ RulesTypeOK'
  BY ReadByName
<1>4. /\ \A m \in metrics : \A i \in DOMAIN service.metrics[m].labels :
           LabelSupported(service.metrics[m].labels[i]) =>
             service.metrics[m].labels[i].key \in DOMAIN labels'
      /\ \A m : Settled(m) => Settled(m)'
  BY <1>1, <1>2, GrowthKeeps
<1>5. \A d : Known(d)' <=> Known(d)
  BY <1>1 DEF Known
<1>6. MetricsComplete'
  BY <1>1, <1>4 DEF SpecInv, MetricsComplete
<1>7. LogsUsed'
  <2>1. SUFFICES ASSUME NEW i \in DOMAIN service.logging, Known(service.logging[i]),
                        NEW n \in DOMAIN service.logging[i].logs, LogRead(i, n)',
                        service.logging[i].logs[n] \in DOMAIN service.logs
                 PROVE  service.logging[i].logs[n] \in logs'
    BY <1>1, <1>5 DEF LogsUsed
  <2>2. LogRead(i, n) => service.logging[i].logs[n] \in logs
    BY <2>1 DEF SpecInv, LogsUsed
  <2>3. QED
    BY <1>2, <1>3, <2>1, <2>2
<1>8. MetricsUsed'
  <2>1. \A i, n : ~MetricRead(i, n)'
    BY <1>1 DEF MetricRead
  <2>2. QED
    BY <2>1 DEF MetricsUsed
<1>9. QED
  BY <1>3, <1>6, <1>7, <1>8 DEF SpecInv

LEMMA ReadMetricKeepsInv ==
  ASSUME SpecInv, ReadMetric
  PROVE  SpecInv'
<1>0. PICK name : name = Names[named]
  OBVIOUS
<1>1. /\ UNCHANGED <<service, logs>> /\ stage = "monitoring" /\ stage' = stage
      /\ IF MetricUsable(name)
           THEN /\ labels' = WithLabels(labels, service.metrics[name].labels)
                /\ metrics' = metrics \cup {name}
           ELSE UNCHANGED <<labels, metrics>>
  BY <1>0 DEF ReadMetric
<1>2. GrowsTo(labels, labels') /\ metrics \subseteq metrics'
  BY <1>1, LabelsGrow DEF GrowsTo
<1>3. /\ \A i \in DOMAIN service.monitoring :
           \A n \in DOMAIN service.monitoring[i].metrics :
             MetricRead(i, n)' =>
               \/ MetricRead(i, n)
               \/ stage = "monitoring" /\ service.monitoring[i].metrics[n] = name
      /\ RulesTypeOK'
  BY <1>0, ReadByName
<1>4. /\ \A m \in metrics : \A i \in DOMAIN service.metrics[m].labels :
           LabelSupported(service.metrics[m].labels[i]) =>
             service.metrics[m].labels[i].key \in DOMAIN labels'
      /\ \A m : Settled(m) => Settled(m)'
  BY <1>1, <1>2, GrowthKeeps
<1>5. \A d : Known(d)' <=> Known(d)
  BY <1>1 DEF Known
<1>6. MetricsComplete'
  <2>1. CASE MetricUsable(name)
    <3>1. /\ name \in KnownMetrics /\ name \in DOMAIN service.metrics
          /\ ~Conflicting(labels, service.metrics[name].labels)
      BY <2>1 DEF MetricUsable, MetricSupported
    <3>2. \A i \in DOMAIN service.metrics[name].labels :
            LabelSupported(service.metrics[name].labels[i]) =>
              service.metrics[name].labels[i].key \in DOMAIN labels'
      BY <1>1, <2>1, <3>1, LabelsGrow
    <3>3. QED
      BY <1>1, <1>4, <2>1, <3>1, <3>2 DEF SpecInv, MetricsComplete
  <2>2. CASE ~MetricUsable(name)
    BY <1>1, <1>4, <2>2 DEF SpecInv, MetricsComplete
  <2>3. QED
    BY <2>1, <2>2
<1>7. LogsUsed'
  <2>1. \A i, n : LogRead(i, n)
    BY <1>1 DEF LogRead
  <2>2. QED
    BY <1>1, <1>5, <2>1 DEF SpecInv, LogsUsed
<1>8. Settled(name)'
  <2>1. CASE MetricUsable(name)
    BY <1>1, <2>1 DEF Settled
  <2>2. CASE ~MetricUsable(name)
    <3>1. Settled(name)
      BY <2>2 DEF Settled, MetricUsable
    <3>2. QED
      BY <1>4, <3>1
  <2>3. QED
    BY <2>1, <2>2
<1>9. MetricsUsed'
  <2>1. SUFFICES ASSUME NEW i \in DOMAIN service.monitoring, Known(service.monitoring[i]),
                        NEW n \in DOMAIN service.monitoring[i].metrics, MetricRead(i, n)'
                 PROVE  Settled(service.monitoring[i].metrics[n])'
    BY <1>1, <1>5 DEF MetricsUsed
  <2>2. CASE MetricRead(i, n)
    <3>1. Settled(service.monitoring[i].metrics[n])
      BY <2>1, <2>2 DEF SpecInv, MetricsUsed
    <3>2. QED
      BY <1>1, <1>4, <3>1
  <2>3. CASE service.monitoring[i].metrics[n] = name
    BY <1>1, <1>8, <2>3 DEF Settled
  <2>4. QED
    BY <1>3, <2>1, <2>2, <2>3
<1>10. QED
  BY <1>3, <1>6, <1>7, <1>8, <1>9 DEF SpecInv

LEMMA ReadKeepsInv ==
  ASSUME SpecInv, UNCHANGED <<service, stage, destination, named, labels, logs, metrics>>
  PROVE  SpecInv'
<1>1. RulesTypeOK'
  BY DEF SpecInv, RulesTypeOK, Reading, Destinations
<1>2. MetricsComplete'
  BY DEF SpecInv, MetricsComplete
<1>3. LogsUsed'
  BY DEF SpecInv, LogsUsed, LogRead, Known
<1>4. MetricsUsed'
  BY DEF SpecInv, MetricsUsed, MetricRead, Known, Settled
<1>5. QED
  BY <1>1, <1>2, <1>3, <1>4 DEF SpecInv

\* The reading keeps to the configuration.
THEOREM SpecInvariant == RulesSpec => []SpecInv
<1>1. RulesInit => SpecInv
  BY SpecInit
<1>2. SpecInv /\ [RulesNext]_rulesVars => SpecInv'
  <2>1. SUFFICES ASSUME SpecInv, [RulesNext]_rulesVars PROVE SpecInv'
    OBVIOUS
  <2>2. CASE EnterDestination
    <3>1. UNCHANGED <<service, logs, metrics>> /\ GrowsTo(labels, labels')
      BY <2>2, LabelsGrow DEF EnterDestination, GrowsTo
    <3>2. QED
      BY <2>1, <2>2, <3>1, NothingReadKeepsInv
  <2>3. CASE LeaveDestination \/ NextStage
    <3>1. UNCHANGED <<service, logs, metrics>> /\ GrowsTo(labels, labels')
      BY <2>3 DEF LeaveDestination, NextStage, GrowsTo
    <3>2. QED
      BY <2>1, <2>3, <3>1, NothingReadKeepsInv
  <2>4. CASE ReadLog
    BY <2>1, <2>4, ReadLogKeepsInv
  <2>5. CASE ReadMetric
    BY <2>1, <2>5, ReadMetricKeepsInv
  <2>6. CASE \E info \in Infos : Report(info)
    <3>1. UNCHANGED <<service, stage, destination, named, labels, logs, metrics>>
      BY <2>6 DEF Report
    <3>2. QED
      BY <2>1, <3>1, ReadKeepsInv
  <2>7. CASE MergeMetric \/ UNCHANGED rulesVars
    <3>1. UNCHANGED <<service, stage, destination, named, labels, logs, metrics>>
      BY <2>7 DEF MergeMetric, rulesVars
    <3>2. QED
      BY <2>1, <3>1, ReadKeepsInv
  <2>8. QED
    BY <2>1, <2>2, <2>3, <2>4, <2>5, <2>6, <2>7 DEF RulesNext
<1>3. QED
  BY <1>1, <1>2, PTL DEF RulesSpec

\* What is reported is complete, whatever the configuration.
THEOREM SpecCompleteHolds == RulesSpec => []SpecComplete
<1>1. SpecInv => SpecComplete
  <2>1. SUFFICES ASSUME SpecInv, stage = "extracted" PROVE SpecComplete
    BY DEF SpecComplete
  <2>2. \A i, n : LogRead(i, n) /\ MetricRead(i, n)
    BY <2>1 DEF LogRead, MetricRead
  <2>3. \A i \in DOMAIN service.logging :
          service.logging[i].resource \in DOMAIN service.resources =>
            ToSet(service.logging[i].logs) \cap DOMAIN service.logs \subseteq logs
    BY <2>1, <2>2 DEF SpecInv, LogsUsed, Known, ToSet
  <2>4. \A i \in DOMAIN service.monitoring :
          service.monitoring[i].resource \in DOMAIN service.resources =>
            \A m \in ToSet(service.monitoring[i].metrics) : Settled(m)
    BY <2>1, <2>2 DEF SpecInv, MetricsUsed, Known, ToSet
  <2>5. QED
    BY <2>1, <2>3, <2>4 DEF SpecComplete, SpecInv, MetricsComplete, Settled
<1>2. QED
  BY <1>1, SpecInvariant, PTL

-----------------------------------------------------------------------------
(* What is reported.                                                       *)

\* The reports of which a metric is in the merged operation.
MergedIn(m, s) ==
  {i \in Of(s) : About(m, reported[i]) /\ ~(m \in pending /\ i = Len(reported))}

\* Reports follow the reading; what is pending is about the last of them.
ReportsOK ==
  /\ reported \in Seq(Infos) /\ Len(reported) <= MaxReports
  /\ stage # "extracted" => reported = <<>>
  /\ IsFiniteSet(logs)
  /\ pending \subseteq metrics
  /\ pending # {} => reported # <<>> /\ \A m \in pending : About(m, Last(reported))

\* An aggregator that has not raised.
Aggregates(a) ==
  a = [logs |-> a.logs, end_time |-> a.end_time, values |-> a.values, raised |-> FALSE]

\* There is an aggregator of each signature, and none has raised.
HeldOK ==
  /\ DOMAIN held = {SignatureOf(reported[i]) : i \in DOMAIN reported}
  /\ \A s \in DOMAIN held : Aggregates(held[s])

\* Every report left its log entries.
LogsCounted ==
  \A s \in DOMAIN held :
    /\ held[s].logs \in Seq(logs \X {"ERROR", "INFO"})
    /\ Len(held[s].logs) = Cardinality(Of(s)) * Cardinality(logs)

\* A value of a metric is the number of its reports, and it has a value if there
\* is one.
KeysCounted ==
  \A s \in DOMAIN held :
    DOMAIN held[s].values = {ValueOf(m).key : m \in {x \in metrics : MergedIn(x, s) # {}}}
ValuesCounted ==
  \A s \in DOMAIN held : \A m \in metrics :
    MergedIn(m, s) # {} =>
      held[s].values[ValueOf(m).key] =
        [type |-> ValueOf(m).value.type, val |-> Cardinality(MergedIn(m, s)),
         buckets |-> ValueOf(m).value.buckets, start_time |-> 0, end_time |-> 0]

CountsInv == ReportsOK /\ HeldOK /\ LogsCounted /\ KeysCounted /\ ValuesCounted

\* The sets of reports are finite.
LEMMA CountsAreFinite ==
  ASSUME ReportsOK, NEW s
  PROVE  /\ IsFiniteSet(Of(s)) /\ Cardinality(Of(s)) \in Nat
         /\ \A I \in SUBSET DOMAIN reported :
              IsFiniteSet(I) /\ Cardinality(I) \in Nat /\ Cardinality(I) <= MaxReports
         /\ MaxReports \in Nat
<1>1. /\ DOMAIN reported = 1..Len(reported) /\ Len(reported) \in Nat
      /\ Len(reported) <= MaxReports /\ MaxReports \in Nat
  BY RulesAssumption DEF ReportsOK
<1>2. IsFiniteSet(1..Len(reported)) /\ Cardinality(1..Len(reported)) = Len(reported)
  <2>1. \A b \in Int : /\ IsFiniteSet(1..b)
                       /\ Cardinality(1..b) = IF 1 > b THEN 0 ELSE b - 1 + 1
    BY 1 \in Int, FS_Interval, Zenon
  <2>2. Len(reported) \in Int
    BY <1>1
  <2>3. QED
    BY <1>1, <2>1, <2>2
<1>3. ASSUME NEW I \in SUBSET DOMAIN reported
      PROVE  IsFiniteSet(I) /\ Cardinality(I) \in Nat /\ Cardinality(I) <= MaxReports
  <2>1. IsFiniteSet(I) /\ Cardinality(I) <= Len(reported)
    BY <1>1, <1>2, FS_Subset
  <2>2. Cardinality(I) \in Nat
    BY <2>1, FS_CardinalityType
  <2>3. QED
    BY <1>1, <2>1, <2>2
<1>4. Of(s) \in SUBSET DOMAIN reported
  BY DEF Of
<1>5. QED
  BY <1>1, <1>3, <1>4

\* A set's sequence is as long as the set.
LEMMA SequenceOfSet ==
  ASSUME NEW T, IsFiniteSet(T)
  PROVE  SetToSeq(T) \in Seq(T) /\ Len(SetToSeq(T)) = Cardinality(T)
<1>1. Cardinality(T) \in Nat /\ ExistsBijection(1..Cardinality(T), T)
  BY FS_CardinalityType
<1>2. PICK f : f \in [1..Cardinality(T) -> T] /\ IsInjective(f)
  BY <1>1 DEF ExistsBijection, Bijection, Injection, IsInjective
<1>3. SetToSeq(T) \in [1..Cardinality(T) -> T]
  BY <1>2 DEF SetToSeq
<1>4. QED
  BY <1>1, <1>3

\* A report has an entry in every log.
LEMMA LogsOfReport ==
  ASSUME ReportsOK, NEW info
  PROVE  /\ LogsOf(info) \in Seq(logs \X {"ERROR", "INFO"})
         /\ Len(LogsOf(info)) = Cardinality(logs) /\ Cardinality(logs) \in Nat
<1> DEFINE grade == IF info.response_code >= 400 THEN "ERROR" ELSE "INFO"
           entries == {<<l, grade>> : l \in logs}
           entry == [l \in logs |-> <<l, grade>>]
<1>1. IsFiniteSet(logs)
  BY DEF ReportsOK
<1>2. entry \in Bijection(logs, entries)
  BY DEF Bijection, Injection, Surjection, IsInjective
<1>3. ExistsBijection(logs, entries)
  BY <1>2 DEF ExistsBijection
<1>4. grade \in {"ERROR", "INFO"}
  OBVIOUS
<1>5. LogsOf(info) = SetToSeq(entries)
  BY DEF LogsOf
<1>6. entries \subseteq logs \X {"ERROR", "INFO"}
  BY <1>4
<1> HIDE DEF grade, entries
<1>7. IsFiniteSet(entries) /\ Cardinality(entries) = Cardinality(logs)
  BY <1>1, <1>3, FS_Bijection
<1>8. SetToSeq(entries) \in Seq(entries) /\ Len(SetToSeq(entries)) = Cardinality(entries)
  BY <1>7, SequenceOfSet
<1>9. SetToSeq(entries) \in Seq(logs \X {"ERROR", "INFO"})
  BY <1>6, <1>8
<1>10. QED
  BY <1>1, <1>5, <1>7, <1>8, <1>9, FS_CardinalityType

\* While the configuration is read nothing is reported.
LEMMA ReadingCounts ==
  ASSUME CountsInv,
         EnterDestination \/ ReadLog \/ ReadMetric \/ LeaveDestination \/ NextStage
  PROVE  CountsInv'
<1>1. /\ stage # "extracted" /\ UNCHANGED <<held, pending, reported>>
      /\ metrics \subseteq metrics'
      /\ logs' = logs \/ \E log : logs' = logs \cup {log}
  BY DEF EnterDestination, ReadLog, ReadMetric, LeaveDestination, NextStage, Reading
<1>2. /\ reported = <<>> /\ pending = {} /\ IsFiniteSet(logs) /\ Len(reported) <= MaxReports
      /\ reported \in Seq(Infos)
  BY <1>1 DEF CountsInv, ReportsOK
<1>3. DOMAIN held = {}
  BY <1>2 DEF CountsInv, HeldOK
<1>4. IsFiniteSet(logs')
  BY <1>1, <1>2, FS_AddElement
<1>5. ReportsOK'
  BY <1>1, <1>2, <1>4 DEF ReportsOK
<1>6. HeldOK'
  BY <1>1, <1>2, <1>3 DEF HeldOK
<1>7. LogsCounted' /\ KeysCounted' /\ ValuesCounted'
  BY <1>1, <1>3 DEF LogsCounted, KeysCounted, ValuesCounted
<1>8. QED
  BY <1>5, <1>6, <1>7 DEF CountsInv

\* A report is one more of its signature, and of no metric yet.
LEMMA ReportAdds ==
  ASSUME CountsInv, NEW info \in Infos, Report(info), NEW sig, sig = SignatureOf(info)
  PROVE  /\ \A x : SignatureOf(x)' = SignatureOf(x)
         /\ reported' \in Seq(Infos)
         /\ Len(reported) \in Nat /\ DOMAIN reported = 1..Len(reported)
         /\ Len(reported') = Len(reported) + 1
         /\ DOMAIN reported' = DOMAIN reported \cup {Len(reported) + 1}
         /\ Len(reported) + 1 \notin DOMAIN reported
         /\ reported'[Len(reported) + 1] = info
         /\ \A i \in DOMAIN reported : reported'[i] = reported[i]
         /\ Of(sig)' = Of(sig) \cup {Len(reported) + 1}
         /\ \A s : s # sig => Of(s)' = Of(s)
         /\ \A m \in metrics : \A s : MergedIn(m, s)' = MergedIn(m, s)
<1>1. /\ reported' = Append(reported, info) /\ pending' = MetricsOf(info) /\ pending = {}
      /\ UNCHANGED <<labels, logs, metrics>>
  BY DEF Report
<1>2. \A x : SignatureOf(x)' = SignatureOf(x)
  BY <1>1 DEF SignatureOf, LabelsOf, RuleLabels
<1>3. /\ reported' \in Seq(Infos)
      /\ Len(reported) \in Nat /\ DOMAIN reported = 1..Len(reported)
      /\ Len(reported') = Len(reported) + 1
      /\ DOMAIN reported' = DOMAIN reported \cup {Len(reported) + 1}
      /\ Len(reported) + 1 \notin DOMAIN reported
      /\ reported'[Len(reported) + 1] = info
      /\ \A i \in DOMAIN reported : reported'[i] = reported[i]
  BY <1>1 DEF CountsInv, ReportsOK
<1>4. Of(sig)' = Of(sig) \cup {Len(reported) + 1}
  BY <1>2, <1>3 DEF Of
<1>5. ASSUME NEW s, s # sig PROVE Of(s)' = Of(s)
  BY <1>2, <1>3, <1>5 DEF Of
<1>6. ASSUME NEW m \in metrics, NEW s PROVE MergedIn(m, s)' = MergedIn(m, s)
  <2>1. m \in pending' <=> About(m, info)
    BY <1>1, <1>6 DEF MetricsOf
  <2>2. MergedIn(m, s) = {i \in Of(s) : About(m, reported[i])}
    BY <1>1 DEF MergedIn
  <2>3. MergedIn(m, s)' = {i \in Of(s)' : About(m, reported'[i])
                                         /\ ~(m \in pending' /\ i = Len(reported) + 1)}
    BY <1>3 DEF MergedIn
  <2>4. Of(s) \subseteq DOMAIN reported
    BY DEF Of
  <2>5. Of(s)' = Of(s) \/ Of(s)' = Of(s) \cup {Len(reported) + 1}
    BY <1>4, <1>5
  <2>6. ASSUME NEW i
        PROVE  i \in Of(s)' /\ About(m, reported'[i])
                            /\ ~(m \in pending' /\ i = Len(reported) + 1)
               <=> i \in Of(s) /\ About(m, reported[i])
    <3>1. CASE i = Len(reported) + 1
      BY <1>3, <2>1, <2>4, <3>1
    <3>2. CASE i # Len(reported) + 1
      BY <1>3, <2>4, <2>5, <3>2
    <3>3. QED
      BY <3>1, <3>2
  <2>7. QED
    BY <2>2, <2>3, <2>6
<1>7. QED
  BY <1>2, <1>3, <1>4, <1>5, <1>6

\* Replacing fields of an aggregator, or of a value.
AggregatorOf(l, e, v) == [logs |-> l, end_time |-> e, values |-> v, raised |-> FALSE]
AggregatorWith(a, x, y) == [a EXCEPT !.logs = x, !.end_time = y, !.raised = FALSE]
NumberOf(t, u, n, b, e) ==
  [type |-> t, val |-> n, buckets |-> u, start_time |-> b, end_time |-> e]
NumberWith(a, x, y, z) == [a EXCEPT !.val = x, !.start_time = y, !.end_time = z]

LEMMA AggregatorReplaced ==
  ASSUME NEW l, NEW e, NEW v, NEW x, NEW y
  PROVE  AggregatorWith(AggregatorOf(l, e, v), x, y) = AggregatorOf(x, y, v)
<1>1. PICK a0 : a0 = AggregatorOf(l, e, v)
  OBVIOUS
<1>2. PICK a1 : a1 = [a0 EXCEPT !.logs = x]
  OBVIOUS
<1>3. a1 = AggregatorOf(x, e, v)
  BY <1>2, <1>1 DEF AggregatorOf
<1>4. PICK a2 : a2 = [a1 EXCEPT !.end_time = y]
  OBVIOUS
<1>5. a2 = AggregatorOf(x, y, v)
  BY <1>4, <1>3 DEF AggregatorOf
<1>6. PICK a3 : a3 = [a2 EXCEPT !.raised = FALSE]
  OBVIOUS
<1>7. a3 = AggregatorOf(x, y, v)
  BY <1>6, <1>5 DEF AggregatorOf
<1>8. AggregatorWith(a0, x, y) =
        [[[a0 EXCEPT !.logs = x] EXCEPT !.end_time = y] EXCEPT !.raised = FALSE]
  BY DEF AggregatorWith
<1>9. QED
  BY <1>1, <1>2, <1>4, <1>6, <1>7, <1>8, Zenon

LEMMA NumberReplaced ==
  ASSUME NEW t, NEW u, NEW n, NEW b, NEW e, NEW x, NEW y, NEW z
  PROVE  NumberWith(NumberOf(t, u, n, b, e), x, y, z) = NumberOf(t, u, x, y, z)
<1>1. PICK a0 : a0 = NumberOf(t, u, n, b, e)
  OBVIOUS
<1>2. PICK a1 : a1 = [a0 EXCEPT !.val = x]
  OBVIOUS
<1>3. a1 = NumberOf(t, u, x, b, e)
  BY <1>2, <1>1 DEF NumberOf
<1>4. PICK a2 : a2 = [a1 EXCEPT !.start_time = y]
  OBVIOUS
<1>5. a2 = NumberOf(t, u, x, y, e)
  BY <1>4, <1>3 DEF NumberOf
<1>6. PICK a3 : a3 = [a2 EXCEPT !.end_time = z]
  OBVIOUS
<1>7. a3 = NumberOf(t, u, x, y, z)
  BY <1>6, <1>5 DEF NumberOf
<1>8. NumberWith(a0, x, y, z) =
        [[[a0 EXCEPT !.val = x] EXCEPT !.start_time = y] EXCEPT !.end_time = z]
  BY DEF NumberWith
<1>9. QED
  BY <1>1, <1>2, <1>4, <1>6, <1>7, <1>8, Zenon

\* Its logs are merged, whether its signature is new or not.
LEMMA ReportHolds ==
  ASSUME CountsInv, NEW info \in Infos, Report(info), NEW sig, sig = SignatureOf(info)
  PROVE  /\ DOMAIN held' = DOMAIN held \cup {sig}
         /\ \A s \in DOMAIN held : s # sig => held'[s] = held[s]
         /\ sig \in DOMAIN held =>
              /\ held'[sig].logs = held[sig].logs \o LogsOf(info)
              /\ held'[sig].values = held[sig].values
         /\ sig \notin DOMAIN held =>
              held'[sig].logs = LogsOf(info) /\ held'[sig].values = [k \in {} |-> 0]
         /\ Aggregates(held'[sig])
<1>1. PICK op : op = OperationOf(info)
  OBVIOUS
<1>2. op = [logs |-> LogsOf(info), start_time |-> 0, end_time |-> 0]
  BY <1>1 DEF OperationOf
<1>3. held' = [s \in DOMAIN held \cup {sig} |->
                 IF s # sig THEN held[s]
                 ELSE IF sig \in DOMAIN held THEN Extended(held[sig], op)
                 ELSE Opened(op)]
  BY <1>1 DEF Report
<1>4. ASSUME sig \in DOMAIN held
      PROVE  /\ held'[sig].logs = held[sig].logs \o LogsOf(info)
             /\ held'[sig].values = held[sig].values
             /\ Aggregates(held'[sig])
  <2>1. PICK l, e, v : held[sig] = [logs |-> l, end_time |-> e, values |-> v, raised |-> FALSE]
    BY <1>4, Zenon DEF CountsInv, HeldOK, Aggregates
  <2>2. held'[sig] = Extended(held[sig], op)
    BY <1>3, <1>4
  <2>3. op.logs = LogsOf(info) /\ op.end_time = 0 /\ op.start_time = 0
    BY <1>2
  <2>4. held'[sig] = [held[sig] EXCEPT
          !.logs = held[sig].logs \o op.logs,
          !.end_time = IF op.start_time # 0 THEN held[sig].end_time
                       ELSE Later(op.end_time, held[sig].end_time),
          !.raised = held[sig].raised \/ op.start_time # 0]
    BY <2>2, Zenon DEF Extended
  <2>5. held[sig].logs = l /\ held[sig].values = v /\ held[sig].raised = FALSE
    BY <2>1
  <2>6. PICK x : x = held[sig].logs \o op.logs
    OBVIOUS
  <2>7. PICK y : held'[sig] = [logs |-> x, end_time |-> y, values |-> v, raised |-> FALSE]
    <3>1. (held[sig].raised \/ op.start_time # 0) = FALSE
      BY <2>3, <2>5, Zenon
    <3>2. PICK y : y = IF op.start_time # 0 THEN held[sig].end_time
                       ELSE Later(op.end_time, held[sig].end_time)
      OBVIOUS
    <3>4. held'[sig] = AggregatorWith(held[sig], x, y)
      BY <2>4, <2>6, <3>1, <3>2, Zenon DEF AggregatorWith
    <3>5. held[sig] = AggregatorOf(l, e, v)
      BY <2>1 DEF AggregatorOf
    <3>6. AggregatorWith(AggregatorOf(l, e, v), x, y) = AggregatorOf(x, y, v)
      BY AggregatorReplaced
    <3>7. held'[sig] = AggregatorOf(x, y, v)
      BY <3>4, <3>5, <3>6
    <3>8. QED
      BY <3>7 DEF AggregatorOf
  <2>8. held'[sig].logs = x /\ held'[sig].values = v /\ held'[sig].end_time = y
    BY <2>7
  <2>9. Aggregates(held'[sig])
    BY <2>7, <2>8 DEF Aggregates
  <2>10. QED
    BY <2>3, <2>5, <2>6, <2>8, <2>9
<1>5. ASSUME sig \notin DOMAIN held
      PROVE  /\ held'[sig].logs = LogsOf(info) /\ held'[sig].values = [k \in {} |-> 0]
             /\ Aggregates(held'[sig])
  <2>1. held'[sig] = Opened(op)
    BY <1>3, <1>5
  <2>2. Opened(op) = [logs |-> LogsOf(info), end_time |-> 0, values |-> [k \in {} |-> 0],
                      raised |-> FALSE]
    BY <1>2 DEF Opened
  <2>3. Aggregates(held'[sig])
    BY <2>1, <2>2 DEF Aggregates
  <2>4. QED
    BY <2>1, <2>2, <2>3
<1>6. DOMAIN held' = DOMAIN held \cup {sig} /\ \A s \in DOMAIN held : s # sig => held'[s] = held[s]
  BY <1>3
<1>7. QED
  BY <1>4, <1>5, <1>6

LEMMA LogsJoin ==
  ASSUME NEW T, NEW x \in Seq(T), NEW y \in Seq(T)
  PROVE  x \o y \in Seq(T) /\ Len(x \o y) = Len(x) + Len(y)
OBVIOUS

LEMMA ReportCounts ==
  ASSUME CountsInv, NEW info \in Infos, Report(info)
  PROVE  CountsInv'
<1>1. PICK sig : sig = SignatureOf(info)
  OBVIOUS
<1>2. PICK n : n = Len(reported) + 1
  OBVIOUS
<1>3. /\ \A x : SignatureOf(x)' = SignatureOf(x)
      /\ reported' \in Seq(Infos) /\ Len(reported) \in Nat
      /\ Len(reported') = n /\ DOMAIN reported' = DOMAIN reported \cup {n}
      /\ n \notin DOMAIN reported /\ reported'[n] = info
      /\ \A i \in DOMAIN reported : reported'[i] = reported[i]
      /\ Of(sig)' = Of(sig) \cup {n}
      /\ \A s : s # sig => Of(s)' = Of(s)
      /\ \A m \in metrics : \A s : MergedIn(m, s)' = MergedIn(m, s)
  BY <1>1, <1>2, ReportAdds
<1>4. /\ DOMAIN held' = DOMAIN held \cup {sig}
      /\ \A s \in DOMAIN held : s # sig => held'[s] = held[s]
      /\ sig \in DOMAIN held =>
           /\ held'[sig].logs = held[sig].logs \o LogsOf(info)
           /\ held'[sig].values = held[sig].values
      /\ sig \notin DOMAIN held =>
           held'[sig].logs = LogsOf(info) /\ held'[sig].values = [k \in {} |-> 0]
      /\ Aggregates(held'[sig])
  BY <1>1, ReportHolds
<1>5. /\ stage = "extracted" /\ pending = {} /\ Len(reported) < MaxReports
      /\ pending' = MetricsOf(info) /\ UNCHANGED <<stage, labels, logs, metrics>>
  BY DEF Report
<1>6. ReportsOK'
  <2>1. Last(reported') = info
    BY <1>3 DEF Last
  <2>2. pending' \subseteq metrics /\ \A m \in pending' : About(m, info)
    BY <1>5 DEF MetricsOf
  <2>3. reported' # <<>>
    BY <1>3
  <2>4. n <= MaxReports
    BY <1>2, <1>3, <1>5, RulesAssumption
  <2>5. QED
    BY <1>3, <1>5, <2>1, <2>2, <2>3, <2>4 DEF CountsInv, ReportsOK
<1>7. HeldOK'
  <2>1. DOMAIN held' = {SignatureOf(reported[i]) : i \in DOMAIN reported} \cup {sig}
    BY <1>4 DEF CountsInv, HeldOK
  <2>2. DOMAIN held' = {SignatureOf(reported'[i]) : i \in DOMAIN reported'}
    BY <1>1, <1>3, <2>1
  <2>3. \A i : SignatureOf(reported'[i]) = SignatureOf(reported[i])'
    BY <1>3
  <2>4. DOMAIN held' = {SignatureOf(reported[i])' : i \in DOMAIN reported'}
    BY <2>2, <2>3
  <2>5. ASSUME NEW s \in DOMAIN held'
        PROVE  Aggregates(held'[s])
    <3>1. CASE s = sig
      BY <1>4, <3>1
    <3>2. CASE s # sig
      <4>1. s \in DOMAIN held /\ held'[s] = held[s]
        BY <1>4, <3>2
      <4>2. QED
        BY <4>1 DEF CountsInv, HeldOK
    <3>3. QED
      BY <3>1, <3>2
  <2>6. QED
    BY <2>4, <2>5 DEF HeldOK
<1>8. ReportsOK /\ HeldOK
  BY DEF CountsInv
<1>9. Cardinality(logs) \in Nat /\ Len(LogsOf(info)) = Cardinality(logs)
      /\ LogsOf(info) \in Seq(logs \X {"ERROR", "INFO"})
  BY <1>8, LogsOfReport
<1>10. \A s : IsFiniteSet(Of(s)) /\ Cardinality(Of(s)) \in Nat
  BY <1>8, CountsAreFinite
<1>11. Cardinality(Of(sig) \cup {n}) = Cardinality(Of(sig)) + 1
  <2>1. n \notin Of(sig)
    BY <1>3 DEF Of
  <2>2. QED
    BY <1>10, <2>1, FS_AddElement
<1>12. sig \notin DOMAIN held => Of(sig) = {} /\ Cardinality(Of(sig)) = 0
  BY <1>8, FS_EmptySet DEF HeldOK, Of
<1>13. LogsCounted'
  <2>1. SUFFICES ASSUME NEW s \in DOMAIN held'
                 PROVE  /\ held'[s].logs \in Seq(logs \X {"ERROR", "INFO"})
                        /\ Len(held'[s].logs) = Cardinality(Of(s)') * Cardinality(logs)
    BY <1>5 DEF LogsCounted
  <2>2. CASE s # sig
    BY <1>3, <1>4, <2>1, <2>2 DEF CountsInv, LogsCounted
  <2>3. CASE s = sig /\ sig \in DOMAIN held
    <3>1. /\ held[sig].logs \in Seq(logs \X {"ERROR", "INFO"})
          /\ Len(held[sig].logs) = Cardinality(Of(sig)) * Cardinality(logs)
      BY <2>3 DEF CountsInv, LogsCounted
    <3>2. /\ held'[sig].logs \in Seq(logs \X {"ERROR", "INFO"})
          /\ Len(held'[sig].logs) = Len(held[sig].logs) + Cardinality(logs)
      <4>1. PICK T : T = logs \X {"ERROR", "INFO"}
        OBVIOUS
      <4>2. held[sig].logs \in Seq(T) /\ LogsOf(info) \in Seq(T)
        BY <1>9, <3>1, <4>1
      <4>3. /\ held[sig].logs \o LogsOf(info) \in Seq(T)
            /\ Len(held[sig].logs \o LogsOf(info)) =
                 Len(held[sig].logs) + Len(LogsOf(info))
        BY <4>2, LogsJoin, Zenon
      <4>4. QED
        BY <1>4, <1>9, <2>3, <4>1, <4>3
    <3>3. \A c, l \in Nat : c * l + l = (c + 1) * l
      OBVIOUS
    <3>4. Cardinality(Of(sig)) * Cardinality(logs) + Cardinality(logs) =
            (Cardinality(Of(sig)) + 1) * Cardinality(logs)
      BY <1>9, <1>10, <3>3
    <3>5. Cardinality(Of(sig)') = Cardinality(Of(sig)) + 1
      BY <1>3, <1>11
    <3>6. QED
      BY <2>3, <3>1, <3>2, <3>4, <3>5
  <2>4. CASE s = sig /\ sig \notin DOMAIN held
    <3>1. Cardinality(Of(sig)') = 1
      BY <1>3, <1>11, <1>12, <2>4
    <3>2. QED
      BY <1>4, <1>9, <2>4, <3>1
  <2>5. QED
    BY <2>2, <2>3, <2>4
<1>14. \A m \in metrics : sig \notin DOMAIN held => MergedIn(m, sig) = {}
  BY <1>12 DEF MergedIn
<1>15. KeysCounted'
  <2>1. SUFFICES ASSUME NEW s \in DOMAIN held'
                 PROVE  DOMAIN held'[s].values =
                          {ValueOf(m).key : m \in {x \in metrics : MergedIn(x, s)' # {}}}
    BY <1>5 DEF KeysCounted
  <2>2. {x \in metrics : MergedIn(x, s)' # {}} = {x \in metrics : MergedIn(x, s) # {}}
    BY <1>3
  <2>3. CASE s \in DOMAIN held
    BY <1>4, <2>2, <2>3 DEF CountsInv, KeysCounted
  <2>4. CASE s \notin DOMAIN held
    BY <1>4, <1>14, <2>1, <2>2, <2>4
  <2>5. QED
    BY <2>3, <2>4
<1>16. ValuesCounted'
  <2>1. SUFFICES ASSUME NEW s \in DOMAIN held', NEW m \in metrics, MergedIn(m, s)' # {}
                 PROVE  held'[s].values[ValueOf(m).key] =
                          [type |-> ValueOf(m).value.type,
                           val |-> Cardinality(MergedIn(m, s)'),
                           buckets |-> ValueOf(m).value.buckets,
                           start_time |-> 0, end_time |-> 0]
    BY <1>5 DEF ValuesCounted
  <2>2. MergedIn(m, s)' = MergedIn(m, s)
    BY <1>3
  <2>3. CASE s \in DOMAIN held
    BY <1>4, <2>1, <2>2, <2>3 DEF CountsInv, ValuesCounted
  <2>4. CASE s \notin DOMAIN held
    BY <1>4, <1>14, <2>1, <2>2, <2>4
  <2>5. QED
    BY <2>3, <2>4
<1>17. QED
  BY <1>6, <1>7, <1>13, <1>15, <1>16 DEF CountsInv

\* Taking a metric's value: the first is stored, every other is added.
WithValues(a, w) == [a EXCEPT !.values = w]

LEMMA ValuesReplaced ==
  ASSUME NEW l, NEW e, NEW v, NEW w
  PROVE  WithValues(AggregatorOf(l, e, v), w) = AggregatorOf(l, e, w)
<1>1. PICK a : a = AggregatorOf(l, e, v)
  OBVIOUS
<1>2. [a EXCEPT !.values = w] = AggregatorOf(l, e, w)
  <2>1. PICK r : r = FALSE
    OBVIOUS
  <2>2. a = [logs |-> l, end_time |-> e, values |-> v, raised |-> r]
    BY <1>1, <2>1 DEF AggregatorOf
  <2>3. [a EXCEPT !.values = w] = [logs |-> l, end_time |-> e, values |-> w, raised |-> r]
    BY <2>2
  <2>4. QED
    BY <2>1, <2>3 DEF AggregatorOf
<1>3. QED
  BY <1>1, <1>2 DEF WithValues

TypeOf(m) == ValueOf(m).value.type
OptionsOf(m) == ValueOf(m).value.buckets
KeyOf(m) == ValueOf(m).key

FirstOf(v, m) ==
  [k \in DOMAIN v \cup {KeyOf(m)} |-> IF k = KeyOf(m) THEN ValueOf(m).value ELSE v[k]]
NextOf(v, m, n) == [v EXCEPT ![KeyOf(m)] = NumberOf(TypeOf(m), OptionsOf(m), n + 1, 0, 0)]

LEMMA ValueIsOne ==
  ASSUME NEW m
  PROVE  /\ ValueOf(m).value = NumberOf(TypeOf(m), OptionsOf(m), 1, 0, 0)
         /\ TypeOf(m) \in {"int64_value", "distribution_value"}
         /\ KeyOf(m).name = m
         /\ ValueOf(m).key = KeyOf(m)
BY DEF ValueOf, NumberOf, TypeOf, OptionsOf, KeyOf

LEMMA TakeFirst ==
  ASSUME NEW l, NEW e, NEW v, NEW m, KeyOf(m) \notin DOMAIN v
  PROVE  Take(AggregatorOf(l, e, v), ValueOf(m)) = AggregatorOf(l, e, FirstOf(v, m))
<1>1. PICK a : a = AggregatorOf(l, e, v)
  OBVIOUS
<1>2. a.raised = FALSE /\ a.values = v
  BY <1>1 DEF AggregatorOf
<1>3. ValueOf(m).key = KeyOf(m)
  BY ValueIsOne
<1>4. Take(a, ValueOf(m)) = WithValues(a, FirstOf(v, m))
  BY <1>2, <1>3 DEF Take, WithValues, FirstOf
<1>5. QED
  BY <1>1, <1>4, ValuesReplaced

LEMMA TakeNext ==
  ASSUME NEW l, NEW e, NEW v, NEW m \in KnownMetrics,
         KeyOf(m) \in DOMAIN v, NEW n \in Nat \ {0}, n + 1 <= Int64Limit,
         v[KeyOf(m)] = NumberOf(TypeOf(m), OptionsOf(m), n, 0, 0)
  PROVE  Take(AggregatorOf(l, e, v), ValueOf(m)) = AggregatorOf(l, e, NextOf(v, m, n))
<1>1. PICK a : a = AggregatorOf(l, e, v)
  OBVIOUS
<1>2. a.raised = FALSE /\ a.values = v
  BY <1>1 DEF AggregatorOf
<1>3. PICK prior, latest : prior = v[KeyOf(m)] /\ latest = ValueOf(m).value
  OBVIOUS
<1>4. /\ prior.type = TypeOf(m) /\ prior.val = n /\ prior.start_time = 0 /\ prior.end_time = 0
      /\ latest.type = TypeOf(m) /\ latest.val = 1
      /\ prior.buckets = OptionsOf(m) /\ latest.buckets = OptionsOf(m)
      /\ latest.start_time = 0 /\ latest.end_time = 0
      /\ latest = NumberOf(TypeOf(m), OptionsOf(m), 1, 0, 0)
      /\ TypeOf(m) \in {"int64_value", "distribution_value"}
  BY <1>3, ValueIsOne DEF NumberOf
<1>5. KindOf(KeyOf(m).name) = "DELTA"
  BY ValueIsOne, RulesAssumption DEF KindOf
<1>6. Merges("DELTA", prior, latest)
  <2>1. Detect(prior) = TypeOf(m) /\ Detect(latest) = TypeOf(m) /\ TypeOf(m) # "none"
    BY <1>4 DEF Detect
  <2>2. TypeOf(m) = "distribution_value" => <<prior.buckets, latest.buckets>> \in Mergeable
    BY <1>4, RulesAssumption DEF TypeOf, OptionsOf, ValueOf, KnownMetrics
  <2>3. Combines(prior, latest)
    BY <1>4, <2>2 DEF Combines
  <2>4. QED
    BY <2>1, <2>3 DEF Merges
<1>7. Merged("DELTA", prior, latest) = NumberOf(TypeOf(m), OptionsOf(m), n + 1, 0, 0)
  <2>1. Combine(prior.val, latest.val) = n + 1
    BY <1>4 DEF Combine
  <2>2. Earlier(prior.start_time, latest.start_time) = 0
    BY <1>4 DEF Earlier
  <2>3. Later(prior.end_time, latest.end_time) = 0
    BY <1>4 DEF Later
  <2>4. Merged("DELTA", prior, latest) =
          [latest EXCEPT !.val = Combine(prior.val, latest.val),
                         !.start_time = Earlier(prior.start_time, latest.start_time),
                         !.end_time = Later(prior.end_time, latest.end_time)]
    BY Zenon DEF Merged
  <2>5. Merged("DELTA", prior, latest) = NumberWith(latest, n + 1, 0, 0)
    BY <2>1, <2>2, <2>3, <2>4, Zenon DEF NumberWith
  <2>6. QED
    BY <1>4, <2>5, NumberReplaced
<1>8. ValueOf(m).key = KeyOf(m)
  BY ValueIsOne
<1>9. Take(a, ValueOf(m)) =
        [a EXCEPT !.values[KeyOf(m)] = Merged("DELTA", prior, latest)]
  BY <1>2, <1>3, <1>5, <1>6, <1>8 DEF Take
<1>10. Take(a, ValueOf(m)) = WithValues(a, NextOf(v, m, n))
  BY <1>2, <1>7, <1>9 DEF WithValues, NextOf
<1>11. QED
  BY <1>1, <1>10, ValuesReplaced

\* Merging a pending metric counts the last report, and nothing else.
LEMMA MergeAdds ==
  ASSUME CountsInv, NEW m \in pending, pending' = pending \ {m},
         UNCHANGED <<labels, metrics, reported>>,
         NEW n, n = Len(reported), NEW sig, sig = SignatureOf(Last(reported))
  PROVE  /\ n \in DOMAIN reported /\ m \in metrics /\ sig \in DOMAIN held
         /\ \A x : SignatureOf(x)' = SignatureOf(x)
         /\ \A s : Of(s)' = Of(s)
         /\ n \notin MergedIn(m, sig) /\ MergedIn(m, sig)' = MergedIn(m, sig) \cup {n}
         /\ \A x, s : (x # m \/ s # sig) => MergedIn(x, s)' = MergedIn(x, s)
<1>1. /\ n \in DOMAIN reported /\ sig = SignatureOf(reported[n]) /\ About(m, reported[n])
      /\ m \in metrics
  BY DEF CountsInv, ReportsOK, Last
<1>2. sig \in DOMAIN held
  BY <1>1 DEF CountsInv, HeldOK
<1>3. \A x : SignatureOf(x)' = SignatureOf(x)
  BY DEF SignatureOf, LabelsOf, RuleLabels
<1>4. \A s : Of(s)' = Of(s)
  BY <1>3 DEF Of
<1>5. ASSUME NEW x, NEW s
      PROVE  MergedIn(x, s)' = {i \in Of(s) : About(x, reported[i])
                                             /\ ~(x \in pending' /\ i = n)}
  BY <1>4 DEF MergedIn
<1>6. ASSUME NEW x, NEW s
      PROVE  MergedIn(x, s) = {i \in Of(s) : About(x, reported[i])
                                            /\ ~(x \in pending /\ i = n)}
  BY DEF MergedIn
<1>7. n \in Of(sig) /\ \A s : s # sig => n \notin Of(s)
  BY <1>1 DEF Of
<1>8. n \notin MergedIn(m, sig)
  BY <1>6
<1>9. MergedIn(m, sig)' = MergedIn(m, sig) \cup {n}
  BY <1>1, <1>5, <1>6, <1>7
<1>10. ASSUME NEW x, NEW s, x # m \/ s # sig PROVE MergedIn(x, s)' = MergedIn(x, s)
  <2>1. CASE x # m
    <3>1. x \in pending' <=> x \in pending
      BY <2>1
    <3>2. QED
      BY <1>5, <1>6, <3>1
  <2>2. CASE s # sig
    BY <1>5, <1>6, <1>7, <2>2
  <2>3. QED
    BY <1>10, <2>1, <2>2
<1>11. QED
  BY <1>1, <1>2, <1>3, <1>4, <1>8, <1>9, <1>10

\* The aggregator of the last report takes the value.
LEMMA MergeHolds ==
  ASSUME SpecInv, CountsInv, NEW m \in pending, m \in metrics,
         NEW sig \in DOMAIN held, NEW a, a = held[sig],
         NEW c, c = MergedIn(m, sig), NEW d \in SUBSET DOMAIN reported,
         NEW n, n \notin c, d = c \cup {n}
  PROVE  \E w :
           /\ Take(a, ValueOf(m)) = AggregatorOf(a.logs, a.end_time, w)
           /\ DOMAIN w = DOMAIN a.values \cup {KeyOf(m)}
           /\ w[KeyOf(m)] = NumberOf(TypeOf(m), OptionsOf(m), Cardinality(d), 0, 0)
           /\ \A k \in DOMAIN a.values : k # KeyOf(m) => w[k] = a.values[k]
<1>1. PICK l, e, v : a = [logs |-> l, end_time |-> e, values |-> v, raised |-> FALSE]
  BY Zenon DEF CountsInv, HeldOK, Aggregates
<1>3. a = AggregatorOf(l, e, v) /\ a.logs = l /\ a.end_time = e /\ a.values = v
  <2>1. a = AggregatorOf(l, e, v)
    BY <1>1 DEF AggregatorOf
  <2>2. a.logs = l /\ a.end_time = e /\ a.values = v
    BY <1>1
  <2>3. QED
    BY <2>1, <2>2
<1>4. c \subseteq d /\ ReportsOK /\ c \in SUBSET DOMAIN reported
  BY DEF CountsInv
<1>5. /\ IsFiniteSet(c) /\ Cardinality(c) \in Nat
      /\ Cardinality(d) \in Nat /\ Cardinality(d) <= MaxReports /\ MaxReports \in Nat
  BY <1>4, CountsAreFinite
<1>6. Cardinality(d) = Cardinality(c) + 1
  BY <1>5, FS_AddElement
<1>7. Cardinality(c) = 0 <=> c = {}
  BY <1>5, FS_EmptySet
<1>8. m \in KnownMetrics
  BY DEF SpecInv, MetricsComplete
<1>9. KeyOf(m) \in DOMAIN v <=> c # {}
  <2>1. DOMAIN v = {KeyOf(x) : x \in {y \in metrics : MergedIn(y, sig) # {}}}
    BY <1>3 DEF CountsInv, KeysCounted, KeyOf
  <2>2. \A x : KeyOf(x) = KeyOf(m) => x = m
    BY ValueIsOne
  <2>3. QED
    BY <2>1, <2>2
<1>10. CASE c = {}
  <2>0. PICK w : w = FirstOf(v, m)
    OBVIOUS
  <2>1. w = [k \in DOMAIN v \cup {KeyOf(m)} |->
               IF k = KeyOf(m) THEN ValueOf(m).value ELSE v[k]]
    BY <2>0 DEF FirstOf
  <2>2. Take(a, ValueOf(m)) = AggregatorOf(l, e, w)
    <3>1. Take(AggregatorOf(l, e, v), ValueOf(m)) = AggregatorOf(l, e, w)
      BY <1>9, <1>10, <2>0, TakeFirst
    <3>2. QED
      BY <1>3, <3>1, Zenon
  <2>3. w[KeyOf(m)] = NumberOf(TypeOf(m), OptionsOf(m), Cardinality(d), 0, 0)
    BY <1>6, <1>7, <1>10, <2>1, ValueIsOne
  <2>4. Take(a, ValueOf(m)) = AggregatorOf(a.logs, a.end_time, w)
    BY <1>3, <2>2
  <2>5. DOMAIN w = DOMAIN a.values \cup {KeyOf(m)}
    BY <1>3, <2>1
  <2>6. \A k \in DOMAIN a.values : k # KeyOf(m) => w[k] = a.values[k]
    BY <1>3, <2>1
  <2>7. QED
    BY <2>3, <2>4, <2>5, <2>6
<1>11. CASE c # {}
  <2>0. PICK w : w = NextOf(v, m, Cardinality(c))
    OBVIOUS
  <2>1. w = [v EXCEPT ![KeyOf(m)] = NumberOf(TypeOf(m), OptionsOf(m), Cardinality(c) + 1, 0, 0)]
    BY <2>0 DEF NextOf
  <2>2. v[KeyOf(m)] = NumberOf(TypeOf(m), OptionsOf(m), Cardinality(c), 0, 0)
    BY <1>3, <1>11 DEF CountsInv, ValuesCounted, KeyOf, TypeOf, OptionsOf, NumberOf
  <2>3. Cardinality(c) \in Nat \ {0} /\ Cardinality(c) + 1 <= Int64Limit
    BY <1>5, <1>6, <1>7, <1>11, RulesAssumption
  <2>4. KeyOf(m) \in DOMAIN v
    BY <1>9, <1>11
  <2>5. Take(a, ValueOf(m)) = AggregatorOf(l, e, w)
    <3>1. Take(AggregatorOf(l, e, v), ValueOf(m)) = AggregatorOf(l, e, w)
      BY <1>8, <2>0, <2>2, <2>3, <2>4, TakeNext
    <3>2. QED
      BY <1>3, <3>1, Zenon
  <2>6. Take(a, ValueOf(m)) = AggregatorOf(a.logs, a.end_time, w)
    BY <1>3, <2>5
  <2>7. w[KeyOf(m)] = NumberOf(TypeOf(m), OptionsOf(m), Cardinality(d), 0, 0)
    BY <1>6, <2>1, <2>4
  <2>8. DOMAIN w = DOMAIN a.values \cup {KeyOf(m)}
    BY <1>3, <2>1, <2>4
  <2>9. \A k \in DOMAIN a.values : k # KeyOf(m) => w[k] = a.values[k]
    BY <1>3, <2>1
  <2>10. QED
    BY <2>6, <2>7, <2>8, <2>9
<1>12. QED
  BY <1>10, <1>11

LEMMA MergeCounts ==
  ASSUME SpecInv, CountsInv, MergeMetric
  PROVE  CountsInv'
<1>1. PICK m \in pending :
        /\ held' = [held EXCEPT ![SignatureOf(Last(reported))] = Take(@, ValueOf(m))]
        /\ pending' = pending \ {m}
        /\ UNCHANGED <<stage, labels, logs, metrics, reported>>
  BY DEF MergeMetric
<1>2. PICK n, sig : n = Len(reported) /\ sig = SignatureOf(Last(reported))
  OBVIOUS
<1>3. /\ n \in DOMAIN reported /\ m \in metrics /\ sig \in DOMAIN held
      /\ \A x : SignatureOf(x)' = SignatureOf(x)
      /\ \A s : Of(s)' = Of(s)
      /\ n \notin MergedIn(m, sig) /\ MergedIn(m, sig)' = MergedIn(m, sig) \cup {n}
      /\ \A x, s : (x # m \/ s # sig) => MergedIn(x, s)' = MergedIn(x, s)
  BY <1>1, <1>2, MergeAdds
<1>4. PICK a, c, d : a = held[sig] /\ c = MergedIn(m, sig) /\ d = MergedIn(m, sig)'
  OBVIOUS
<1>5. d \in SUBSET DOMAIN reported /\ d = c \cup {n} /\ n \notin c
  BY <1>1, <1>3, <1>4 DEF MergedIn, Of
<1>6. PICK w :
        /\ Take(a, ValueOf(m)) = AggregatorOf(a.logs, a.end_time, w)
        /\ DOMAIN w = DOMAIN a.values \cup {KeyOf(m)}
        /\ w[KeyOf(m)] = NumberOf(TypeOf(m), OptionsOf(m), Cardinality(d), 0, 0)
        /\ \A k \in DOMAIN a.values : k # KeyOf(m) => w[k] = a.values[k]
  BY <1>3, <1>4, <1>5, MergeHolds
<1>7. held' = [held EXCEPT ![sig] = Take(a, ValueOf(m))]
  BY <1>1, <1>2, <1>4
<1>8. /\ DOMAIN held' = DOMAIN held
      /\ \A s \in DOMAIN held : s # sig => held'[s] = held[s]
      /\ held'[sig] = Take(a, ValueOf(m))
  BY <1>3, <1>7
<1>9. held'[sig].logs = held[sig].logs /\ held'[sig].values = w
  BY <1>4, <1>6, <1>8 DEF AggregatorOf
<1>10. Aggregates(held'[sig])
  BY <1>6, <1>8 DEF Aggregates, AggregatorOf
<1>11. ReportsOK'
  <2>1. Last(reported)' = Last(reported)
    BY <1>1 DEF Last
  <2>2. pending' \subseteq pending
    BY <1>1
  <2>3. QED
    BY <1>1, <2>1, <2>2 DEF CountsInv, ReportsOK
<1>12. HeldOK'
  <2>0. \A i : SignatureOf(reported[i])' = SignatureOf(reported[i])
    BY <1>1, <1>3
  <2>1. DOMAIN held' = {SignatureOf(reported[i])' : i \in DOMAIN reported}
    BY <1>8, <2>0 DEF CountsInv, HeldOK
  <2>2. \A s \in DOMAIN held' : Aggregates(held'[s])
    BY <1>8, <1>10 DEF CountsInv, HeldOK
  <2>3. QED
    BY <1>1, <2>1, <2>2 DEF HeldOK
<1>13. LogsCounted'
  BY <1>1, <1>3, <1>8, <1>9 DEF CountsInv, LogsCounted
<1>14. \A x : KeyOf(x) = KeyOf(m) => x = m
  BY ValueIsOne
<1>15. KeysCounted'
  <2>1. SUFFICES ASSUME NEW s \in DOMAIN held
                 PROVE  DOMAIN held'[s].values =
                          {KeyOf(x) : x \in {y \in metrics : MergedIn(y, s)' # {}}}
    BY <1>1, <1>8 DEF KeysCounted, KeyOf
  <2>2. DOMAIN held[s].values = {KeyOf(x) : x \in {y \in metrics : MergedIn(y, s) # {}}}
    BY DEF CountsInv, KeysCounted, KeyOf
  <2>3. CASE s # sig
    BY <1>3, <1>8, <2>2, <2>3
  <2>4. CASE s = sig
    <3>1. {y \in metrics : MergedIn(y, sig)' # {}} =
            {y \in metrics : MergedIn(y, sig) # {}} \cup {m}
      BY <1>3
    <3>2. DOMAIN w = DOMAIN held[sig].values \cup {KeyOf(m)}
      BY <1>4, <1>6
    <3>3. QED
      BY <1>9, <2>2, <2>4, <3>1, <3>2
  <2>5. QED
    BY <2>3, <2>4
<1>16. ValuesCounted'
  <2>1. SUFFICES ASSUME NEW s \in DOMAIN held, NEW x \in metrics, MergedIn(x, s)' # {}
                 PROVE  held'[s].values[KeyOf(x)] =
                          NumberOf(TypeOf(x), OptionsOf(x), Cardinality(MergedIn(x, s)'), 0, 0)
    BY <1>1, <1>8 DEF ValuesCounted, KeyOf, TypeOf, OptionsOf, NumberOf
  <2>2. ASSUME MergedIn(x, s) # {}
        PROVE  held[s].values[KeyOf(x)] =
                 NumberOf(TypeOf(x), OptionsOf(x), Cardinality(MergedIn(x, s)), 0, 0)
    BY <2>2 DEF CountsInv, ValuesCounted, KeyOf, TypeOf, OptionsOf, NumberOf
  <2>3. CASE s = sig /\ x = m
    BY <1>4, <1>6, <1>9, <2>3
  <2>4. CASE s # sig
    BY <1>3, <1>8, <2>1, <2>2, <2>4
  <2>5. CASE s = sig /\ x # m
    <3>1. MergedIn(x, s)' = MergedIn(x, s)
      BY <1>3, <2>5
    <3>2. KeyOf(x) \in DOMAIN held[s].values /\ KeyOf(x) # KeyOf(m)
      BY <1>14, <2>1, <2>5, <3>1 DEF CountsInv, KeysCounted, KeyOf
    <3>3. w[KeyOf(x)] = held[s].values[KeyOf(x)]
      BY <1>4, <1>6, <2>5, <3>2
    <3>4. QED
      BY <1>9, <2>1, <2>2, <2>5, <3>1, <3>3
  <2>6. QED
    BY <2>3, <2>4, <2>5
<1>17. QED
  BY <1>11, <1>12, <1>13, <1>15, <1>16 DEF CountsInv

\* The aggregators count what was reported.
THEOREM CountsInvariant == RulesSpec => []CountsInv
<1>1. RulesInit => CountsInv
  <2>1. SUFFICES ASSUME RulesInit PROVE CountsInv
    OBVIOUS
  <2>2. /\ reported = <<>> /\ pending = {} /\ logs = {} /\ metrics = {} /\ DOMAIN held = {}
    BY <2>1 DEF RulesInit
  <2>3. ReportsOK
    BY <2>2, FS_EmptySet, RulesAssumption DEF ReportsOK
  <2>4. HeldOK /\ LogsCounted /\ KeysCounted /\ ValuesCounted
    BY <2>2 DEF HeldOK, LogsCounted, KeysCounted, ValuesCounted
  <2>5. QED
    BY <2>3, <2>4 DEF CountsInv
<1>2. SpecInv /\ CountsInv /\ [RulesNext]_rulesVars => CountsInv'
  <2>1. SUFFICES ASSUME SpecInv, CountsInv, [RulesNext]_rulesVars PROVE CountsInv'
    OBVIOUS
  <2>2. CASE EnterDestination \/ ReadLog \/ ReadMetric \/ LeaveDestination \/ NextStage
    BY <2>1, <2>2, ReadingCounts
  <2>3. CASE \E info \in Infos : Report(info)
    BY <2>1, <2>3, ReportCounts
  <2>4. CASE MergeMetric
    BY <2>1, <2>4, MergeCounts
  <2>5. CASE UNCHANGED rulesVars
    <3>1. UNCHANGED <<stage, labels, logs, metrics, held, pending, reported>>
      BY <2>5 DEF rulesVars
    <3>2. \A x : SignatureOf(x)' = SignatureOf(x)
      BY <3>1 DEF SignatureOf, LabelsOf, RuleLabels
    <3>3. \A s : Of(s)' = Of(s)
      BY <3>1, <3>2 DEF Of
    <3>4. \A m, s : MergedIn(m, s)' = MergedIn(m, s)
      BY <3>1, <3>3 DEF MergedIn
    <3>5. ReportsOK'
      BY <2>1, <3>1 DEF CountsInv, ReportsOK, Last
    <3>6. HeldOK'
      <4>1. \A i : SignatureOf(reported[i])' = SignatureOf(reported[i])
        BY <3>1, <3>2
      <4>2. QED
        BY <2>1, <3>1, <4>1 DEF CountsInv, HeldOK
    <3>7. LogsCounted'
      BY <2>1, <3>1, <3>3 DEF CountsInv, LogsCounted
    <3>8. KeysCounted'
      BY <2>1, <3>1, <3>4 DEF CountsInv, KeysCounted
    <3>9. ValuesCounted'
      BY <2>1, <3>1, <3>4 DEF CountsInv, ValuesCounted
    <3>10. QED
      BY <3>5, <3>6, <3>7, <3>8, <3>9 DEF CountsInv
  <2>6. QED
    BY <2>1, <2>2, <2>3, <2>4, <2>5 DEF RulesNext
<1>3. QED
  BY <1>1, <1>2, SpecInvariant, PTL DEF RulesSpec

\* The canonical code tells HTTP's errors from its other codes.
LEMMA CodeTellsErrors ==
  ASSUME NEW c \in Int, c < 600
  PROVE  CanonicalCode(c) \in {0, 2} <=> c < 400
<1>1. \A x \in DOMAIN CanonicalCodes : CanonicalCodes[x] \notin {0, 2} /\ x >= 400
  BY DEF CanonicalCodes
<1>2. CASE c \in DOMAIN CanonicalCodes
  BY <1>1, <1>2 DEF CanonicalCode
<1>3. CASE c \notin DOMAIN CanonicalCodes
  BY <1>3 DEF CanonicalCode
<1>4. QED
  BY <1>2, <1>3

\* The labels of an identified request.
LEMMA LabelsOfIdentified ==
  ASSUME NEW info, LabelsOf(info) # {}
  PROVE  info.identified
BY DEF LabelsOf

LEMMA LabelsAre ==
  ASSUME NEW info, info.identified, "status_code" \in RuleLabels
  PROVE  /\ LabelsOf(info) # {}
         /\ \A v : <<"status_code", v>> \in LabelsOf(info) <=>
              v = Setters(info)["status_code"] /\ v # {}
<1>1. LabelsOf(info) =
        {<<l, Setters(info)[l]>> :
           l \in {k \in RuleLabels : Setters(info)[k] # {}}
                 \cup {"platform", "service_agent", "user_agent"}}
  BY DEF LabelsOf
<1>2. QED
  BY <1>1

LEMMA StatusSetter ==
  ASSUME NEW info, info.response_code \in Int
  PROVE  Setters(info)["status_code"] =
           IF info.response_code > 0 THEN {CanonicalCode(info.response_code)} ELSE {}
BY DEF Setters

\* Where the status code is a label, one signature's reports agree on failure.
LEMMA FailureAgrees ==
  ASSUME CountsInv, "status_code" \in RuleLabels, NEW s, NEW i \in Of(s), NEW j \in Of(s),
         reported[i].identified, reported[i].response_code < 600,
         reported[j].response_code < 600
  PROVE  Failed(i) <=> Failed(j)
<1>1. PICK a, b : a = reported[i] /\ b = reported[j]
  OBVIOUS
<1>2. /\ a \in Infos /\ b \in Infos /\ SignatureOf(a) = SignatureOf(b)
  BY <1>1 DEF CountsInv, ReportsOK, Of
<1>3. /\ a.response_code \in Int /\ b.response_code \in Int
      /\ a.identified \in BOOLEAN /\ b.identified \in BOOLEAN
  BY <1>2, RulesAssumption
<1>4. LabelsOf(a) = LabelsOf(b)
  BY <1>2 DEF SignatureOf
<1>5. a.identified
  BY <1>1
<1>6. LabelsOf(a) # {} /\ \A v : <<"status_code", v>> \in LabelsOf(a) <=>
                                 v = Setters(a)["status_code"] /\ v # {}
  BY <1>5, LabelsAre
<1>7. b.identified
  BY <1>4, <1>6, LabelsOfIdentified
<1>8. \A v : <<"status_code", v>> \in LabelsOf(b) <=>
        v = Setters(b)["status_code"] /\ v # {}
  BY <1>7, LabelsAre
<1>9. /\ a.response_code > 0 <=> b.response_code > 0
      /\ a.response_code > 0 => CanonicalCode(a.response_code) = CanonicalCode(b.response_code)
  <2>1. PICK x, y : x = Setters(a)["status_code"] /\ y = Setters(b)["status_code"]
    OBVIOUS
  <2>2. \A v : v = x /\ v # {} <=> v = y /\ v # {}
    BY <1>4, <1>6, <1>8, <2>1
  <2>3. x = y
    <3>1. x # {} => x = y
      BY <2>2
    <3>2. y # {} => x = y
      BY <2>2
    <3>3. QED
      BY <3>1, <3>2
  <2>4. /\ x = IF a.response_code > 0 THEN {CanonicalCode(a.response_code)} ELSE {}
        /\ y = IF b.response_code > 0 THEN {CanonicalCode(b.response_code)} ELSE {}
    BY <1>3, <2>1, StatusSetter
  <2>5. \A u, v : {u} # {} /\ ({u} = {v} => u = v)
    OBVIOUS
  <2>6. QED
    BY <2>3, <2>4, <2>5
<1>10. a.response_code >= 400 <=> b.response_code >= 400
  <2>1. CanonicalCode(a.response_code) \in {0, 2} <=> a.response_code < 400
    BY <1>1, <1>3, CodeTellsErrors
  <2>2. CanonicalCode(b.response_code) \in {0, 2} <=> b.response_code < 400
    BY <1>1, <1>3, CodeTellsErrors
  <2>3. QED
    BY <1>3, <1>9, <2>1, <2>2
<1>11. QED
  BY <1>1, <1>10 DEF Failed

\* The merged operations are the reports' numbers, whatever the requests.
THEOREM ReportedCountsHolds == RulesSpec => []ReportedCounts
<1>1. CountsInv => ReportedCounts
  <2>1. SUFFICES ASSUME CountsInv, pending = {} PROVE ReportedCounts
    BY DEF ReportedCounts
  <2>2. \A i \in DOMAIN reported : SignatureOf(reported[i]) \in DOMAIN held
    BY <2>1 DEF CountsInv, HeldOK
  <2>3. ASSUME NEW s \in DOMAIN held
        PROVE  /\ ~held[s].raised
               /\ Len(held[s].logs) = Cardinality(Of(s)) * Cardinality(logs)
    <3>0. PICK l, e, v : held[s] = [logs |-> l, end_time |-> e, values |-> v, raised |-> FALSE]
      BY <2>1, <2>3, Zenon DEF CountsInv, HeldOK, Aggregates
    <3>1. held[s].raised = FALSE
      BY <3>0
    <3>2. ~held[s].raised
      BY <3>1, Zenon
    <3>3. QED
      BY <2>1, <3>2 DEF CountsInv, LogsCounted
  <2>4. ASSUME NEW s \in DOMAIN held, NEW m \in metrics
        PROVE  LET key == ValueOf(m).key IN
               /\ key \in DOMAIN held[s].values <=> AboutIn(m, s) # {}
               /\ AboutIn(m, s) # {} =>
                    held[s].values[key].val = Cardinality(AboutIn(m, s))
    <3>1. \A x : MergedIn(x, s) = AboutIn(x, s)
      BY <2>1 DEF MergedIn, AboutIn
    <3>2. DOMAIN held[s].values = {KeyOf(x) : x \in {y \in metrics : AboutIn(y, s) # {}}}
      BY <2>1, <3>1 DEF CountsInv, KeysCounted, KeyOf
    <3>3. \A x : KeyOf(x) = KeyOf(m) => x = m
      BY ValueIsOne
    <3>4. KeyOf(m) \in DOMAIN held[s].values <=> AboutIn(m, s) # {}
      BY <3>2, <3>3
    <3>5. AboutIn(m, s) # {} => held[s].values[KeyOf(m)].val = Cardinality(AboutIn(m, s))
      <4>1. \A t, u, c, b, e : NumberOf(t, u, c, b, e).val = c
        BY DEF NumberOf
      <4>2. MergedIn(m, s) # {} =>
              held[s].values[KeyOf(m)] = NumberOf(TypeOf(m), OptionsOf(m), Cardinality(MergedIn(m, s)), 0, 0)
        BY <2>1, <2>4 DEF CountsInv, ValuesCounted, KeyOf, TypeOf, OptionsOf, NumberOf
      <4>3. QED
        BY <3>1, <4>1, <4>2
    <3>6. QED
      BY <3>4, <3>5 DEF KeyOf
  <2>5. ASSUME NEW s \in DOMAIN held, "status_code" \in RuleLabels,
               \E i \in Of(s) : reported[i].identified,
               \A i \in Of(s) : reported[i].response_code < 600
        PROVE  (\A i \in Of(s) : Failed(i)) \/ (\A i \in Of(s) : ~Failed(i))
    BY <2>1, <2>5, FailureAgrees
  <2>6. QED
    BY <2>2, <2>3, <2>4, <2>5 DEF ReportedCounts
<1>2. QED
  BY <1>1, CountsInvariant, PTL
=============================================================================
