---------------------- MODULE BoincProxyWorkUnitProofs ----------------------
(***************************************************************************)
(* Proofs about BoincProxyWorkUnit, for replies of any length and number,  *)
(* any names, bound and faults: what is parsed into a work unit, in part   *)
(* or again, leaves its lists without a circle, the result of the reply on *)
(* disk is reported, and a computation finds its inputs.                   *)
(*                                                                         *)
(* The first half is about parsing.  ParsingStep says what the recursive   *)
(* function of the parser does in a step; Follows relates the work unit    *)
(* after n elements of a reply to these elements and is kept by each.  Its *)
(* hard part is a reference to a file: it writes into the file info that   *)
(* it finds, so it must find one that is on no list (Untouched), also when *)
(* an earlier, cut reply left file infos of the same name in the object.   *)
(* A list is known by the sets that hold it (Holds), so that no recursion  *)
(* along the list is needed.                                               *)
(*                                                                         *)
(* The second half is the invariant of the slot: where it stands and what  *)
(* a restart finds (Phases), what was loaded (Loading), and what the loop  *)
(* over the inputs has done and has still to do (Fetching).                *)
(***************************************************************************)
EXTENDS BoincProxyWorkUnit, SequenceTheorems, WellFoundedInduction, TLAPS
-----------------------------------------------------------------------------
(* Parsing, one element after the other *)

\* A nonempty set of naturals has a least element.
LEMMA LeastOfNaturals ==
    ASSUME NEW T \in SUBSET Nat, T # {}
    PROVE  \E m \in T : \A k \in T : m <= k
<1>1. PICK m \in T : \A k \in T : ~(<<k, m>> \in OpToRel(<, Nat))
    BY NatLessThanWellFounded, WFMin
<1>2. \A k \in T : k < m => <<k, m>> \in OpToRel(<, Nat)
    BY DEF OpToRel
<1>3. \A k \in T : ~(k < m)
    BY <1>1, <1>2
<1>4. \A k \in T : m <= k
    BY <1>3
<1> QED BY <1>4

\* A record of the parse of the first n elements.
IsRun(w, items, n, run) ==
    /\ run = [k \in 0..n |-> run[k]]
    /\ run[0] = w
    /\ \A k \in 1..n : run[k] = Element(run[k - 1], items[k])

\* The parse of the first n elements has a record, by induction on n.
LEMMA RunExists ==
    ASSUME NEW w, NEW items, NEW n \in Nat
    PROVE  \E run : IsRun(w, items, n, run)
<1> DEFINE T == {k \in Nat : ~ \E run : IsRun(w, items, k, run)}
<1>1. SUFFICES ASSUME T # {} PROVE FALSE
    OBVIOUS
<1>2. PICK m \in T : \A k \in T : m <= k
    BY <1>1, LeastOfNaturals
<1>3. CASE m = 0
    <2> DEFINE run == [k \in 0..0 |-> w]
    <2>1. IsRun(w, items, 0, run)
        BY DEF IsRun
    <2> QED
        BY <1>2, <1>3, <2>1
<1>4. CASE m # 0
    <2>1. m - 1 \in Nat /\ m - 1 \notin T
        BY <1>2, <1>4
    <2>2. PICK run : IsRun(w, items, m - 1, run)
        BY <2>1
    <2> DEFINE longer == [k \in 0..m |-> IF k = m THEN Element(run[m - 1], items[m])
                                                  ELSE run[k]]
    <2>3. \A k \in 0..(m - 1) : longer[k] = run[k]
        BY <1>2
    <2>4. longer[m] = Element(longer[m - 1], items[m])
        BY <1>4, <1>2, <2>1, <2>3
    <2>5. \A k \in 1..(m - 1) : longer[k] = Element(longer[k - 1], items[k])
        <3> HIDE DEF longer
        <3> TAKE k \in 1..(m - 1)
        <3>1. k \in 0..(m - 1) /\ k - 1 \in 0..(m - 1)
            BY <1>2
        <3>2. run[k] = Element(run[k - 1], items[k])
            BY <2>2 DEF IsRun
        <3> QED
            BY <2>3, <3>1, <3>2
    <2>6. longer[0] = w
        BY <1>4, <2>1, <2>2, <2>3 DEF IsRun
    <2>7. IsRun(w, items, m, longer)
        <3>1. longer = [k \in 0..m |-> longer[k]]
            OBVIOUS
        <3> HIDE DEF longer
        <3>2. \A k \in 1..m : k = m \/ k \in 1..(m - 1)
            BY <1>2
        <3>3. \A k \in 1..m : longer[k] = Element(longer[k - 1], items[k])
            BY <2>4, <2>5, <3>2
        <3> QED
            BY <2>6, <3>1, <3>3 DEF IsRun
    <2> QED
        BY <1>2, <2>7
<1> QED
    BY <1>3, <1>4

\* A longer record begins with the shorter one.
LEMMA RunsAgree ==
    ASSUME NEW w, NEW items, NEW m \in Nat, NEW n \in Nat, m <= n, NEW g, NEW h,
           IsRun(w, items, m, g), IsRun(w, items, n, h), NEW i \in 0..m
    PROVE  g[i] = h[i]
<1> DEFINE T == {k \in 0..m : g[k] # h[k]}
<1>1. SUFFICES ASSUME T # {} PROVE FALSE
    OBVIOUS
<1>2. PICK k \in T : \A j \in T : k <= j
    <2>1. T \in SUBSET Nat
        OBVIOUS
    <2> QED
        BY <1>1, <2>1, LeastOfNaturals
<1>3. k # 0
    BY <1>2 DEF IsRun
<1>4. k - 1 \in 0..m /\ k - 1 \notin T
    BY <1>2, <1>3
<1>5. g[k - 1] = h[k - 1]
    BY <1>4
<1>6. k \in 1..m /\ k \in 1..n
    BY <1>2, <1>3
<1> QED
    BY <1>2, <1>5, <1>6 DEF IsRun

\* What the recursive function of ParseFirst computes: after n + 1 elements, the
\* effect of the last one on what there is after n.
LEMMA ParsingStep ==
    ASSUME NEW w, NEW items
    PROVE  /\ ParseFirst(w, items, 0) = w
           /\ \A n \in Nat : ParseFirst(w, items, n + 1)
                                = Element(ParseFirst(w, items, n), items[n + 1])
<1> DEFINE RunOf(n) == CHOOSE run : IsRun(w, items, n, run)
           all == [k \in Nat |-> RunOf(k)[k]]
           Body(f) == [k \in Nat |-> IF k = 0 THEN w ELSE Element(f[k - 1], items[k])]
           parsed == CHOOSE f : f = Body(f)
<1>1. \A n \in Nat : IsRun(w, items, n, RunOf(n))
    BY RunExists
<1> HIDE DEF RunOf
<1>2. all[0] = w
    BY <1>1 DEF IsRun
<1>3. \A k \in Nat \ {0} : all[k] = Element(all[k - 1], items[k])
    <2> TAKE k \in Nat \ {0}
    <2>1. k - 1 \in Nat /\ k - 1 <= k /\ k - 1 \in 0..(k - 1) /\ k \in 1..k
        OBVIOUS
    <2>2. RunOf(k - 1)[k - 1] = RunOf(k)[k - 1]
        BY <1>1, <2>1, RunsAgree
    <2>3. RunOf(k)[k] = Element(RunOf(k)[k - 1], items[k])
        BY <1>1, <2>1 DEF IsRun
    <2> QED
        BY <2>1, <2>2, <2>3
<1>4. all = Body(all)
    BY <1>2, <1>3
<1> HIDE DEF all
<1>5. parsed = Body(parsed)
    BY <1>4
<1>6. \A n \in Nat : ParseFirst(w, items, n) = parsed[n]
    BY DEF ParseFirst
<1> HIDE DEF parsed
<1>7. parsed[0] = w
    BY <1>5
<1>8. \A n \in Nat : parsed[n + 1] = Element(parsed[n], items[n + 1])
    BY <1>5
<1> QED
    BY <1>6, <1>7, <1>8
-----------------------------------------------------------------------------
(* Work units and their elements *)

Items == [tag : Tags, name : STRING, list : Lists \cup {NoText}]

\* What is known of a reply and its items.
LEMMA ReplyItems ==
    ASSUME NEW r \in Replies
    PROVE  /\ r \in Seq(Items) /\ Len(r) \in Nat /\ DOMAIN r = 1..Len(r)
           /\ \A k \in 1..Len(r) : r[k] \in Items
           /\ \A k \in ItemsOf(r, "file_info") \cup ItemsOf(r, "file_ref") :
                 r[k].name \in DOMAIN OpenName
           /\ RefersToItsFiles(r) /\ NamesItsResults(r) /\ HasInputsOfItsOwn(r)
<1>1. r \in Seq(Items)
    BY RepliesAssumption DEF Items
<1>2. Len(r) \in Nat /\ DOMAIN r = 1..Len(r) /\ \A k \in 1..Len(r) : r[k] \in Items
    BY <1>1, ElementOfSeq, LenProperties
<1> QED
    BY <1>1, <1>2, RepliesAssumption, NamesAssumption DEF ItemsOf

IsWorkUnit(w) ==
    /\ w = [delay |-> w.delay, hasResult |-> w.hasResult, result |-> w.result,
            names |-> w.names, next |-> w.next, head |-> w.head]
    /\ w.delay \in BOOLEAN /\ w.hasResult \in BOOLEAN
    /\ w.names \in Seq(DOMAIN OpenName) /\ w.next \in Seq(Nat)
    /\ w.head \in [Lists -> Nat]

EndsIn(w, ring) == \E f \in ring : w.next[f] \notin ring

\* A work unit whose pointers lead to its file infos and in no circle.
IsLinked(w) ==
    /\ IsWorkUnit(w) /\ Len(w.next) = Len(w.names)
    /\ \A f \in Infos(w) : w.next[f] \in Infos(w) \cup {0}
    /\ \A list \in Lists : w.head[list] \in Infos(w) \cup {0}
    /\ \A ring \in SUBSET Infos(w) : ring # {} => EndsIn(w, ring)

\* No pointer leads to a file info, or from it.
Untouched(w, f) ==
    /\ w.next[f] = 0
    /\ \A g \in Infos(w) : w.next[g] # f
    /\ \A list \in Lists : w.head[list] # f

\* What the elements do: to the results ...
SetsResult(v, item, u) ==
    CASE item.tag = "result" -> u.hasResult /\ u.result = NoText
      [] item.tag = "result>name" ->
            /\ u.hasResult = v.hasResult
            /\ u.result = IF v.result = NoText THEN item.name ELSE v.result
      [] OTHER -> u.hasResult = v.hasResult /\ u.result = v.result

\* ... to the file infos, nothing ...
KeepsFiles(v, u) ==
    /\ u.names = v.names /\ u.next = v.next
    /\ \A list \in Lists : u.head[list] \in {v.head[list], 0}
    /\ u.head["input"] = v.head["input"]

\* ... one more ...
AddsFile(v, name, u) ==
    LET new == Len(v.names) + 1
    IN  /\ Len(u.names) = new /\ u.names[new] = name /\ u.next[new] = 0
        /\ \A f \in Infos(v) : u.names[f] = v.names[f] /\ u.next[f] = v.next[f]
        /\ u.head = v.head

\* ... or one at the head of a list.
PushesFile(v, f, list, u) ==
    /\ u.names = v.names
    /\ u.next[f] = IF v.head[list] # 0 THEN v.head[list] ELSE v.next[f]
    /\ \A g \in Infos(v) \ {f} : u.next[g] = v.next[g]
    /\ u.head[list] = f
    /\ \A other \in Lists \ {list} : u.head[other] = v.head[other]

\* The parts of a work unit have their types.
LEMMA InfosOf ==
    ASSUME NEW w, IsWorkUnit(w)
    PROVE  /\ Len(w.names) \in Nat /\ Infos(w) = 1..Len(w.names)
           /\ w.names \in Seq(DOMAIN OpenName) /\ w.next \in Seq(Nat)
           /\ \A f \in Infos(w) : w.names[f] \in DOMAIN OpenName
           /\ w.head \in [Lists -> Nat]
           /\ w.delay \in BOOLEAN /\ w.hasResult \in BOOLEAN
<1>1. w.names \in Seq(DOMAIN OpenName) /\ w.next \in Seq(Nat)
    BY DEF IsWorkUnit
<1>2. w.head \in [Lists -> Nat]
    BY DEF IsWorkUnit
<1>3. w.delay \in BOOLEAN /\ w.hasResult \in BOOLEAN
    BY DEF IsWorkUnit
<1> QED
    BY <1>1, <1>2, <1>3, ElementOfSeq, LenProperties DEF Infos

\* The search of a name that was described finds the file info described last.
LEMMA NewestIsDescribed ==
    ASSUME NEW w, IsWorkUnit(w), NEW name, Described(w, name) # {}
    PROVE  /\ Newest(w, name) \in Described(w, name)
           /\ \A f \in Described(w, name) : f <= Newest(w, name)
<1> DEFINE D == Described(w, name)
           n == Len(w.names)
           T == {k \in Nat : n - k \in D}
<1>1. D \subseteq 1..n /\ n \in Nat
    BY InfosOf DEF Described
<1>2. PICK k \in T : \A j \in T : k <= j
    <2>1. PICK d \in D : TRUE
        OBVIOUS
    <2>2. n - d \in Nat /\ n - (n - d) = d
        BY <1>1, <2>1
    <2>3. n - d \in T
        BY <2>1, <2>2
    <2>4. T \in SUBSET Nat /\ T # {}
        BY <2>3
    <2> QED
        BY <2>4, LeastOfNaturals
<1>3. n - k \in D
    BY <1>2
<1>4. \A f \in D : f <= n - k
    <2> TAKE f \in D
    <2>1. n - f \in Nat /\ n - (n - f) = f
        BY <1>1
    <2>2. n - f \in T
        BY <2>1
    <2> QED
        BY <1>1, <1>2, <2>1, <2>2
<1>5. \E m \in D : \A f \in D : m >= f
    BY <1>1, <1>3, <1>4
<1> HIDE DEF D
<1>6. Newest(w, name) \in D /\ \A f \in D : Newest(w, name) >= f
    BY <1>5 DEF Newest, Max, D
<1> QED
    BY <1>1, <1>6 DEF D

\* Each element keeps the type of the work unit and has one of the effects above.
LEMMA ElementCases ==
    ASSUME NEW v, IsWorkUnit(v), Len(v.next) = Len(v.names), NEW item \in Items,
           item.tag \in {"file_info", "file_ref"} => item.name \in DOMAIN OpenName,
           item.tag = "file_ref" => item.list \in Lists
    PROVE  LET u == Element(v, item)
               f == Newest(v, item.name)
           IN  /\ IsWorkUnit(u) /\ Len(u.next) = Len(u.names)
               /\ SetsResult(v, item, u)
               /\ item.tag \notin {"file_info", "file_ref"} => KeepsFiles(v, u)
               /\ item.tag = "file_info" => AddsFile(v, item.name, u)
               /\ item.tag = "file_ref" /\ Described(v, item.name) = {} => u = v
               /\ item.tag = "file_ref" /\ Described(v, item.name) # {}
                     => PushesFile(v, f, item.list, u)
<1> DEFINE u == Element(v, item)
           f == Newest(v, item.name)
<1>1. item.tag \in Tags /\ item.list \in Lists \cup {NoText}
    BY DEF Items
<1>2. /\ v.names \in Seq(DOMAIN OpenName) /\ v.next \in Seq(Nat) /\ Len(v.names) \in Nat
      /\ Infos(v) = 1..Len(v.names) /\ v.head \in [Lists -> Nat]
      /\ v.delay \in BOOLEAN /\ v.hasResult \in BOOLEAN
    BY InfosOf
<1>3. CASE item.tag = "request_delay"
    <2>1. u = [v EXCEPT !.delay = TRUE]
        BY <1>3 DEF Element
    <2>2. IsWorkUnit(u) /\ u.names = v.names /\ u.next = v.next /\ u.head = v.head
        BY <2>1 DEF IsWorkUnit
    <2>3. u.hasResult = v.hasResult /\ u.result = v.result
        BY <2>1 DEF IsWorkUnit
    <2> QED
        BY <1>3, <2>2, <2>3 DEF SetsResult, KeepsFiles
<1>4. CASE item.tag = "app_version"
    <2>1. u = [v EXCEPT !.head["app"] = 0]
        BY <1>4 DEF Element
    <2>2. u.head = [v.head EXCEPT !["app"] = 0]
        BY <2>1 DEF IsWorkUnit
    <2>3. IsWorkUnit(u) /\ u.names = v.names /\ u.next = v.next
        <3>1. u = [v EXCEPT !.head = [v.head EXCEPT !["app"] = 0]]
            BY <2>1
        <3>2. [v.head EXCEPT !["app"] = 0] \in [Lists -> Nat]
            BY <1>2
        <3> QED
            BY <3>1, <3>2 DEF IsWorkUnit
    <2>4. u.hasResult = v.hasResult /\ u.result = v.result
        BY <2>1 DEF IsWorkUnit
    <2>5. KeepsFiles(v, u)
        BY <1>2, <2>2, <2>3 DEF KeepsFiles, Lists
    <2> QED
        BY <1>4, <2>3, <2>4, <2>5 DEF SetsResult
<1>5. CASE item.tag = "result"
    <2>1. u = [v EXCEPT !.hasResult = TRUE, !.result = NoText, !.head["output"] = 0]
        BY <1>5 DEF Element, NewResult
    <2>2. u.head = [v.head EXCEPT !["output"] = 0] /\ u.hasResult /\ u.result = NoText
        BY <2>1 DEF IsWorkUnit
    <2>3. IsWorkUnit(u) /\ u.names = v.names /\ u.next = v.next
        <3>1. u = [v EXCEPT !.hasResult = TRUE, !.result = NoText,
                            !.head = [v.head EXCEPT !["output"] = 0]]
            BY <2>1
        <3>2. [v.head EXCEPT !["output"] = 0] \in [Lists -> Nat]
            BY <1>2
        <3> QED
            BY <1>2, <3>1, <3>2 DEF IsWorkUnit
    <2>4. KeepsFiles(v, u)
        BY <1>2, <2>2, <2>3 DEF KeepsFiles, Lists
    <2> QED
        BY <1>5, <2>2, <2>3, <2>4 DEF SetsResult
<1>6. CASE item.tag = "result>name"
    <2>1. u = [v EXCEPT !.result = IF v.result = NoText THEN item.name ELSE v.result]
        BY <1>6 DEF Element
    <2>2. IsWorkUnit(u) /\ u.names = v.names /\ u.next = v.next /\ u.head = v.head
        BY <1>1, <1>2, <2>1 DEF IsWorkUnit
    <2>3. /\ u.hasResult = v.hasResult
          /\ u.result = IF v.result = NoText THEN item.name ELSE v.result
        BY <2>1 DEF IsWorkUnit
    <2> QED
        BY <1>6, <2>2, <2>3 DEF SetsResult, KeepsFiles
<1>7. CASE item.tag = "file_info"
    <2>1. u = [v EXCEPT !.names = Append(v.names, item.name),
                        !.next = Append(v.next, 0)]
        BY <1>7 DEF Element
    <2>2. /\ u.names = Append(v.names, item.name) /\ u.next = Append(v.next, 0)
          /\ u.head = v.head /\ u.hasResult = v.hasResult /\ u.result = v.result
        BY <2>1 DEF IsWorkUnit
    <2>3. /\ u.names \in Seq(DOMAIN OpenName) /\ u.next \in Seq(Nat)
          /\ Len(u.names) = Len(v.names) + 1 /\ Len(u.next) = Len(v.next) + 1
        BY <1>2, <1>7, <2>2
    <2>4. IsWorkUnit(u)
        BY <2>1, <2>2, <2>3 DEF IsWorkUnit
    <2>5. AddsFile(v, item.name, u)
        BY <1>2, <2>2, <2>3 DEF AddsFile
    <2> QED
        BY <1>7, <2>2, <2>3, <2>4, <2>5 DEF SetsResult
<1>8. CASE item.tag = "file_ref" /\ Described(v, item.name) = {}
    <2>1. u = v
        BY <1>8 DEF Element, Refer
    <2> QED
        BY <1>8, <2>1 DEF SetsResult
<1>9. CASE item.tag = "file_ref" /\ Described(v, item.name) # {}
    <2> DEFINE list == item.list
               n == IF v.head[list] # 0 THEN v.head[list] ELSE v.next[f]
    <2>1. f \in Infos(v)
        BY <1>9, NewestIsDescribed DEF Described
    <2> HIDE DEF f
    <2>2. u = [v EXCEPT !.next[f] = n, !.head[list] = f]
        BY <1>9 DEF Element, Refer, f
    <2>3. /\ u.names = v.names /\ u.next = [v.next EXCEPT ![f] = n]
          /\ u.head = [v.head EXCEPT ![list] = f]
          /\ u.hasResult = v.hasResult /\ u.result = v.result
        BY <2>2 DEF IsWorkUnit
    <2>4. f \in 1..Len(v.next) /\ f \in Nat /\ v.next[f] \in Nat
        BY <1>2, <2>1, ElementOfSeq
    <2>5. list \in Lists /\ n \in Nat
        BY <1>2, <1>9, <2>4
    <2> HIDE DEF n
    <2>6. u.next \in Seq(Nat) /\ Len(u.next) = Len(u.names)
        BY <1>2, <2>3, <2>4, <2>5, ExceptSeq
    <2>7. u.head \in [Lists -> Nat]
        BY <1>2, <2>3, <2>4
    <2>8. IsWorkUnit(u)
        <3>1. u = [v EXCEPT !.next = [v.next EXCEPT ![f] = n],
                            !.head = [v.head EXCEPT ![list] = f]]
            BY <2>2
        <3> QED
            BY <2>3, <2>6, <2>7, <3>1 DEF IsWorkUnit
    <2>9. PushesFile(v, f, list, u)
        <3>1. u.next[f] = n /\ \A g \in Infos(v) \ {f} : u.next[g] = v.next[g]
            BY <1>2, <2>1, <2>3, <2>4, <2>5, ExceptSeq
        <3>2. /\ u.head[list] = f
              /\ \A other \in Lists \ {list} : u.head[other] = v.head[other]
            BY <1>2, <2>3, <2>5
        <3> QED
            BY <2>3, <3>1, <3>2 DEF PushesFile, n
    <2> QED
        BY <1>9, <2>3, <2>6, <2>8, <2>9 DEF SetsResult, f
<1> QED
    BY <1>1, <1>3, <1>4, <1>5, <1>6, <1>7, <1>8, <1>9 DEF Tags
-----------------------------------------------------------------------------
(* What each effect does to the lists *)

\* D has what the list has from f on.
Holds(w, f, D) ==
    /\ D \subseteq Infos(w) /\ f \in D \cup {0}
    /\ \A g \in D : w.next[g] \in D \cup {0}

\* An element that is not about a file leaves the lists as they are, or empties one.
LEMMA KeepingFiles ==
    ASSUME NEW v, NEW u, IsLinked(v), IsWorkUnit(u), Len(u.next) = Len(u.names),
           KeepsFiles(v, u)
    PROVE  /\ IsLinked(u) /\ Infos(u) = Infos(v) /\ 0 \notin Infos(v)
           /\ \A f \in Infos(v) : Untouched(v, f) => Untouched(u, f)
           /\ \A D : Holds(u, u.head["input"], D) <=> Holds(v, v.head["input"], D)
<1>1. Infos(u) = Infos(v) /\ 0 \notin Infos(v)
    BY InfosOf DEF IsLinked, KeepsFiles, Infos
<1>2. IsLinked(u)
    BY <1>1 DEF IsLinked, KeepsFiles, EndsIn
<1>3. \A f \in Infos(v) : Untouched(v, f) => Untouched(u, f)
    BY <1>1 DEF Untouched, KeepsFiles
<1>4. \A D : Holds(u, u.head["input"], D) <=> Holds(v, v.head["input"], D)
    BY <1>1 DEF Holds, KeepsFiles
<1> QED
    BY <1>1, <1>2, <1>3, <1>4

\* A file that is described is on no list; the lists keep what they have.
LEMMA AddingFile ==
    ASSUME NEW v, NEW u, NEW name, IsLinked(v), IsWorkUnit(u),
           Len(u.next) = Len(u.names), AddsFile(v, name, u)
    PROVE  LET new == Len(v.names) + 1
           IN  /\ IsLinked(u) /\ Infos(u) = Infos(v) \cup {new} /\ new \notin Infos(v)
               /\ 0 \notin Infos(v) /\ Untouched(u, new)
               /\ \A f \in Infos(v) : Untouched(v, f) => Untouched(u, f)
               /\ \A D : Holds(u, u.head["input"], D) =>
                            Holds(v, v.head["input"], D \ {new})
               /\ \A D : Holds(v, v.head["input"], D) => Holds(u, u.head["input"], D)
<1> DEFINE new == Len(v.names) + 1
<1>1. /\ Infos(v) = 1..Len(v.names) /\ Infos(u) = 1..Len(u.names)
      /\ Len(v.names) \in Nat /\ Len(u.names) = new
    BY InfosOf DEF IsLinked, AddsFile
<1>2. /\ Infos(u) = Infos(v) \cup {new} /\ new \notin Infos(v) /\ 0 \notin Infos(v)
      /\ new # 0
    BY <1>1
<1> HIDE DEF new
<1>3. /\ u.next[new] = 0 /\ u.head = v.head
      /\ \A f \in Infos(v) : u.next[f] = v.next[f]
    BY DEF AddsFile, new
<1>4. /\ \A f \in Infos(v) : v.next[f] \in Infos(v) \cup {0}
      /\ \A list \in Lists : v.head[list] \in Infos(v) \cup {0}
      /\ \A ring \in SUBSET Infos(v) : ring # {} => EndsIn(v, ring)
    BY DEF IsLinked
<1>5. ASSUME NEW ring \in SUBSET Infos(u), ring # {} PROVE EndsIn(u, ring)
    <2>1. CASE new \in ring
        BY <1>2, <1>3, <2>1 DEF EndsIn
    <2>2. CASE new \notin ring
        <3>1. EndsIn(v, ring)
            BY <1>2, <1>4, <1>5, <2>2
        <3> QED
            BY <1>2, <1>3, <2>2, <3>1 DEF EndsIn
    <2> QED
        BY <2>1, <2>2
<1>6. IsLinked(u)
    BY <1>2, <1>3, <1>4, <1>5 DEF IsLinked
<1>7. Untouched(u, new)
    BY <1>2, <1>3, <1>4 DEF Untouched
<1>8. \A f \in Infos(v) : Untouched(v, f) => Untouched(u, f)
    BY <1>2, <1>3, <1>4 DEF Untouched
<1>9. "input" \in Lists
    BY DEF Lists
<1>10. \A D : Holds(u, u.head["input"], D) => Holds(v, v.head["input"], D \ {new})
    BY <1>2, <1>3, <1>4, <1>9 DEF Holds
<1>11. \A D : Holds(v, v.head["input"], D) => Holds(u, u.head["input"], D)
    BY <1>2, <1>3, <1>4, <1>9 DEF Holds
<1> QED
    BY <1>2, <1>6, <1>7, <1>8, <1>10, <1>11 DEF new

\* A file that was on no list gets to the head of one: no list runs into a circle,
\* the list has one file more, and other files stay on their lists or on none.
LEMMA PushingFile ==
    ASSUME NEW v, NEW u, NEW f \in Infos(v), NEW list \in Lists,
           IsLinked(v), IsWorkUnit(u), Len(u.next) = Len(u.names),
           Untouched(v, f), PushesFile(v, f, list, u)
    PROVE  /\ IsLinked(u) /\ Infos(u) = Infos(v) /\ 0 \notin Infos(v)
           /\ \A g \in Infos(v) \ {f} : Untouched(v, g) => Untouched(u, g)
           /\ list = "input" => \A D :
                /\ Holds(u, u.head["input"], D) =>
                      f \in D /\ Holds(v, v.head["input"], D \ {f})
                /\ Holds(v, v.head["input"], D) => Holds(u, u.head["input"], D \cup {f})
           /\ list # "input" => \A D :
                /\ Holds(u, u.head["input"], D) => Holds(v, v.head["input"], D)
                /\ Holds(v, v.head["input"], D) /\ f \notin D =>
                      Holds(u, u.head["input"], D)
<1>1. Infos(u) = Infos(v) /\ 0 \notin Infos(v)
    BY InfosOf DEF IsLinked, PushesFile, Infos
<1>2. /\ v.next[f] = 0 /\ u.next[f] = v.head[list] /\ v.head[list] # f
      /\ \A g \in Infos(v) \ {f} : u.next[g] = v.next[g] /\ v.next[g] # f
      /\ u.head[list] = f
      /\ \A other \in Lists \ {list} :
            u.head[other] = v.head[other] /\ v.head[other] # f
    BY DEF PushesFile, Untouched
<1>3. /\ \A g \in Infos(v) : v.next[g] \in Infos(v) \cup {0}
      /\ \A other \in Lists : v.head[other] \in Infos(v) \cup {0}
      /\ \A ring \in SUBSET Infos(v) : ring # {} => EndsIn(v, ring)
    BY DEF IsLinked
<1>4. ASSUME NEW ring \in SUBSET Infos(u), ring # {} PROVE EndsIn(u, ring)
    <2>1. CASE f \in ring /\ ring # {f}
        <3>1. EndsIn(v, ring \ {f})
            BY <1>1, <1>3, <2>1
        <3> QED
            BY <1>1, <1>2, <3>1 DEF EndsIn
    <2>2. CASE ring = {f}
        BY <1>2, <2>2 DEF EndsIn
    <2>3. CASE f \notin ring
        <3>1. EndsIn(v, ring)
            BY <1>1, <1>3, <1>4
        <3> QED
            BY <1>1, <1>2, <2>3, <3>1 DEF EndsIn
    <2> QED
        BY <2>1, <2>2, <2>3
<1>5. IsLinked(u)
    <2>1. \A g \in Infos(u) : u.next[g] \in Infos(u) \cup {0}
        BY <1>1, <1>2, <1>3
    <2>2. \A other \in Lists : u.head[other] \in Infos(u) \cup {0}
        BY <1>1, <1>2, <1>3
    <2> QED
        BY <1>4, <2>1, <2>2 DEF IsLinked
<1>6. \A g \in Infos(v) \ {f} : Untouched(v, g) => Untouched(u, g)
    BY <1>1, <1>2 DEF Untouched
<1>7. "input" \in Lists
    BY DEF Lists
<1>8. ASSUME list = "input", NEW D
      PROVE  /\ Holds(u, u.head["input"], D) =>
                   f \in D /\ Holds(v, v.head["input"], D \ {f})
             /\ Holds(v, v.head["input"], D) => Holds(u, u.head["input"], D \cup {f})
    <2>1. Holds(u, u.head["input"], D) => f \in D /\ Holds(v, v.head["input"], D \ {f})
        BY <1>1, <1>2, <1>8 DEF Holds
    <2>2. Holds(v, v.head["input"], D) => Holds(u, u.head["input"], D \cup {f})
        BY <1>1, <1>2, <1>8 DEF Holds
    <2> QED
        BY <2>1, <2>2
<1>9. ASSUME list # "input", NEW D
      PROVE  /\ Holds(u, u.head["input"], D) => Holds(v, v.head["input"], D)
             /\ Holds(v, v.head["input"], D) /\ f \notin D =>
                   Holds(u, u.head["input"], D)
    <2>1. u.head["input"] = v.head["input"]
        BY <1>2, <1>7, <1>9
    <2>2. Holds(u, u.head["input"], D) => Holds(v, v.head["input"], D)
        BY <1>1, <1>2, <2>1 DEF Holds
    <2>3. Holds(v, v.head["input"], D) /\ f \notin D => Holds(u, u.head["input"], D)
        BY <1>1, <1>2, <2>1 DEF Holds
    <2> QED
        BY <2>2, <2>3
<1> QED
    BY <1>1, <1>5, <1>6, <1>8, <1>9
-----------------------------------------------------------------------------
(* What the first n elements of a reply make of a work unit *)

New(w, v) == {f \in Infos(v) : f > Len(w.names)}
Naming == {"result", "result>name"}

\* The files that were described are there, and those not referred to are free.
FilesKnown(w, r, n, v) ==
    /\ \A j \in ItemsOf(r, "file_info") : j <= n =>
          \E f \in New(w, v) : v.names[f] = r[j].name
    /\ \A f \in New(w, v) :
          (\A j \in ItemsOf(r, "file_ref") : j <= n => r[j].name # v.names[f])
             => Untouched(v, f)

\* The result is the one that was begun or named last.
ResultKnown(r, n, v) ==
    \A k \in 1..n :
        r[k].tag \in Naming /\ (\A i \in (k + 1)..n : r[i].tag \notin Naming) =>
            /\ v.hasResult
            /\ v.result = IF r[k].tag = "result" THEN NoText ELSE r[k].name

\* The list of the inputs has the files that were referred to as such ...
HasInputs(r, n, v) ==
    \A D \in SUBSET Infos(v) : Holds(v, v.head["input"], D) =>
        \A k \in InputsOf(r) : k <= n => \E f \in D : v.names[f] = r[k].name

\* ... and nothing else, if it was empty.
HasOnlyInputs(r, n, v) ==
    \E D \in SUBSET Infos(v) :
        /\ Holds(v, v.head["input"], D)
        /\ \A f \in D : \E k \in InputsOf(r) : k <= n /\ v.names[f] = r[k].name

IsBlank(w) == w.names = << >>

Follows(w, r, n, v) ==
    /\ IsLinked(v) /\ Len(w.names) <= Len(v.names)
    /\ FilesKnown(w, r, n, v) /\ ResultKnown(r, n, v) /\ HasInputs(r, n, v)
    /\ IsBlank(w) => HasOnlyInputs(r, n, v)

\* Before the first element.
LEMMA FollowsFirst ==
    ASSUME NEW w, IsLinked(w), NEW r \in Replies
    PROVE  Follows(w, r, 0, w)
<1>1. /\ Infos(w) = 1..Len(w.names) /\ Len(w.names) \in Nat
      /\ \A tag : ItemsOf(r, tag) \subseteq 1..Len(r)
      /\ InputsOf(r) \subseteq 1..Len(r) /\ Len(r) \in Nat
    BY InfosOf, ReplyItems DEF IsLinked, ItemsOf, InputsOf
<1>2. New(w, w) = {}
    BY <1>1 DEF New
<1>3. ASSUME IsBlank(w) PROVE HasOnlyInputs(r, 0, w)
    <2>1. Infos(w) = {}
        BY <1>3 DEF IsBlank, Infos
    <2>2. Holds(w, w.head["input"], {})
        BY <2>1 DEF Holds, IsLinked, Lists
    <2> QED
        BY <2>2 DEF HasOnlyInputs
<1>4. FilesKnown(w, r, 0, w) /\ HasInputs(r, 0, w) /\ ResultKnown(r, 0, w)
    BY <1>1, <1>2 DEF FilesKnown, HasInputs, ResultKnown
<1> QED
    BY <1>1, <1>3, <1>4 DEF Follows

\* The next element keeps track of the result.
LEMMA ResultStep ==
    ASSUME NEW r \in Replies, NEW n \in Nat, n < Len(r), NEW v, NEW u,
           SetsResult(v, r[n + 1], u), ResultKnown(r, n, v)
    PROVE  ResultKnown(r, n + 1, u)
<1> DEFINE item == r[n + 1]
<1>0. n + 1 \in 1..Len(r) /\ DOMAIN r = 1..Len(r) /\ Len(r) \in Nat
    BY ReplyItems
<1>1. SUFFICES ASSUME NEW k \in 1..(n + 1), r[k].tag \in Naming,
                      \A i \in (k + 1)..(n + 1) : r[i].tag \notin Naming
               PROVE  /\ u.hasResult
                      /\ u.result = IF r[k].tag = "result" THEN NoText ELSE r[k].name
    BY DEF ResultKnown
<1>2. CASE k # n + 1
    <2>1. /\ k \in 1..n /\ item.tag \notin Naming
          /\ \A i \in (k + 1)..n : r[i].tag \notin Naming
        BY <1>1, <1>2
    <2>2. v.hasResult /\ v.result = IF r[k].tag = "result" THEN NoText ELSE r[k].name
        BY <1>1, <2>1 DEF ResultKnown
    <2>3. u.hasResult = v.hasResult /\ u.result = v.result
        BY <2>1 DEF SetsResult, Naming
    <2> QED
        BY <2>2, <2>3
<1>3. CASE k = n + 1 /\ item.tag = "result"
    BY <1>3 DEF SetsResult
<1>4. CASE k = n + 1 /\ item.tag = "result>name"
    <2>1. n + 1 \in ItemsOf(r, "result>name")
        BY <1>0, <1>4 DEF ItemsOf
    <2>2. PICK j \in ItemsOf(r, "result") :
              j < n + 1 /\ \A i \in (j + 1)..(n + 1 - 1) : r[i].tag \notin Naming
        BY <2>1, ReplyItems DEF NamesItsResults, Naming
    <2>3. /\ j \in 1..n /\ r[j].tag = "result"
          /\ \A i \in (j + 1)..n : r[i].tag \notin Naming
        BY <1>0, <2>2 DEF ItemsOf
    <2>4. v.hasResult /\ v.result = NoText
        BY <2>3 DEF ResultKnown, Naming
    <2> QED
        BY <1>4, <2>4 DEF SetsResult
<1> QED
    BY <1>1, <1>2, <1>3, <1>4 DEF Naming

\* The next element keeps track of files, lists and result.  A file reference finds
\* a file info of this reply that is on no list, since it is the first reference to it.
LEMMA FollowsStep ==
    ASSUME NEW r \in Replies, NEW n \in Nat, n < Len(r), NEW w, IsLinked(w),
           NEW v, Follows(w, r, n, v)
    PROVE  Follows(w, r, n + 1, Element(v, r[n + 1]))
<1> DEFINE item == r[n + 1]
           u == Element(v, item)
           m == n + 1
<1>1. /\ item \in Items /\ m \in 1..Len(r) /\ DOMAIN r = 1..Len(r) /\ Len(r) \in Nat
      /\ \A tag : ItemsOf(r, tag) \subseteq 1..Len(r)
      /\ InputsOf(r) = {k \in ItemsOf(r, "file_ref") : r[k].list = "input"}
    BY ReplyItems DEF ItemsOf, InputsOf
<1>2. \A tag : item.tag = tag <=> m \in ItemsOf(r, tag)
    BY <1>1 DEF ItemsOf
<1>3. /\ item.tag \in {"file_info", "file_ref"} => item.name \in DOMAIN OpenName
      /\ item.tag = "file_ref" => item.list \in Lists
    BY <1>2, ReplyItems DEF RefersToItsFiles
<1>4. /\ IsLinked(v) /\ Len(w.names) <= Len(v.names) /\ FilesKnown(w, r, n, v)
      /\ HasInputs(r, n, v) /\ ResultKnown(r, n, v)
      /\ IsBlank(w) => HasOnlyInputs(r, n, v)
    BY DEF Follows
<1>5. IsWorkUnit(v) /\ Len(v.next) = Len(v.names)
    BY <1>4 DEF IsLinked
<1>6. /\ IsWorkUnit(u) /\ Len(u.next) = Len(u.names) /\ SetsResult(v, item, u)
      /\ item.tag \notin {"file_info", "file_ref"} => KeepsFiles(v, u)
      /\ item.tag = "file_info" => AddsFile(v, item.name, u)
      /\ item.tag = "file_ref" /\ Described(v, item.name) # {}
            => PushesFile(v, Newest(v, item.name), item.list, u)
    BY <1>1, <1>3, <1>5, ElementCases
<1>7. /\ Len(v.names) \in Nat /\ Len(w.names) \in Nat /\ Infos(v) = 1..Len(v.names)
      /\ Infos(u) = 1..Len(u.names) /\ Len(u.names) \in Nat
    BY <1>5, <1>6, InfosOf DEF IsLinked
<1> SUFFICES Follows(w, r, m, u)
    OBVIOUS
<1> HIDE DEF item, u
<1>8. ResultKnown(r, m, u)
    BY <1>4, <1>6, ResultStep DEF item
<1>9. \A k \in ItemsOf(r, "file_ref") :
         k <= m => k <= n \/ (k = m /\ item.tag = "file_ref")
    <2> TAKE k \in ItemsOf(r, "file_ref")
    <2>1. k <= m => k <= n \/ k = m
        BY <1>1
    <2>2. k = m => item.tag = "file_ref"
        BY <1>2
    <2> QED
        BY <2>1, <2>2
<1>10. \A k \in ItemsOf(r, "file_info") :
          k <= m => k <= n \/ (k = m /\ item.tag = "file_info")
    <2> TAKE k \in ItemsOf(r, "file_info")
    <2>1. k <= m => k <= n \/ k = m
        BY <1>1
    <2>2. k = m => item.tag = "file_info"
        BY <1>2
    <2> QED
        BY <2>1, <2>2
<1>11. CASE item.tag \notin {"file_info", "file_ref"}
    <2>1. /\ IsLinked(u) /\ Infos(u) = Infos(v) /\ u.names = v.names
          /\ \A f \in Infos(v) : Untouched(v, f) => Untouched(u, f)
          /\ \A D : Holds(u, u.head["input"], D) <=> Holds(v, v.head["input"], D)
        BY <1>4, <1>6, <1>11, KeepingFiles DEF KeepsFiles
    <2>2. FilesKnown(w, r, m, u)
        BY <1>1, <1>4, <1>10, <1>11, <2>1 DEF FilesKnown, New
    <2>3. HasInputs(r, m, u)
        BY <1>1, <1>4, <1>9, <1>11, <2>1 DEF HasInputs
    <2>4. HasOnlyInputs(r, n, v) => HasOnlyInputs(r, m, u)
        BY <1>1, <2>1 DEF HasOnlyInputs
    <2> QED
        BY <1>4, <1>8, <2>1, <2>2, <2>3, <2>4 DEF Follows
<1>12. CASE item.tag = "file_info"
    <2> DEFINE new == Len(v.names) + 1
    <2>1. /\ IsLinked(u) /\ Infos(u) = Infos(v) \cup {new} /\ new \notin Infos(v)
          /\ Untouched(u, new)
          /\ \A f \in Infos(v) : Untouched(v, f) => Untouched(u, f)
          /\ \A D : Holds(u, u.head["input"], D) => Holds(v, v.head["input"], D \ {new})
          /\ \A D : Holds(v, v.head["input"], D) => Holds(u, u.head["input"], D)
        BY <1>4, <1>6, <1>12, AddingFile
    <2>2. /\ u.names[new] = item.name /\ \A f \in Infos(v) : u.names[f] = v.names[f]
          /\ Len(u.names) = new
        BY <1>6, <1>12 DEF AddsFile
    <2>3. new > Len(w.names) /\ New(w, v) = New(w, u) \ {new} /\ new \in New(w, u)
        BY <1>4, <1>7, <2>1 DEF New
    <2> HIDE DEF new
    <2>4. FilesKnown(w, r, m, u)
        <3>1. ASSUME NEW j \in ItemsOf(r, "file_info"), j <= m
              PROVE  \E f \in New(w, u) : u.names[f] = r[j].name
            <4>1. CASE j = m
                BY <2>2, <2>3, <4>1 DEF item
            <4>2. CASE j <= n
                BY <1>4, <2>2, <2>3, <4>2 DEF FilesKnown, New
            <4> QED
                BY <1>10, <3>1, <4>1, <4>2
        <3>2. ASSUME NEW f \in New(w, u),
                     \A j \in ItemsOf(r, "file_ref") : j <= m => r[j].name # u.names[f]
              PROVE  Untouched(u, f)
            <4>1. CASE f = new
                BY <2>1, <4>1
            <4>2. CASE f # new
                <5>1. f \in New(w, v) /\ f \in Infos(v) /\ u.names[f] = v.names[f]
                    BY <2>2, <2>3, <4>2 DEF New
                <5>2. \A j \in ItemsOf(r, "file_ref") : j <= n => r[j].name # v.names[f]
                    BY <1>1, <3>2, <5>1
                <5> QED
                    BY <1>4, <2>1, <5>1, <5>2 DEF FilesKnown
            <4> QED
                BY <4>1, <4>2
        <3> QED
            BY <3>1, <3>2 DEF FilesKnown
    <2>5. HasInputs(r, m, u)
        <3> SUFFICES ASSUME NEW D \in SUBSET Infos(u), Holds(u, u.head["input"], D),
                            NEW k \in InputsOf(r), k <= m
                     PROVE  \E f \in D : u.names[f] = r[k].name
            BY DEF HasInputs
        <3>1. k <= n
            BY <1>1, <1>9, <1>12
        <3>2. D \ {new} \in SUBSET Infos(v) /\ Holds(v, v.head["input"], D \ {new})
            BY <2>1
        <3>3. PICK f \in D \ {new} : v.names[f] = r[k].name
            BY <1>4, <3>1, <3>2 DEF HasInputs
        <3> QED
            BY <2>2, <3>2, <3>3
    <2>6. ASSUME HasOnlyInputs(r, n, v) PROVE HasOnlyInputs(r, m, u)
        <3>1. PICK D \in SUBSET Infos(v) :
                 /\ Holds(v, v.head["input"], D)
                 /\ \A f \in D : \E k \in InputsOf(r) : k <= n /\ v.names[f] = r[k].name
            BY <2>6 DEF HasOnlyInputs
        <3>2. \A f \in D : \E k \in InputsOf(r) : k <= m /\ u.names[f] = r[k].name
            BY <1>1, <2>2, <3>1
        <3> QED
            BY <2>1, <3>1, <3>2 DEF HasOnlyInputs
    <2> QED
        BY <1>4, <1>7, <1>8, <2>1, <2>2, <2>4, <2>5, <2>6 DEF Follows, new
<1>13. CASE item.tag = "file_ref"
    <2> DEFINE f == Newest(v, item.name)
    <2>1. /\ item.list \in Lists
          /\ \A j \in ItemsOf(r, "file_ref") : j <= n => r[j].name # item.name
        BY <1>1, <1>2, <1>3, <1>13, ReplyItems DEF RefersToItsFiles, item
    <2>2. PICK j \in ItemsOf(r, "file_info") : j <= n /\ r[j].name = item.name
        BY <1>1, <1>2, <1>13, ReplyItems DEF RefersToItsFiles, item
    <2>3. PICK g \in New(w, v) : v.names[g] = item.name
        BY <1>4, <2>2 DEF FilesKnown
    <2>4. g \in Described(v, item.name)
        BY <2>3 DEF New, Described
    <2>5. f \in Described(v, item.name) /\ g <= f
        BY <1>5, <2>4, NewestIsDescribed
    <2>6. f \in New(w, v) /\ v.names[f] = item.name
        BY <1>7, <2>3, <2>5 DEF New, Described
    <2>7. Untouched(v, f)
        BY <1>4, <2>1, <2>6 DEF FilesKnown
    <2>8. PushesFile(v, f, item.list, u) /\ u.names = v.names
        BY <1>6, <1>13, <2>4 DEF PushesFile
    <2>9. f \in Infos(v)
        BY <2>6 DEF New
    <2> HIDE DEF f
    <2>10. /\ IsLinked(u) /\ Infos(u) = Infos(v) /\ 0 \notin Infos(v)
           /\ \A h \in Infos(v) \ {f} : Untouched(v, h) => Untouched(u, h)
           /\ item.list = "input" => \A D :
                 /\ Holds(u, u.head["input"], D) =>
                       f \in D /\ Holds(v, v.head["input"], D \ {f})
                 /\ Holds(v, v.head["input"], D) =>
                       Holds(u, u.head["input"], D \cup {f})
           /\ item.list # "input" => \A D :
                 /\ Holds(u, u.head["input"], D) => Holds(v, v.head["input"], D)
                 /\ Holds(v, v.head["input"], D) /\ f \notin D
                       => Holds(u, u.head["input"], D)
        <3> DEFINE list == item.list
        <3>1. /\ PushesFile(v, f, list, u) /\ list \in Lists
              /\ f \in Infos(v) /\ Untouched(v, f)
            BY <2>1, <2>7, <2>8, <2>9
        <3>2. IsLinked(v) /\ IsWorkUnit(u) /\ Len(u.next) = Len(u.names)
            BY <1>4, <1>6
        <3> HIDE DEF list
        <3>3. /\ IsLinked(u) /\ Infos(u) = Infos(v) /\ 0 \notin Infos(v)
              /\ \A h \in Infos(v) \ {f} : Untouched(v, h) => Untouched(u, h)
            BY <3>1, <3>2, PushingFile
        <3>4. list = "input" => \A D :
                 /\ Holds(u, u.head["input"], D) =>
                       f \in D /\ Holds(v, v.head["input"], D \ {f})
                 /\ Holds(v, v.head["input"], D) =>
                       Holds(u, u.head["input"], D \cup {f})
            BY <3>1, <3>2, PushingFile
        <3>5. list # "input" => \A D :
                 /\ Holds(u, u.head["input"], D) => Holds(v, v.head["input"], D)
                 /\ Holds(v, v.head["input"], D) /\ f \notin D
                       => Holds(u, u.head["input"], D)
            BY <3>1, <3>2, PushingFile
        <3> QED
            BY <3>3, <3>4, <3>5 DEF list
    <2>11. FilesKnown(w, r, m, u)
        <3>1. New(w, u) = New(w, v)
            BY <2>10 DEF New
        <3>2. \A k \in ItemsOf(r, "file_info") : k <= m => k <= n
            BY <1>10, <1>13
        <3>3. ASSUME NEW h \in New(w, u),
                     \A k \in ItemsOf(r, "file_ref") : k <= m => r[k].name # u.names[h]
              PROVE  Untouched(u, h)
            <4>1. h # f
                BY <1>1, <1>2, <1>13, <2>6, <2>8, <3>3 DEF item
            <4>2. \A k \in ItemsOf(r, "file_ref") : k <= n => r[k].name # v.names[h]
                BY <1>1, <2>8, <3>3
            <4>3. Untouched(v, h) /\ h \in Infos(v)
                BY <1>4, <3>1, <4>2 DEF FilesKnown, New
            <4> QED
                BY <2>10, <4>1, <4>3
        <3> QED
            BY <1>4, <2>8, <3>1, <3>2, <3>3 DEF FilesKnown
    <2>12. HasInputs(r, m, u)
        <3> SUFFICES ASSUME NEW D \in SUBSET Infos(u), Holds(u, u.head["input"], D),
                            NEW k \in InputsOf(r), k <= m
                     PROVE  \E h \in D : u.names[h] = r[k].name
            BY DEF HasInputs
        <3>1. CASE k = m
            <4>1. f \in D
                BY <1>1, <2>10, <3>1 DEF item
            <4> QED
                BY <2>6, <2>8, <3>1, <4>1 DEF item
        <3>2. CASE k <= n /\ item.list = "input"
            <4>1. D \ {f} \in SUBSET Infos(v) /\ Holds(v, v.head["input"], D \ {f})
                BY <2>10, <3>2
            <4>2. PICK h \in D \ {f} : v.names[h] = r[k].name
                BY <1>4, <3>2, <4>1 DEF HasInputs
            <4> QED
                BY <2>8, <4>2
        <3>3. CASE k <= n /\ item.list # "input"
            <4>1. D \in SUBSET Infos(v) /\ Holds(v, v.head["input"], D)
                BY <2>10, <3>3
            <4> QED
                BY <1>4, <2>8, <3>3, <4>1 DEF HasInputs
        <3> QED
            BY <1>1, <1>9, <3>1, <3>2, <3>3
    <2>13. ASSUME HasOnlyInputs(r, n, v) PROVE HasOnlyInputs(r, m, u)
        <3>1. PICK D \in SUBSET Infos(v) :
                 /\ Holds(v, v.head["input"], D)
                 /\ \A h \in D : \E k \in InputsOf(r) : k <= n /\ v.names[h] = r[k].name
            BY <2>13 DEF HasOnlyInputs
        <3>2. \A h \in D : \E k \in InputsOf(r) : k <= m /\ u.names[h] = r[k].name
            BY <1>1, <2>8, <3>1
        <3>3. f \notin D
            BY <1>1, <2>1, <2>6, <3>1
        <3>4. CASE item.list # "input"
            BY <2>10, <3>1, <3>2, <3>3, <3>4 DEF HasOnlyInputs
        <3>5. CASE item.list = "input"
            <4>1. m \in InputsOf(r) /\ u.names[f] = r[m].name
                BY <1>1, <1>2, <1>13, <2>6, <2>8, <3>5 DEF item
            <4>2. /\ Holds(u, u.head["input"], D \cup {f})
                  /\ D \cup {f} \in SUBSET Infos(u)
                BY <2>9, <2>10, <3>1, <3>5
            <4>3. \A h \in D \cup {f} : \E k \in InputsOf(r) :
                      k <= m /\ u.names[h] = r[k].name
                BY <3>2, <4>1
            <4> QED
                BY <4>2, <4>3 DEF HasOnlyInputs
        <3> QED
            BY <3>4, <3>5
    <2> QED
        BY <1>4, <1>8, <2>8, <2>10, <2>11, <2>12, <2>13 DEF Follows
<1> QED
    BY <1>11, <1>12, <1>13

\* So all of this holds after any number of elements.
LEMMA ParseFollows ==
    ASSUME NEW r \in Replies, NEW w, IsLinked(w), NEW n \in 0..Len(r)
    PROVE  Follows(w, r, n, ParseFirst(w, r, n))
<1> DEFINE T == {k \in 0..Len(r) : ~ Follows(w, r, k, ParseFirst(w, r, k))}
<1>1. Len(r) \in Nat
    BY ReplyItems
<1>2. SUFFICES ASSUME T # {} PROVE FALSE
    OBVIOUS
<1>3. PICK m \in T : \A k \in T : m <= k
    <2>1. T \in SUBSET Nat
        BY <1>1
    <2> QED
        BY <1>2, <2>1, LeastOfNaturals
<1>4. CASE m = 0
    BY <1>3, <1>4, FollowsFirst, ParsingStep
<1>5. CASE m # 0
    <2>1. /\ m - 1 \in 0..Len(r) /\ m - 1 \in Nat /\ m - 1 < Len(r)
          /\ m - 1 \notin T /\ (m - 1) + 1 = m
        BY <1>1, <1>3, <1>5
    <2>2. Follows(w, r, m - 1, ParseFirst(w, r, m - 1))
        BY <2>1
    <2>3. Follows(w, r, m, Element(ParseFirst(w, r, m - 1), r[m]))
        <3>1. Follows(w, r, (m - 1) + 1,
                      Element(ParseFirst(w, r, m - 1), r[(m - 1) + 1]))
            BY <2>1, <2>2, FollowsStep
        <3> QED
            BY <2>1, <3>1
    <2>4. ParseFirst(w, r, m) = Element(ParseFirst(w, r, m - 1), r[m])
        <3>1. ParseFirst(w, r, (m - 1) + 1)
                 = Element(ParseFirst(w, r, m - 1), r[(m - 1) + 1])
            BY <2>1, ParsingStep
        <3> QED
            BY <2>1, <3>1
    <2> QED
        BY <1>3, <2>3, <2>4
<1> QED
    BY <1>4, <1>5

\* An element that describes a file adds one, any other none.
LEMMA ElementCounts ==
    ASSUME NEW r \in Replies, NEW n \in Nat, n < Len(r), NEW v, IsLinked(v)
    PROVE  Len(Element(v, r[n + 1]).names)
              = IF r[n + 1].tag = "file_info" THEN Len(v.names) + 1 ELSE Len(v.names)
<1> DEFINE item == r[n + 1]
<1>1. item \in Items /\ n + 1 \in 1..Len(r) /\ DOMAIN r = 1..Len(r)
    BY ReplyItems
<1>2. /\ item.tag \in {"file_info", "file_ref"} => item.name \in DOMAIN OpenName
      /\ item.tag = "file_ref" => item.list \in Lists
    BY <1>1, ReplyItems DEF RefersToItsFiles, ItemsOf
<1> HIDE DEF item
<1>3. CASE item.tag = "file_info"
    BY <1>1, <1>2, <1>3, ElementCases DEF AddsFile, item, IsLinked
<1>4. CASE item.tag = "file_ref"
    BY <1>1, <1>2, <1>4, ElementCases DEF PushesFile, item, IsLinked
<1>5. CASE item.tag \notin {"file_info", "file_ref"}
    BY <1>1, <1>2, <1>5, ElementCases DEF KeepsFiles, item, IsLinked
<1> QED
    BY <1>3, <1>4, <1>5

\* How many files a reply adds is independent of the work unit it is parsed into.
LEMMA ParseCounts ==
    ASSUME NEW r \in Replies, NEW w, IsLinked(w), NEW x, IsLinked(x),
           NEW n \in 0..Len(r)
    PROVE  Len(ParseFirst(w, r, n).names) + Len(x.names)
              = Len(ParseFirst(x, r, n).names) + Len(w.names)
<1> DEFINE Same(k) == Len(ParseFirst(w, r, k).names) + Len(x.names)
                         = Len(ParseFirst(x, r, k).names) + Len(w.names)
           T == {k \in 0..Len(r) : ~ Same(k)}
<1> HIDE DEF Same
<1>1. Len(r) \in Nat
    BY ReplyItems
<1>2. SUFFICES ASSUME T # {} PROVE FALSE
    BY DEF Same
<1>3. PICK m \in T : \A k \in T : m <= k
    <2>1. T \in SUBSET Nat
        BY <1>1
    <2> QED
        BY <1>2, <2>1, LeastOfNaturals
<1>4. Len(w.names) \in Nat /\ Len(x.names) \in Nat
    BY InfosOf DEF IsLinked
<1>5. m # 0
    <2>1. ParseFirst(w, r, 0) = w /\ ParseFirst(x, r, 0) = x
        BY ParsingStep
    <2>2. Len(w.names) + Len(x.names) = Len(x.names) + Len(w.names)
        <3> DEFINE sw == Len(w.names)
                   sx == Len(x.names)
        <3>1. sw \in Nat /\ sx \in Nat
            BY <1>4
        <3> HIDE DEF sw, sx
        <3>2. sw + sx = sx + sw
            BY <3>1
        <3> QED
            BY <3>2 DEF sw, sx
    <2>3. Same(0)
        BY <2>1, <2>2 DEF Same
    <2> QED
        BY <1>3, <2>3
<1> DEFINE k == m - 1
           v == ParseFirst(w, r, k)
           y == ParseFirst(x, r, k)
<1>6. k \in 0..Len(r) /\ k \in Nat /\ k < Len(r) /\ k \notin T /\ k + 1 = m
    BY <1>1, <1>3, <1>5
<1>7. IsLinked(v) /\ IsLinked(y)
    BY <1>6, ParseFollows DEF Follows
<1>8. /\ ParseFirst(w, r, k + 1) = Element(v, r[k + 1])
      /\ ParseFirst(x, r, k + 1) = Element(y, r[k + 1])
    <2>1. ParseFirst(w, r, k + 1) = Element(ParseFirst(w, r, k), r[k + 1])
        BY <1>6, ParsingStep
    <2>2. ParseFirst(x, r, k + 1) = Element(ParseFirst(x, r, k), r[k + 1])
        BY <1>6, ParsingStep
    <2> QED
        BY <2>1, <2>2 DEF v, y
<1>9. Len(v.names) \in Nat /\ Len(y.names) \in Nat /\ Same(k)
    BY <1>6, <1>7, InfosOf DEF IsLinked
<1> HIDE DEF v, y, k
<1>10. /\ Len(Element(v, r[k + 1]).names)
             = IF r[k + 1].tag = "file_info" THEN Len(v.names) + 1 ELSE Len(v.names)
       /\ Len(Element(y, r[k + 1]).names)
             = IF r[k + 1].tag = "file_info" THEN Len(y.names) + 1 ELSE Len(y.names)
    BY <1>6, <1>7, ElementCounts
<1>11. Same(k + 1)
    <2>1. Len(v.names) + Len(x.names) = Len(y.names) + Len(w.names)
        BY <1>9 DEF Same, v, y
    <2>2. Len(Element(v, r[k + 1]).names) + Len(x.names)
             = Len(Element(y, r[k + 1]).names) + Len(w.names)
        <3>1. CASE r[k + 1].tag = "file_info"
            <4>1. /\ Len(Element(v, r[k + 1]).names) = Len(v.names) + 1
                  /\ Len(Element(y, r[k + 1]).names) = Len(y.names) + 1
                BY <1>10, <3>1
            <4> DEFINE sw == Len(w.names)
                       sx == Len(x.names)
                       sv == Len(v.names)
                       sy == Len(y.names)
            <4>2. /\ sw \in Nat /\ sx \in Nat /\ sv \in Nat /\ sy \in Nat
                  /\ sv + sx = sy + sw
                BY <1>4, <1>9, <2>1
            <4> HIDE DEF sw, sx, sv, sy
            <4>3. (sv + 1) + sx = (sy + 1) + sw
                BY <4>2
            <4> QED
                BY <4>1, <4>3 DEF sw, sx, sv, sy
        <3>2. CASE r[k + 1].tag # "file_info"
            BY <1>10, <2>1, <3>2
        <3> QED
            BY <3>1, <3>2
    <2> QED
        BY <1>8, <2>2 DEF Same
<1> QED
    BY <1>3, <1>6, <1>11

\* The first elements describe no more files than all.
LEMMA ParseGrows ==
    ASSUME NEW r \in Replies, NEW w, IsLinked(w), NEW n \in 0..Len(r)
    PROVE  Len(ParseFirst(w, r, n).names) <= Len(Parse(w, r).names)
<1> DEFINE size == [k \in 0..Len(r) |-> Len(ParseFirst(w, r, k).names)]
           T == {d \in Nat : d <= Len(r) /\ ~(size[Len(r) - d] <= size[Len(r)])}
<1>1. Len(r) \in Nat
    BY ReplyItems
<1>2. \A k \in 0..Len(r) : size[k] \in Nat
    BY ParseFollows, InfosOf DEF Follows, IsLinked
<1>3. \A k \in 0..(Len(r) - 1) : size[k] <= size[k + 1]
    <2> TAKE k \in 0..(Len(r) - 1)
    <2>1. k \in Nat /\ k < Len(r) /\ k \in 0..Len(r) /\ k + 1 \in 0..Len(r)
        BY <1>1
    <2>2. IsLinked(ParseFirst(w, r, k))
        BY <2>1, ParseFollows DEF Follows
    <2>3. ParseFirst(w, r, k + 1) = Element(ParseFirst(w, r, k), r[k + 1])
        BY <2>1, ParsingStep
    <2>4. \/ size[k + 1] = size[k] + 1
          \/ size[k + 1] = size[k]
        BY <2>1, <2>2, <2>3, ElementCounts
    <2> HIDE DEF size
    <2> QED
        BY <1>2, <2>1, <2>4
<1> HIDE DEF size
<1>4. T = {}
    <2>1. SUFFICES ASSUME T # {} PROVE FALSE
        OBVIOUS
    <2>2. PICK d \in T : \A e \in T : d <= e
        <3>1. T \in SUBSET Nat
            OBVIOUS
        <3> QED
            BY <2>1, <3>1, LeastOfNaturals
    <2>3. d # 0
        BY <1>1, <1>2, <2>2
    <2>4. d - 1 \in Nat /\ d - 1 <= Len(r) /\ d - 1 \notin T
        BY <1>1, <2>2, <2>3
    <2>5. size[Len(r) - (d - 1)] <= size[Len(r)]
        BY <2>4
    <2>6. Len(r) - d \in 0..(Len(r) - 1) /\ (Len(r) - d) + 1 = Len(r) - (d - 1)
        BY <1>1, <2>2, <2>3
    <2>7. size[Len(r) - d] <= size[Len(r) - (d - 1)]
        BY <1>3, <2>6
    <2>8. /\ Len(r) - d \in 0..Len(r) /\ Len(r) - (d - 1) \in 0..Len(r)
          /\ Len(r) \in 0..Len(r)
        BY <1>1, <2>2, <2>3
    <2> QED
        BY <1>2, <2>2, <2>5, <2>7, <2>8
<1>5. size[n] <= size[Len(r)]
    <2>1. Len(r) - n \in Nat /\ Len(r) - n <= Len(r) /\ Len(r) - (Len(r) - n) = n
        BY <1>1
    <2> QED
        BY <1>4, <2>1
<1> QED
    BY <1>1, <1>5 DEF size, Parse
-----------------------------------------------------------------------------
(* The invariant *)

Loads == {"download", "fetch", "compute", "report"}

\* Where the slot stands, and what a restart will find.
Phases ==
    /\ phase = "request" => saved = "none" /\ (~cut => IsBlank(wu))
    /\ phase = "download" => saved \in {"none", "download"}
    /\ phase = "fetch" => saved = "download"
    /\ phase \in {"compute", "report"} => saved = phase
    /\ phase = "down" => wu = Fresh
    /\ phase # "fetch" => cursor = 0
    /\ phase = "download" \/ saved # "none" =>
          reply \in Replies /\ Len(Parse(Fresh, reply).names) <= MaxFiles

\* The work unit of a whole reply has its result, and its inputs if it was blank.
Loading ==
    phase \in Loads =>
        /\ ReportsTheLastResult
        /\ ~cut => /\ HasInputs(reply, Len(reply), wu)
                   /\ HasOnlyInputs(reply, Len(reply), wu)

Arrived(k) == files[OpenName[reply[k].name]] = reply[k].name

\* Each input has arrived or is on the list from the cursor on, where all are inputs.
Fetching ==
    ~cut =>
        /\ phase = "fetch" =>
              /\ \A D \in SUBSET Infos(wu) : Holds(wu, cursor, D) =>
                    \A k \in InputsOf(reply) :
                        Arrived(k) \/ \E f \in D : wu.names[f] = reply[k].name
              /\ \E D \in SUBSET Infos(wu) :
                    /\ Holds(wu, cursor, D)
                    /\ \A f \in D :
                          \E k \in InputsOf(reply) : wu.names[f] = reply[k].name
        /\ saved \in {"compute", "report"} => \A k \in InputsOf(reply) : Arrived(k)

\* The inductive invariant.
IInv == TypeOK /\ IsLinked(wu) /\ Phases /\ Loading /\ Fetching /\ CallbackIsReset
-----------------------------------------------------------------------------
(* Steps *)

\* A new work unit has no files.
LEMMA FreshIsLinked == IsLinked(Fresh) /\ IsBlank(Fresh) /\ Len(Fresh.names) = 0
<1>1. /\ Fresh.names = << >> /\ Fresh.next = << >>
      /\ Fresh.head = [list \in Lists |-> 0]
    BY DEF Fresh
<1>2. IsWorkUnit(Fresh)
    BY DEF Fresh, IsWorkUnit
<1>3. Infos(Fresh) = {}
    BY <1>1 DEF Infos
<1> QED
    BY <1>1, <1>2, <1>3 DEF IsLinked, IsBlank

\* Clearing the delay changes nothing else.
LEMMA ClearingDelay ==
    ASSUME NEW v, IsWorkUnit(v)
    PROVE  LET u == [v EXCEPT !.delay = FALSE]
           IN  /\ IsWorkUnit(u)
               /\ u.names = v.names /\ u.next = v.next /\ u.head = v.head
               /\ u.hasResult = v.hasResult /\ u.result = v.result
<1> DEFINE u == [v EXCEPT !.delay = FALSE]
<1>1. u = [v EXCEPT !.delay = FALSE]
    OBVIOUS
<1> HIDE DEF u
<1>2. IsWorkUnit(u) /\ u.names = v.names /\ u.next = v.next /\ u.head = v.head
    BY <1>1 DEF IsWorkUnit
<1>3. u.hasResult = v.hasResult /\ u.result = v.result
    BY <1>1 DEF IsWorkUnit
<1> QED
    BY <1>2, <1>3 DEF u

\* After a whole reply, the result has the last name of a result.
LEMMA ResultIsLast ==
    ASSUME NEW r \in Replies, HasWork(r), NEW v, ResultKnown(r, Len(r), v)
    PROVE  v.hasResult /\ v.result = ResultOf(r)
<1> DEFINE S == ItemsOf(r, "result>name")
           T == {k \in Nat : Len(r) - k \in S}
<1>1. S \subseteq 1..Len(r) /\ S # {} /\ Len(r) \in Nat
    BY ReplyItems DEF HasWork, ItemsOf
<1>2. PICK k \in T : \A j \in T : k <= j
    <2>1. PICK d \in S : TRUE
        BY <1>1
    <2>2. Len(r) - d \in Nat /\ Len(r) - (Len(r) - d) = d
        BY <1>1, <2>1
    <2>3. Len(r) - d \in T
        BY <2>1, <2>2
    <2>4. T \in SUBSET Nat /\ T # {}
        BY <2>3
    <2> QED
        BY <2>4, LeastOfNaturals
<1>3. Len(r) - k \in S /\ \A f \in S : f <= Len(r) - k
    <2>1. Len(r) - k \in S
        BY <1>2
    <2>2. ASSUME NEW f \in S PROVE f <= Len(r) - k
        <3>1. Len(r) - f \in Nat /\ Len(r) - (Len(r) - f) = f
            BY <1>1
        <3>2. Len(r) - f \in T
            BY <3>1
        <3> QED
            BY <1>1, <1>2, <3>1, <3>2
    <2> QED
        BY <2>1, <2>2
<1> DEFINE last == Max(S)
<1> HIDE DEF S, T
<1>4. last \in S /\ \A f \in S : last >= f
    <2>1. \E m \in S : \A f \in S : m >= f
        BY <1>1, <1>3
    <2> QED
        BY <2>1 DEF Max
<1> HIDE DEF last
<1>5. last \in 1..Len(r) /\ r[last].tag = "result>name"
    BY <1>1, <1>4 DEF S, ItemsOf
<1>6. \A i \in (last + 1)..Len(r) : r[i].tag \notin Naming
    <2> TAKE i \in (last + 1)..Len(r)
    <2>1. i \in 1..Len(r) /\ i \in DOMAIN r /\ last < i
        BY <1>5, ReplyItems
    <2>2. r[i].tag # "result>name"
        BY <1>1, <1>4, <2>1 DEF S, ItemsOf
    <2>3. r[i].tag # "result"
        <3>1. SUFFICES ASSUME r[i].tag = "result" PROVE FALSE
            OBVIOUS
        <3>2. PICK j \in S : i < j
            BY <2>1, <3>1, ReplyItems DEF NamesItsResults, ItemsOf, S
        <3> QED
            BY <1>1, <1>4, <2>1, <3>2
    <2> QED
        BY <2>2, <2>3 DEF Naming
<1>7. v.hasResult /\ v.result = r[last].name
    BY <1>5, <1>6 DEF ResultKnown, Naming
<1> QED
    BY <1>7 DEF ResultOf, last, S

\* What is read of a whole reply, with no delay set.
LEMMA WholeReply ==
    ASSUME NEW r \in Replies, NEW w, IsLinked(w)
    PROVE  LET v == Parse(w, r)
               u == [v EXCEPT !.delay = FALSE]
           IN  /\ IsLinked(v) /\ IsLinked(u) /\ u.names = v.names
               /\ HasWork(r) => u.hasResult /\ u.result = ResultOf(r)
               /\ HasInputs(r, Len(r), u)
               /\ IsBlank(w) => HasOnlyInputs(r, Len(r), u)
<1> DEFINE v == Parse(w, r)
           u == [v EXCEPT !.delay = FALSE]
<1>1. Follows(w, r, Len(r), v)
    BY ReplyItems, ParseFollows DEF Parse
<1> HIDE DEF v
<1>2. IsLinked(v) /\ IsWorkUnit(v)
    BY <1>1 DEF Follows, IsLinked
<1>3. /\ IsWorkUnit(u) /\ u.names = v.names /\ u.next = v.next /\ u.head = v.head
      /\ u.hasResult = v.hasResult /\ u.result = v.result
    BY <1>2, ClearingDelay
<1> HIDE DEF u
<1>4. IsLinked(u)
    BY <1>2, <1>3 DEF IsLinked, Infos, EndsIn
<1>5. HasWork(r) => u.hasResult /\ u.result = ResultOf(r)
    BY <1>1, <1>3, ResultIsLast DEF Follows
<1>6. HasInputs(r, Len(r), u)
    BY <1>1, <1>3 DEF Follows, HasInputs, Holds, Infos
<1>7. IsBlank(w) => HasOnlyInputs(r, Len(r), u)
    BY <1>1, <1>3 DEF Follows, HasOnlyInputs, Holds, Infos
<1> QED
    BY <1>2, <1>3, <1>4, <1>5, <1>6, <1>7 DEF v, u

\* What is left of a reply that was cut.
LEMMA CutReply ==
    ASSUME NEW r \in Replies, NEW w, IsLinked(w), NEW n \in 0..Len(r)
    PROVE  LET u == [ParseFirst(w, r, n) EXCEPT !.delay = FALSE]
           IN  IsLinked(u) /\ Len(u.names) <= Len(Parse(w, r).names)
<1> DEFINE v == ParseFirst(w, r, n)
           u == [v EXCEPT !.delay = FALSE]
<1>1. IsLinked(v) /\ IsWorkUnit(v) /\ Len(v.names) <= Len(Parse(w, r).names)
    BY ParseFollows, ParseGrows DEF Follows, IsLinked
<1> HIDE DEF v
<1>2. /\ IsWorkUnit(u) /\ u.names = v.names /\ u.next = v.next /\ u.head = v.head
    BY <1>1, ClearingDelay
<1> HIDE DEF u
<1>3. IsLinked(u)
    BY <1>1, <1>2 DEF IsLinked, Infos, EndsIn
<1> QED
    BY <1>1, <1>2, <1>3 DEF v, u

\* A restart has room for the reply for which there was room.
LEMMA RoomForFresh ==
    ASSUME NEW r \in Replies, IsLinked(wu), HasRoomFor(r)
    PROVE  Len(Parse(Fresh, r).names) <= MaxFiles
<1> DEFINE a == Len(Parse(wu, r).names)
           b == Len(Parse(Fresh, r).names)
           c == Len(wu.names)
<1>1. a + 0 = b + c
    <2>1. Len(r) \in 0..Len(r) /\ IsLinked(Fresh)
        BY ReplyItems, FreshIsLinked
    <2>2. Len(ParseFirst(wu, r, Len(r)).names) + Len(Fresh.names)
             = Len(ParseFirst(Fresh, r, Len(r)).names) + Len(wu.names)
        BY <2>1, ParseCounts
    <2> QED
        BY <2>2, FreshIsLinked DEF Parse
<1>2. a \in Nat /\ b \in Nat /\ c \in Nat /\ a <= MaxFiles /\ MaxFiles \in Nat
    BY WholeReply, FreshIsLinked, InfosOf, BoundAssumption DEF IsLinked, HasRoomFor
<1> HIDE DEF a, b, c
<1>3. b <= MaxFiles
    BY <1>1, <1>2
<1> QED
    BY <1>3 DEF b

\* One lemma per part of the invariant, with one step per action.
LEMMA PhasesNext ==
    ASSUME IInv, [Next]_vars
    PROVE  Phases'
<1> USE DEF IInv, Phases, TypeOK, AtFile
<1>1. ASSUME NEW r \in Replies, Receive(r) PROVE Phases'
    <2>1. phase = "request" /\ saved' = saved /\ cursor' = cursor /\ cut' = cut
        BY <1>1 DEF Receive
    <2>2. CASE wu' = Parse(wu, r) /\ IsEmpty(Parse(wu, r)) /\ phase' = phase
        BY <2>1, <2>2 DEF IsEmpty, IsBlank
    <2>3. CASE phase' = "download" /\ reply' = r
        BY <1>1, <2>1, <2>3, RoomForFresh DEF Receive
    <2> QED
        BY <1>1, <2>2, <2>3 DEF Receive
<1>2. ASSUME NEW r \in Replies, ReceiveCut(r) PROVE Phases'
    BY <1>2, FreshIsLinked, RoomForFresh DEF ReceiveCut
<1>3. CASE RequestFails
    BY <1>3, FreshIsLinked, RoomForFresh DEF RequestFails
<1>4. CASE StartDownload
    BY <1>4, FreshIsLinked, RoomForFresh DEF StartDownload
<1>5. CASE Skip
    BY <1>5, FreshIsLinked, RoomForFresh DEF Skip
<1>6. CASE Fetch
    BY <1>6, FreshIsLinked, RoomForFresh DEF Fetch
<1>7. CASE FetchFails
    BY <1>7, FreshIsLinked, RoomForFresh DEF FetchFails
<1>8. CASE Downloaded
    BY <1>8, FreshIsLinked, RoomForFresh DEF Downloaded
<1>9. CASE Compute
    BY <1>9, FreshIsLinked, RoomForFresh DEF Compute
<1>10. CASE ComputeCrashes
    BY <1>10, FreshIsLinked, RoomForFresh DEF ComputeCrashes, Dies
<1>11. CASE Report
    BY <1>11, FreshIsLinked, RoomForFresh DEF Report, EraseDirectory
<1>12. CASE ReportFails
    BY <1>12, FreshIsLinked, RoomForFresh DEF ReportFails
<1>13. CASE OtherExchange
    BY <1>13, FreshIsLinked, RoomForFresh DEF OtherExchange
<1>14. CASE Kill
    BY <1>14, FreshIsLinked, RoomForFresh DEF Kill, Dies
<1>15. CASE RestartFresh
    BY <1>15, FreshIsLinked, RoomForFresh DEF RestartFresh
<1>16. CASE Restart
    BY <1>16, FreshIsLinked, RoomForFresh DEF Restart
<1>17. CASE RestartErases
    BY <1>17, FreshIsLinked, RoomForFresh DEF RestartErases, EraseDirectory
<1>18. CASE UNCHANGED vars
    BY <1>18 DEF vars
<1> QED
    BY <1>1, <1>2, <1>3, <1>4, <1>5, <1>6, <1>7, <1>8, <1>9, <1>10, <1>11, <1>12, <1>13,
       <1>14, <1>15, <1>16, <1>17, <1>18 DEF Next

LEMMA LoadingNext ==
    ASSUME IInv, [Next]_vars
    PROVE  Loading'
<1> USE DEF IInv, Phases, Loading, Loads, ReportsTheLastResult, AtFile
<1>1. ASSUME NEW r \in Replies, Receive(r) PROVE Loading'
    <2>1. CASE phase' = phase
        BY <1>1, <2>1 DEF Receive
    <2>2. CASE phase' # phase
        <3>1. wu' = [Parse(wu, r) EXCEPT !.delay = FALSE] /\ reply' = r /\ cut' = cut
            BY <1>1, <2>2 DEF Receive
        <3>2. ~cut => IsBlank(wu)
            BY <1>1 DEF Receive
        <3> QED
            BY <3>1, <3>2, WholeReply
    <2> QED
        BY <2>1, <2>2
<1>2. ASSUME NEW r \in Replies, ReceiveCut(r) PROVE Loading'
    BY <1>2, FreshIsLinked DEF ReceiveCut
<1>3. CASE RequestFails
    BY <1>3, FreshIsLinked DEF RequestFails
<1>4. CASE StartDownload
    BY <1>4, FreshIsLinked DEF StartDownload
<1>5. CASE Skip
    BY <1>5, FreshIsLinked DEF Skip
<1>6. CASE Fetch
    BY <1>6, FreshIsLinked DEF Fetch
<1>7. CASE FetchFails
    BY <1>7, FreshIsLinked DEF FetchFails
<1>8. CASE Downloaded
    BY <1>8, FreshIsLinked DEF Downloaded
<1>9. CASE Compute
    BY <1>9, FreshIsLinked DEF Compute
<1>10. CASE ComputeCrashes
    BY <1>10, FreshIsLinked DEF ComputeCrashes, Dies
<1>11. CASE Report
    BY <1>11, FreshIsLinked DEF Report, EraseDirectory
<1>12. CASE ReportFails
    BY <1>12, FreshIsLinked DEF ReportFails
<1>13. CASE OtherExchange
    BY <1>13, FreshIsLinked DEF OtherExchange
<1>14. CASE Kill
    BY <1>14, FreshIsLinked DEF Kill, Dies
<1>15. CASE RestartFresh
    BY <1>15, FreshIsLinked DEF RestartFresh
<1>16. CASE Restart
    <2>1. wu' = [Parse(Fresh, reply) EXCEPT !.delay = FALSE] /\ reply' = reply
        BY <1>16 DEF Restart, Loaded
    <2>2. reply \in Replies
        BY <1>16 DEF Restart
    <2> QED
        BY <2>1, <2>2, FreshIsLinked, WholeReply
<1>17. CASE RestartErases
    BY <1>17, FreshIsLinked DEF RestartErases, EraseDirectory
<1>18. CASE UNCHANGED vars
    BY <1>18 DEF vars
<1> QED
    BY <1>1, <1>2, <1>3, <1>4, <1>5, <1>6, <1>7, <1>8, <1>9, <1>10, <1>11, <1>12, <1>13,
       <1>14, <1>15, <1>16, <1>17, <1>18 DEF Next

LEMMA CallbackNext ==
    ASSUME IInv, [Next]_vars
    PROVE  CallbackIsReset'
<1> USE DEF IInv, CallbackIsReset
<1>1. ASSUME NEW r \in Replies, Receive(r) PROVE CallbackIsReset'
    BY <1>1 DEF Receive, Detach, NotSent
<1>2. ASSUME NEW r \in Replies, ReceiveCut(r) PROVE CallbackIsReset'
    BY <1>2 DEF ReceiveCut, Detach, NotSent
<1>3. CASE RequestFails
    BY <1>3 DEF RequestFails, Detach, NotSent
<1>4. CASE StartDownload
    BY <1>4 DEF StartDownload
<1>5. CASE Skip
    BY <1>5 DEF Skip
<1>6. CASE Fetch
    BY <1>6 DEF Fetch, Detach, NotSent
<1>7. CASE FetchFails
    BY <1>7 DEF FetchFails, Detach, NotSent
<1>8. CASE Downloaded
    BY <1>8 DEF Downloaded
<1>9. CASE Compute
    BY <1>9 DEF Compute
<1>10. CASE ComputeCrashes
    BY <1>10 DEF ComputeCrashes, Dies
<1>11. CASE Report
    BY <1>11 DEF Report, EraseDirectory, Detach, NotSent
<1>12. CASE ReportFails
    BY <1>12 DEF ReportFails, Detach, NotSent
<1>13. CASE OtherExchange
    BY <1>13 DEF OtherExchange, Detach, NotSent
<1>14. CASE Kill
    BY <1>14 DEF Kill, Dies
<1>15. CASE RestartFresh
    BY <1>15 DEF RestartFresh
<1>16. CASE Restart
    BY <1>16 DEF Restart
<1>17. CASE RestartErases
    BY <1>17 DEF RestartErases, EraseDirectory
<1>18. CASE UNCHANGED vars
    BY <1>18 DEF vars
<1> QED
    BY <1>1, <1>2, <1>3, <1>4, <1>5, <1>6, <1>7, <1>8, <1>9, <1>10, <1>11, <1>12, <1>13,
       <1>14, <1>15, <1>16, <1>17, <1>18 DEF Next

LEMMA LinkedNext ==
    ASSUME IInv, [Next]_vars
    PROVE  IsLinked(wu') /\ Len(wu'.names) <= MaxFiles
<1> USE DEF IInv, Phases, TypeOK
<1>0. IsLinked(Fresh) /\ Len(Fresh.names) <= MaxFiles
    BY FreshIsLinked, BoundAssumption
<1>1. ASSUME NEW r \in Replies, Receive(r)
      PROVE  IsLinked(wu') /\ Len(wu'.names) <= MaxFiles
    BY <1>1, WholeReply DEF Receive, HasRoomFor
<1>2. ASSUME NEW r \in Replies, ReceiveCut(r)
      PROVE  IsLinked(wu') /\ Len(wu'.names) <= MaxFiles
    <2>1. PICK n \in 0..Len(r) : wu' = [ParseFirst(wu, r, n) EXCEPT !.delay = FALSE]
        BY <1>2 DEF ReceiveCut
    <2> DEFINE a == Len(wu'.names)
               b == Len(Parse(wu, r).names)
    <2>2. IsLinked(wu') /\ a <= b /\ b <= MaxFiles
        BY <1>2, <2>1, CutReply DEF ReceiveCut, HasRoomFor
    <2>3. a \in Nat /\ b \in Nat /\ MaxFiles \in Nat
        BY <2>2, WholeReply, InfosOf, BoundAssumption DEF IsLinked
    <2> HIDE DEF a, b
    <2>4. a <= MaxFiles
        BY <2>2, <2>3
    <2> QED
        BY <2>2, <2>4 DEF a
<1>3. CASE UNCHANGED wu
    BY <1>3
<1>4. CASE ComputeCrashes \/ Kill
    BY <1>0, <1>4 DEF ComputeCrashes, Kill, Dies
<1>5. CASE Report \/ RestartErases
    BY <1>0, <1>5 DEF Report, RestartErases, EraseDirectory
<1>6. CASE Restart
    <2>1. wu' = [Parse(Fresh, reply) EXCEPT !.delay = FALSE]
        BY <1>6 DEF Restart, Loaded
    <2>2. reply \in Replies /\ Len(Parse(Fresh, reply).names) <= MaxFiles
        BY <1>6 DEF Restart
    <2> QED
        BY <1>0, <2>1, <2>2, WholeReply
<1>7. CASE RequestFails \/ StartDownload \/ Skip \/ Fetch \/ FetchFails
    BY <1>3, <1>7 DEF RequestFails, StartDownload, Skip, Fetch, FetchFails
<1>8. CASE Downloaded \/ Compute \/ ReportFails \/ OtherExchange \/ RestartFresh
    BY <1>3, <1>8 DEF Downloaded, Compute, ReportFails, OtherExchange, RestartFresh
<1>9. CASE UNCHANGED vars
    BY <1>3, <1>9 DEF vars
<1> QED
    BY <1>1, <1>2, <1>4, <1>5, <1>6, <1>7, <1>8, <1>9 DEF Next

\* What a linked work unit has the type of.
IsTyped(w) ==
    /\ w.next \in [Infos(w) -> Infos(w) \cup {0}]
    /\ w.head \in [Lists -> Infos(w) \cup {0}]
    /\ w.names \in Seq(DOMAIN OpenName)
    /\ {w.delay, w.hasResult} \subseteq BOOLEAN

LEMMA LinkedIsTyped ==
    ASSUME NEW w, IsLinked(w)
    PROVE  IsTyped(w)
<1>1. /\ w.next \in Seq(Nat) /\ Len(w.next) = Len(w.names) /\ Infos(w) = 1..Len(w.names)
      /\ w.names \in Seq(DOMAIN OpenName) /\ w.head \in [Lists -> Nat]
      /\ w.delay \in BOOLEAN /\ w.hasResult \in BOOLEAN
    BY InfosOf DEF IsLinked
<1>2. w.next \in [Infos(w) -> Nat]
    BY <1>1, LenProperties
<1>3. w.next \in [Infos(w) -> Infos(w) \cup {0}]
    BY <1>2 DEF IsLinked
<1>4. w.head \in [Lists -> Infos(w) \cup {0}]
    BY <1>1 DEF IsLinked
<1> QED
    BY <1>1, <1>3, <1>4 DEF IsTyped

\* The types of the variables but the work unit.
OthersOK ==
    /\ {attached, unsent, cut} \subseteq BOOLEAN
    /\ phase \in {"request", "download", "fetch", "compute", "report", "down"}
    /\ saved \in {"none", "download", "compute", "report"}
    /\ reply \in Replies \cup {NoReply}
    /\ files \in [OpenNames -> DOMAIN OpenName \cup {Absent, Partial}]
    /\ cursor \in Infos(wu) \cup {0}

LEMMA TypesNext ==
    ASSUME IInv, [Next]_vars
    PROVE  TypeOK'
<1>1. IsLinked(wu') /\ IsTyped(wu') /\ Len(wu'.names) <= MaxFiles
    BY LinkedNext, LinkedIsTyped
<1>2. OthersOK /\ IsLinked(wu) /\ IsTyped(wu)
    BY LinkedIsTyped DEF IInv, TypeOK, OthersOK, Pointers
<1>3. phase # "fetch" => cursor = 0
    BY DEF IInv, Phases
<1>4. cursor # 0 =>
        /\ wu.names[cursor] \in DOMAIN OpenName /\ Path(cursor) \in OpenNames
        /\ wu.next[cursor] \in Infos(wu) \cup {0}
    <2>1. \A f \in Infos(wu) : wu.names[f] \in DOMAIN OpenName
        BY <1>2, InfosOf DEF IsLinked
    <2> QED
        BY <1>2, <2>1 DEF OthersOK, Path, OpenNames, IsTyped
<1>5. wu.head["input"] \in Infos(wu) \cup {0}
    BY <1>2 DEF IsTyped, Lists
<1>6. OthersOK'
    <2> USE DEF OthersOK
    <2>1. ASSUME NEW r \in Replies, Receive(r) PROVE OthersOK'
        BY <1>2, <1>3, <2>1 DEF Receive, Detach, NotSent
    <2>2. ASSUME NEW r \in Replies, ReceiveCut(r) PROVE OthersOK'
        BY <1>2, <1>3, <2>2 DEF ReceiveCut, Detach, NotSent
    <2>3. CASE RequestFails
        BY <1>2, <2>3 DEF RequestFails, Detach, NotSent
    <2>4. CASE StartDownload
        BY <1>2, <1>5, <2>4 DEF StartDownload
    <2>5. CASE Skip
        BY <1>2, <1>4, <2>5 DEF Skip, AtFile
    <2>6. CASE Fetch
        <3>1. files' = [files EXCEPT ![Path(cursor)] = wu.names[cursor]]
            BY <2>6 DEF Fetch, Rename
        <3>2. files' \in [OpenNames -> DOMAIN OpenName \cup {Absent, Partial}]
            BY <1>2, <1>4, <2>6, <3>1 DEF Fetch, AtFile
        <3> QED
            BY <1>2, <1>4, <2>6, <3>2 DEF Fetch, AtFile, Detach, NotSent
    <2>7. CASE FetchFails
        <3>1. \/ files' = files
              \/ \E content \in {Absent, Partial} :
                    files' = [files EXCEPT ![Path(cursor)] = content]
            BY <2>7 DEF FetchFails, Rename
        <3>2. files' \in [OpenNames -> DOMAIN OpenName \cup {Absent, Partial}]
            BY <1>2, <1>4, <2>7, <3>1 DEF FetchFails, AtFile
        <3> QED
            BY <1>2, <2>7, <3>2 DEF FetchFails, Detach, NotSent
    <2>8. CASE Downloaded
        BY <1>2, <2>8 DEF Downloaded
    <2>9. CASE Compute
        BY <1>2, <2>9 DEF Compute
    <2>10. CASE ComputeCrashes
        BY <1>2, <2>10 DEF ComputeCrashes, Dies
    <2>11. CASE Report
        BY <1>2, <2>11 DEF Report, EraseDirectory, Detach, NotSent
    <2>12. CASE ReportFails
        BY <1>2, <2>12 DEF ReportFails, Detach, NotSent
    <2>13. CASE OtherExchange
        BY <1>2, <2>13 DEF OtherExchange, Detach, NotSent
    <2>14. CASE Kill
        BY <1>2, <2>14 DEF Kill, Dies
    <2>15. CASE RestartFresh
        BY <1>2, <2>15 DEF RestartFresh
    <2>16. CASE Restart
        BY <1>2, <1>3, <2>16 DEF Restart
    <2>17. CASE RestartErases
        BY <1>2, <2>17 DEF RestartErases, EraseDirectory
    <2>18. CASE UNCHANGED vars
        BY <1>2, <2>18 DEF vars
    <2> QED
        BY <2>1, <2>2, <2>3, <2>4, <2>5, <2>6, <2>7, <2>8, <2>9, <2>10, <2>11, <2>12,
           <2>13, <2>14, <2>15, <2>16, <2>17, <2>18 DEF Next
<1>7. /\ (Infos(wu))' = Infos(wu') /\ Pointers' = Infos(wu') \cup {0}
    BY DEF Infos, Pointers
<1> QED
    BY <1>1, <1>6, <1>7 DEF TypeOK, OthersOK, IsTyped

\* The loop goes on to the next file info.
LEMMA PassingFile ==
    ASSUME NEW w, NEW f \in Infos(w), f # 0, NEW D
    PROVE  /\ Holds(w, w.next[f], D) => Holds(w, f, D \cup {f})
           /\ Holds(w, f, D) => f \in D /\ Holds(w, w.next[f], D)
BY DEF Holds

LEMMA FetchingNext ==
    ASSUME IInv, [Next]_vars
    PROVE  Fetching'
<1>0. /\ Phases /\ Loading /\ Fetching /\ IsLinked(wu)
      /\ files \in [OpenNames -> DOMAIN OpenName \cup {Absent, Partial}]
      /\ cursor \in Infos(wu) \cup {0}
    BY DEF IInv, TypeOK, Pointers
<1>1. ASSUME NEW r \in Replies, Receive(r) PROVE Fetching'
    BY <1>0, <1>1 DEF Receive, Fetching, Phases
<1>2. ASSUME NEW r \in Replies, ReceiveCut(r) PROVE Fetching'
    BY <1>2 DEF ReceiveCut, Fetching
<1>3. CASE RequestFails
    BY <1>0, <1>3 DEF RequestFails, Fetching, Phases
<1>4. CASE StartDownload
    <2>1. /\ saved' = "download" /\ cursor' = wu.head["input"]
          /\ UNCHANGED <<wu, reply, cut>>
        BY <1>4 DEF StartDownload
    <2>2. ~cut => /\ HasInputs(reply, Len(reply), wu)
                  /\ HasOnlyInputs(reply, Len(reply), wu)
        BY <1>0, <1>4 DEF StartDownload, Loading, Loads
    <2>3. \A k \in InputsOf(reply) : k <= Len(reply)
        <3>1. reply \in Replies
            BY <1>0, <1>4 DEF StartDownload, Phases
        <3> QED
            BY <3>1, ReplyItems DEF InputsOf, ItemsOf
    <2> QED
        BY <2>1, <2>2, <2>3 DEF Fetching, HasInputs, HasOnlyInputs
<1>5. CASE Skip \/ Fetch
    <2>1. /\ phase = "fetch" /\ cursor # 0 /\ cursor \in Infos(wu)
          /\ cursor' = wu.next[cursor]
          /\ UNCHANGED <<wu, phase, saved, reply, cut>>
        BY <1>0, <1>5 DEF Skip, Fetch, AtFile
    <2>2. saved = "download" /\ reply \in Replies
        BY <1>0, <2>1 DEF Phases
    <2>3. SUFFICES ASSUME ~cut PROVE Fetching'
        BY <2>1 DEF Fetching
    <2>4. PICK E \in SUBSET Infos(wu) :
             /\ Holds(wu, cursor, E)
             /\ \A f \in E : \E k \in InputsOf(reply) : wu.names[f] = reply[k].name
        BY <1>0, <2>1, <2>3 DEF Fetching
    <2>5. cursor \in E /\ Holds(wu, cursor', E)
        BY <2>1, <2>4, PassingFile
    <2>6. PICK j \in InputsOf(reply) : wu.names[cursor] = reply[j].name
        BY <2>4, <2>5
    <2>7. \A k \in InputsOf(reply) :
             /\ reply[k].name \notin Generated /\ reply[k].name \in DOMAIN OpenName
             /\ OpenName[reply[k].name] = OpenName[reply[j].name] => j = k
        BY <2>2, <2>6, ReplyItems DEF HasInputsOfItsOwn, InputsOf
    <2>8. \A k \in InputsOf(reply) : Arrived(k) => Arrived(k)'
        <3>1. CASE Skip
            BY <2>1, <3>1 DEF Skip, Arrived
        <3>2. CASE Fetch
            <4>1. files' = [files EXCEPT ![OpenName[reply[j].name]] = reply[j].name]
                BY <2>6, <3>2 DEF Fetch, Rename, Path
            <4> QED
                BY <1>0, <2>1, <2>7, <4>1 DEF Arrived, OpenNames
        <3> QED
            BY <1>5, <3>1, <3>2
    <2>9. Arrived(j)'
        <3>1. CASE Skip
            BY <2>1, <2>6, <2>7, <3>1 DEF Skip, Wanted, NeedsDownload, Path, Arrived
        <3>2. CASE Fetch
            <4>1. files' = [files EXCEPT ![OpenName[reply[j].name]] = reply[j].name]
                BY <2>6, <3>2 DEF Fetch, Rename, Path
            <4> QED
                BY <1>0, <2>1, <2>7, <4>1 DEF Arrived, OpenNames
        <3> QED
            BY <1>5, <3>1, <3>2
    <2>10. ASSUME NEW D \in SUBSET Infos(wu), Holds(wu, cursor', D),
                  NEW k \in InputsOf(reply)
           PROVE  Arrived(k)' \/ \E f \in D : wu.names[f] = reply[k].name
        <3>1. Holds(wu, cursor, D \cup {cursor}) /\ D \cup {cursor} \in SUBSET Infos(wu)
            BY <2>1, <2>10, PassingFile
        <3>2. Arrived(k) \/ \E f \in D \cup {cursor} : wu.names[f] = reply[k].name
            BY <1>0, <2>1, <2>3, <3>1 DEF Fetching
        <3>3. wu.names[cursor] = reply[k].name => j = k
            BY <2>6, <2>7
        <3> QED
            BY <2>8, <2>9, <3>2, <3>3
    <2> QED
        BY <2>1, <2>2, <2>4, <2>5, <2>10 DEF Fetching
<1>6. CASE FetchFails
    BY <1>0, <1>6 DEF FetchFails, AtFile, Fetching, Phases
<1>7. CASE Downloaded
    <2>1. /\ phase = "fetch" /\ cursor = 0 /\ phase' = "compute"
          /\ UNCHANGED <<wu, reply, files, cut>>
        BY <1>7 DEF Downloaded
    <2>2. Holds(wu, 0, {})
        BY DEF Holds
    <2>3. ~cut => \A k \in InputsOf(reply) : Arrived(k)
        BY <1>0, <2>1, <2>2 DEF Fetching
    <2>4. ~cut' => \A k \in InputsOf(reply') : Arrived(k)'
        BY <2>1, <2>3 DEF Arrived
    <2> QED
        BY <2>1, <2>4 DEF Fetching
<1>8. CASE Compute
    BY <1>0, <1>8 DEF Compute, Fetching, Phases, Arrived
<1>9. CASE ComputeCrashes
    BY <1>0, <1>9 DEF ComputeCrashes, Dies, Fetching, Arrived
<1>10. CASE Report
    BY <1>10 DEF Report, EraseDirectory, Fetching
<1>11. CASE ReportFails
    BY <1>0, <1>11 DEF ReportFails, Fetching, Arrived
<1>12. CASE OtherExchange
    BY <1>0, <1>12 DEF OtherExchange, Fetching, Arrived
<1>13. CASE Kill
    BY <1>0, <1>13 DEF Kill, Dies, Fetching, Arrived
<1>14. CASE RestartFresh
    BY <1>0, <1>14 DEF RestartFresh, Fetching
<1>15. CASE Restart
    <2>1. saved \in {"none", "download", "compute", "report"}
        BY DEF IInv, TypeOK
    <2> QED
        BY <1>0, <1>15, <2>1 DEF Restart, Fetching, Arrived
<1>16. CASE RestartErases
    BY <1>16 DEF RestartErases, EraseDirectory, Fetching
<1>17. CASE UNCHANGED vars
    BY <1>0, <1>17 DEF vars, Fetching, Arrived
<1> QED
    BY <1>1, <1>2, <1>3, <1>4, <1>5, <1>6, <1>7, <1>8, <1>9, <1>10, <1>11, <1>12, <1>13,
       <1>14, <1>15, <1>16, <1>17 DEF Next
-----------------------------------------------------------------------------
(* The theorems *)

LEMMA InvariantInit ==
    ASSUME Init
    PROVE  IInv
<1>1. IsLinked(wu) /\ IsTyped(wu) /\ wu = Fresh /\ Len(wu.names) <= MaxFiles
    BY FreshIsLinked, LinkedIsTyped, BoundAssumption DEF Init
<1>2. OthersOK
    BY DEF Init, OthersOK
<1>3. TypeOK
    BY <1>1, <1>2 DEF TypeOK, OthersOK, IsTyped, Pointers
<1>4. Phases
    BY FreshIsLinked DEF Init, Phases
<1>5. Loading /\ Fetching /\ CallbackIsReset
    BY DEF Init, Loading, Loads, Fetching, CallbackIsReset
<1> QED
    BY <1>1, <1>3, <1>4, <1>5 DEF IInv

LEMMA InvariantNext ==
    ASSUME IInv, [Next]_vars
    PROVE  IInv'
BY LinkedNext, TypesNext, PhasesNext, LoadingNext, FetchingNext, CallbackNext DEF IInv

LEMMA Invariant == Spec => []IInv
<1>1. Init => IInv
    BY InvariantInit
<1>2. IInv /\ [Next]_vars => IInv'
    BY InvariantNext
<1> QED
    BY <1>1, <1>2, PTL DEF Spec

\* The work unit of a slot keeps its type, for replies of every kind: its pointers
\* lead to its file infos, whatever is parsed into it (BoincProxy.c:396-659).
THEOREM WorkUnitIsTyped == Spec => []TypeOK
<1>1. IInv => TypeOK
    BY DEF IInv
<1> QED
    BY <1>1, Invariant, PTL

\* However often a reply is parsed into one object, in part or as a whole, no list
\* of it runs into a circle, so the loops over the lists end.
THEOREM ListsAreFinite == Spec => []ListsEnd
<1>1. IInv => ListsEnd
    BY DEF IInv, IsLinked, EndsIn, ListsEnd
<1> QED
    BY <1>1, Invariant, PTL

\* The result that a work unit reports is the one of the reply on disk, after
\* requests that failed in the middle of a reply, downloads, kills and restarts.
THEOREM LastResultIsReported == Spec => []ReportsTheLastResult
<1>1. IInv => ReportsTheLastResult
    BY DEF IInv, Loading, Loads, ReportsTheLastResult
<1> QED
    BY <1>1, Invariant, PTL

\* A computation finds each input of its reply with the content of its checksum,
\* after downloads that failed or came in part, kills and restarts, if no reply
\* was parsed in part into the object before.
THEOREM InputsAreComputed == Spec => []ComputesItsInputs
<1>1. IInv => ComputesItsInputs
    <2>1. ASSUME IInv, ~cut, phase = "compute"
          PROVE  \A k \in InputsOf(reply) : Arrived(k)
        BY <2>1 DEF IInv, Phases, Fetching
    <2> QED
        BY <2>1 DEF ComputesItsInputs, FilesMatchTheirInfo, Arrived
<1> QED
    BY <1>1, Invariant, PTL

\* A progress callback stays attached only behind a call that made no transfer.
THEOREM CallbackIsDetached == Spec => []CallbackIsReset
<1>1. IInv => CallbackIsReset
    BY DEF IInv
<1> QED
    BY <1>1, Invariant, PTL
=============================================================================
