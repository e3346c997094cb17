---------------------------- MODULE RegistryProofs ----------------------------
(***************************************************************************)
(* The registry's type invariant, the origin of its tools and the routing  *)
(* of the names it advertises, from                                        *)
(*   - what _build_tool_definitions returns, by induction over the list it *)
(*     works off (as the absence of a least counterexample);               *)
(*   - NamesUnique, that no qualified name is given twice.                 *)
(* The second half is about hot reloads of the table: what a reload has    *)
(* done follows the new file, what it has still to do the old one.         *)
(***************************************************************************)
EXTENDS Registry, UpstreamReload, SequenceTheorems, WellFoundedInduction, TLAPS

(***************************************************************************)
(* Every set of natural numbers has a least element.  Induction over data  *)
(* takes this form below: the least counterexample is none.                *)
(***************************************************************************)
LEMMA LeastElement ==
  ASSUME NEW T \in SUBSET Nat, T # {}
  PROVE  \E x \in T : \A y \in T : x <= y
<1> DEFINE R == {ss \in Nat \X Nat : ss[1] < ss[2]}
<1>1. IsWellFoundedOn(R, Nat)
  BY NatLessThanWellFounded DEF OpToRel
<1> HIDE DEF R
<1>2. PICK x \in T : \A y \in T : ~(<<y, x>> \in R)
  BY <1>1, WFMin
<1>3. \A y \in T : x <= y
  <2> TAKE y \in T
  <2>1. ~(y < x)
    BY <1>2 DEF R
  <2> QED
    BY <2>1
<1> QED
  BY <1>3

-------------------------------------------------------------------------------
(***************************************************************************)
(* How a qualified name is composed: the raw name, perhaps with a prefix,  *)
(* and then perhaps with a suffix, which is given without looking again.   *)
(***************************************************************************)
OwnNames(s) == UNION {ToSet(raw) : raw \in Offers[s]}

Unsuffixed(s, td) == td.qualified \in {td.name, PrefixName(s, td.name)}

Suffixed(s, td) ==
  td.qualified \in {SuffixName(s, td.name), SuffixName(s, PrefixName(s, td.name))}

Composed(s, td) ==
  /\ td.name \in OwnNames(s)
  /\ Suffixed(s, td) \/ (Unsuffixed(s, td) /\ td.qualified \notin Taken(s))

(***************************************************************************)
(* _build_tool_definitions.  The definitions made so far are well-formed   *)
(* and, unless names are suffixed, differ from each other and from those   *)
(* of other servers.                                                       *)
(***************************************************************************)
Fresh(s, tools) ==
  \A i \in 1..Len(tools) :
    /\ tools[i].qualified \notin Taken(s)
    /\ \A j \in 1..Len(tools) : tools[i].qualified = tools[j].qualified => i = j

Fitting(s, tools) ==
  /\ \A i \in 1..Len(tools) : Composed(s, tools[i])
  /\ policy # "suffix" => Fresh(s, tools)

Built(s, acc) ==
  acc # None =>
    /\ acc.tools \in Seq(ToolDefinition)
    /\ Taken(s) \subseteq acc.taken
    /\ \A i \in 1..Len(acc.tools) : acc.tools[i].qualified \in acc.taken
    /\ Fitting(s, acc.tools)

LEMMA QualifyTypes ==
  ASSUME NEW s \in Servers, NEW name \in RawNames
  PROVE  Qualify(s, name) \in QualifiedNames /\ SuffixName(s, Qualify(s, name)) \in QualifiedNames
<1>1. Qualify(s, name) \in {name, PrefixName(s, name)}
  BY DEF Qualify
<1> DEFINE Forms(srv, n) == {n, PrefixName(srv, n), SuffixName(srv, n),
                             SuffixName(srv, PrefixName(srv, n))}
<1>2. Qualify(s, name) \in Forms(s, name) /\ SuffixName(s, Qualify(s, name)) \in Forms(s, name)
  BY <1>1
<1>3. QualifiedNames = UNION {Forms(srv, n) : srv \in Servers, n \in RawNames}
  BY DEF QualifiedNames
<1> HIDE DEF Forms
<1> QED
  BY <1>2, <1>3
LEMMA DefineKeeps ==
  ASSUME NEW s \in Servers, NEW acc, acc # None, Built(s, acc), NEW name \in RawNames,
         NEW q \in QualifiedNames, policy = "suffix" \/ q \notin acc.taken,
         Composed(s, [name |-> name, qualified |-> q])
  PROVE  Built(s, Define(acc, name, q))
<1> DEFINE td == [name |-> name, qualified |-> q]
           grown == Append(acc.tools, td)
<1>1. /\ Define(acc, name, q).tools = grown
      /\ Define(acc, name, q).taken = acc.taken \union {q}
  BY DEF Define
<1>2. td \in ToolDefinition /\ td.qualified = q /\ Composed(s, td)
  BY DEF ToolDefinition
<1> HIDE DEF td
<1>3. PICK n \in Nat : n = Len(acc.tools)
  BY DEF Built
<1>4. /\ grown \in Seq(ToolDefinition) /\ Len(grown) = n + 1 /\ grown[n + 1] = td
      /\ \A i \in 1..n : grown[i] = acc.tools[i]
  BY <1>2, <1>3 DEF Built
<1> HIDE DEF grown
<1>5. \A i \in 1..(n + 1) : i \in 1..n \/ i = n + 1
  OBVIOUS
<1>6. \A i \in 1..(n + 1) : grown[i].qualified \in acc.taken \union {q}
  BY <1>2, <1>3, <1>4, <1>5 DEF Built
<1>7. \A i \in 1..(n + 1) : Composed(s, grown[i])
  <2>1. \A i \in 1..n : Composed(s, grown[i])
    BY <1>3, <1>4 DEF Built, Fitting
  <2> QED
    BY <1>2, <1>4, <1>5, <2>1
<1>8. policy # "suffix" => Fresh(s, grown)
  <2> SUFFICES ASSUME policy # "suffix" PROVE Fresh(s, grown)
    OBVIOUS
  <2>1. q \notin acc.taken /\ q \notin Taken(s)
    BY DEF Built
  <2>2. \A i \in 1..n : /\ grown[i].qualified \in acc.taken
                        /\ grown[i].qualified \notin Taken(s)
    BY <1>3, <1>4 DEF Built, Fitting, Fresh
  <2>3. \A i, j \in 1..n : grown[i].qualified = grown[j].qualified => i = j
    BY <1>3, <1>4 DEF Built, Fitting, Fresh
  <2> QED
    BY <1>2, <1>4, <1>5, <2>1, <2>2, <2>3 DEF Fresh
<1> QED
  BY <1>1, <1>4, <1>6, <1>7, <1>8 DEF Built, Fitting

LEMMA DefineNextKeeps ==
  ASSUME NEW s \in Servers, NEW acc, Built(s, acc),
         NEW name \in RawNames, name \in OwnNames(s)
  PROVE  Built(s, DefineNext(s, acc, name))
<1> DEFINE q == Qualify(s, name)
<1>1. q \in QualifiedNames /\ SuffixName(s, q) \in QualifiedNames
  BY QualifyTypes
<1>2. q \in {name, PrefixName(s, name)}
  BY DEF Qualify
<1> HIDE DEF q
<1>3. CASE acc = None \/ (q \in acc.taken /\ policy = "error")
  BY <1>3 DEF DefineNext, Built, q
<1>4. CASE acc # None /\ q \notin acc.taken
  <2>1. DefineNext(s, acc, name) = Define(acc, name, q)
    BY <1>4 DEF DefineNext, q
  <2>2. Composed(s, [name |-> name, qualified |-> q])
    BY <1>2, <1>4 DEF Composed, Unsuffixed, Built
  <2> QED
    BY <1>1, <1>4, <2>1, <2>2, DefineKeeps
<1>5. CASE acc # None /\ q \in acc.taken /\ policy = "suffix"
  <2>1. DefineNext(s, acc, name) = Define(acc, name, SuffixName(s, q))
    BY <1>5 DEF DefineNext, q
  <2>2. Composed(s, [name |-> name, qualified |-> SuffixName(s, q)])
    BY <1>2 DEF Composed, Suffixed
  <2> QED
    BY <1>1, <1>5, <2>1, <2>2, DefineKeeps
<1>6. CASE acc # None /\ q \in acc.taken /\ policy \notin {"suffix", "error"}
  BY <1>6 DEF DefineNext, q
<1> QED
  BY <1>3, <1>4, <1>5, <1>6

LEMMA BuildCorrect ==
  ASSUME NEW s \in Servers, NEW raw \in Offers[s],
         BuildToolDefinitions(s, raw) # None
  PROVE  /\ BuildToolDefinitions(s, raw) \in Seq(ToolDefinition)
         /\ Fitting(s, BuildToolDefinitions(s, raw))
<1>0. raw \in Seq(RawNames)
  BY RegistryAssumption
<1> DEFINE D == 0..Len(raw)
           Body(b, i) == IF i = 0 THEN [tools |-> <<>>, taken |-> Taken(s)]
                                  ELSE DefineNext(s, b[i - 1], raw[i])
           built == CHOOSE b : b = [i \in D |-> Body(b, i)]
           result == built[Len(raw)]
<1>1. BuildToolDefinitions(s, raw) = IF result = None THEN None ELSE result.tools
  BY DEF BuildToolDefinitions
<1>2. \E b : b = [i \in D |-> Body(b, i)]
  <2> DEFINE Undefined == {n \in D : ~\E b : b = [i \in 0..n |-> Body(b, i)]}
  <2> SUFFICES ASSUME Undefined # {} PROVE FALSE
    <3>1. Len(raw) \in D
      BY <1>0
    <3> QED
      BY <3>1
  <2>1. Undefined \in SUBSET Nat
    BY <1>0
  <2> HIDE DEF Undefined
  <2>2. PICK n \in Undefined : \A m \in Undefined : n <= m
    BY <2>1, LeastElement
  <2>3. n \in D /\ ~\E b : b = [i \in 0..n |-> Body(b, i)]
    BY DEF Undefined
  <2>4. n # 0
    <3> DEFINE b == [i \in 0..0 |-> [tools |-> <<>>, taken |-> Taken(s)]]
    <3>1. b = [i \in 0..0 |-> Body(b, i)]
      OBVIOUS
    <3> QED
      BY <2>3, <3>1
  <2>5. n - 1 \in D /\ n - 1 \notin Undefined
    BY <1>0, <2>2, <2>3, <2>4
  <2>6. PICK b : b = [i \in 0..(n - 1) |-> Body(b, i)]
    BY <2>5 DEF Undefined
  <2> DEFINE c == [i \in 0..n |-> IF i = n THEN DefineNext(s, b[n - 1], raw[n]) ELSE b[i]]
  <2>7. \A i \in 0..n : c[i] = Body(c, i)
    BY <2>3, <2>4, <2>6
  <2>8. c = [i \in 0..n |-> Body(c, i)]
    BY <2>7
  <2> QED
    BY <2>3, <2>8
<1>3. built = [i \in D |-> Body(built, i)]
  BY <1>2, Zenon
<1> HIDE DEF built
<1>4. \A i \in D : built[i] = Body(built, i)
  BY <1>3
<1>5. \A i \in D : Built(s, built[i])
  <2> DEFINE Wrong == {i \in D : ~Built(s, built[i])}
  <2> SUFFICES ASSUME Wrong # {} PROVE FALSE
    OBVIOUS
  <2>1. Wrong \in SUBSET Nat
    BY <1>0
  <2> HIDE DEF Wrong
  <2>2. PICK n \in Wrong : \A m \in Wrong : n <= m
    BY <2>1, LeastElement
  <2>3. n \in D /\ ~Built(s, built[n])
    BY DEF Wrong
  <2>4. n # 0
    <3>1. built[0] = [tools |-> <<>>, taken |-> Taken(s)]
      BY <1>4
    <3>2. Built(s, built[0])
      BY <3>1 DEF Built, Fitting, Fresh
    <3> QED
      BY <2>3, <3>2
  <2>5. n - 1 \in D /\ n - 1 \notin Wrong
    BY <1>0, <2>2, <2>3, <2>4
  <2>6. Built(s, built[n - 1])
    BY <2>5 DEF Wrong
  <2>7. raw[n] \in RawNames /\ raw[n] \in OwnNames(s)
    BY <1>0, <2>3, <2>4 DEF OwnNames, ToSet
  <2>8. built[n] = DefineNext(s, built[n - 1], raw[n])
    BY <1>4, <2>3, <2>4
  <2> QED
    BY <2>3, <2>6, <2>7, <2>8, DefineNextKeeps
<1>6. Built(s, result)
  <2>1. Len(raw) \in D
    BY <1>0
  <2> QED
    BY <1>5, <2>1
<1> HIDE DEF result
<1> QED
  BY <1>1, <1>6 DEF Built

(***************************************************************************)
(* _recompute_tool_count adds up natural numbers.                          *)
(***************************************************************************)
LEMMA ToolCountTypes ==
  ASSUME NEW keys, Len(keys) \in Nat, NEW e,
         \A i \in 1..Len(keys) : Len(e[keys[i]].tools) \in Nat
  PROVE  ToolCount(keys, e) \in Nat
<1> DEFINE D == 0..Len(keys)
           Size(s) == IF e[s].enabled THEN Len(e[s].tools) ELSE 0
           Body(b, i) == IF i = 0 THEN 0 ELSE b[i - 1] + Size(keys[i])
           total == CHOOSE b : b = [i \in D |-> Body(b, i)]
<1>1. ToolCount(keys, e) = total[Len(keys)]
  BY DEF ToolCount
<1>2. \A i \in 1..Len(keys) : Size(keys[i]) \in Nat
  OBVIOUS
<1> HIDE DEF Size
<1>3. \E b : b = [i \in D |-> Body(b, i)]
  <2> DEFINE Undefined == {n \in D : ~\E b : b = [i \in 0..n |-> Body(b, i)]}
  <2> SUFFICES ASSUME Undefined # {} PROVE FALSE
    <3>1. Len(keys) \in D
      OBVIOUS
    <3> QED
      BY <3>1
  <2>1. Undefined \in SUBSET Nat
    OBVIOUS
  <2> HIDE DEF Undefined
  <2>2. PICK n \in Undefined : \A m \in Undefined : n <= m
    BY <2>1, LeastElement
  <2>3. n \in D /\ ~\E b : b = [i \in 0..n |-> Body(b, i)]
    BY DEF Undefined
  <2>4. n # 0
    <3> DEFINE b == [i \in 0..0 |-> 0]
    <3>1. b = [i \in 0..0 |-> Body(b, i)]
      OBVIOUS
    <3> QED
      BY <2>3, <3>1
  <2>5. n - 1 \in D /\ n - 1 \notin Undefined
    BY <2>2, <2>3, <2>4
  <2>6. PICK b : b = [i \in 0..(n - 1) |-> Body(b, i)]
    BY <2>5 DEF Undefined
  <2> DEFINE c == [i \in 0..n |-> IF i = n THEN b[n - 1] + Size(keys[n]) ELSE b[i]]
  <2>7. \A i \in 0..n : c[i] = Body(c, i)
    BY <2>3, <2>4, <2>6
  <2>8. c = [i \in 0..n |-> Body(c, i)]
    BY <2>7
  <2> QED
    BY <2>3, <2>8
<1>4. total = [i \in D |-> Body(total, i)]
  BY <1>3, Zenon
<1> HIDE DEF total
<1>5. \A i \in D : total[i] = Body(total, i)
  BY <1>4
<1>6. \A i \in D : total[i] \in Nat
  <2> DEFINE Wrong == {i \in D : total[i] \notin Nat}
  <2> SUFFICES ASSUME Wrong # {} PROVE FALSE
    OBVIOUS
  <2>1. Wrong \in SUBSET Nat
    OBVIOUS
  <2> HIDE DEF Wrong
  <2>2. PICK n \in Wrong : \A m \in Wrong : n <= m
    BY <2>1, LeastElement
  <2>3. n \in D /\ total[n] \notin Nat
    BY DEF Wrong
  <2>4. n # 0
    BY <1>5, <2>3
  <2>5. n - 1 \in D /\ n - 1 \notin Wrong
    BY <2>2, <2>3, <2>4
  <2>6. total[n - 1] \in Nat
    BY <2>5 DEF Wrong
  <2>7. total[n] = total[n - 1] + Size(keys[n]) /\ n \in 1..Len(keys)
    BY <1>5, <2>3, <2>4
  <2> QED
    BY <1>2, <2>3, <2>6, <2>7
<1>7. Len(keys) \in D
  OBVIOUS
<1> QED
  BY <1>1, <1>6, <1>7

-------------------------------------------------------------------------------
(***************************************************************************)
(* The keys of _entries: a new one goes to the end, one that is popped     *)
(* leaves the others in place.                                             *)
(***************************************************************************)
LEMMA AppendKey ==
  ASSUME NEW q \in Seq(Servers), IsInjective(q), NEW s \in Servers, s \notin ToSet(q)
  PROVE  /\ Append(q, s) \in Seq(Servers) /\ IsInjective(Append(q, s))
         /\ ToSet(Append(q, s)) = ToSet(q) \union {s}
<1> DEFINE p == Append(q, s)
           n == Len(q)
<1>1. /\ p \in Seq(Servers) /\ n \in Nat /\ DOMAIN q = 1..n /\ DOMAIN p = 1..(n + 1)
      /\ p[n + 1] = s /\ \A i \in 1..n : p[i] = q[i]
  OBVIOUS
<1> HIDE DEF p, n
<1>2. \A i \in DOMAIN p : i \in DOMAIN q \/ i = n + 1
  BY <1>1
<1>3. IsInjective(p)
  BY <1>1, <1>2 DEF IsInjective, ToSet
<1>4. ToSet(p) = ToSet(q) \union {s}
  <2>1. n + 1 \in DOMAIN p /\ DOMAIN q \subseteq DOMAIN p
    BY <1>1
  <2> QED
    BY <1>1, <1>2, <2>1 DEF ToSet
<1> QED
  BY <1>1, <1>3, <1>4 DEF p

LEMMA RemoveKey ==
  ASSUME NEW q \in Seq(Servers), IsInjective(q), NEW i \in 1..Len(q)
  PROVE  /\ RemoveAt(q, i) \in Seq(Servers) /\ IsInjective(RemoveAt(q, i))
         /\ ToSet(RemoveAt(q, i)) = ToSet(q) \ {q[i]}
<1> DEFINE n == Len(q)
           a == SubSeq(q, 1, i - 1)
           b == SubSeq(q, i + 1, n)
           p == RemoveAt(q, i)
<1>1. n \in Nat /\ DOMAIN q = 1..n /\ i \in 1..n
  OBVIOUS
<1>2. a \in Seq(Servers) /\ Len(a) = i - 1 /\ \A j \in 1..(i - 1) : a[j] = q[j]
  OBVIOUS
<1>3. b \in Seq(Servers) /\ Len(b) = n - i /\ \A j \in 1..(n - i) : b[j] = q[i + j]
  OBVIOUS
<1>4. p = a \o b
  BY DEF RemoveAt
<1> HIDE DEF p, n, a, b
<1>5. p \in Seq(Servers) /\ Len(p) = n - 1 /\ DOMAIN p = 1..(n - 1)
  <2>1. p \in Seq(Servers) /\ Len(p) = Len(a) + Len(b)
    BY <1>2, <1>3, <1>4, ConcatProperties
  <2>2. Len(p) = n - 1
    BY <1>1, <1>2, <1>3, <2>1
  <2> QED
    BY <2>1, <2>2
<1>6. \A j \in 1..(n - 1) : p[j] = IF j < i THEN q[j] ELSE q[j + 1]
  <2> TAKE j \in 1..(n - 1)
  <2>1. CASE j < i
    BY <1>1, <1>2, <1>3, <1>4, <2>1
  <2>2. CASE j >= i
    <3>1. p[j] = b[j - (i - 1)] /\ j - (i - 1) \in 1..(n - i)
      BY <1>1, <1>2, <1>3, <1>4, <2>2
    <3>2. b[j - (i - 1)] = q[i + (j - (i - 1))]
      BY <1>3, <3>1
    <3> QED
      BY <1>1, <2>2, <3>1, <3>2
  <2> QED
    BY <1>1, <2>1, <2>2
<1>7. \A j \in DOMAIN p : \E k \in DOMAIN q : k # i /\ p[j] = q[k] /\ k = IF j < i THEN j ELSE j + 1
  BY <1>1, <1>5, <1>6
<1>8. IsInjective(p)
  <2> SUFFICES ASSUME NEW j \in DOMAIN p, NEW k \in DOMAIN p, p[j] = p[k] PROVE j = k
    BY DEF IsInjective
  <2>1. (IF j < i THEN j ELSE j + 1) = (IF k < i THEN k ELSE k + 1)
    BY <1>7 DEF IsInjective
  <2> QED
    BY <1>1, <1>5, <2>1
<1>9. ToSet(p) \subseteq ToSet(q) \ {q[i]}
  BY <1>1, <1>7 DEF IsInjective, ToSet
<1>10. ASSUME NEW x \in ToSet(q), x # q[i] PROVE x \in ToSet(p)
  <2>1. PICK j \in 1..n : x = q[j]
    BY <1>1 DEF ToSet
  <2>2. CASE j < i
    <3>1. j \in 1..(n - 1) /\ p[j] = x
      BY <1>1, <1>6, <2>1, <2>2
    <3> QED
      BY <1>5, <3>1 DEF ToSet
  <2>3. CASE j > i
    <3>1. j - 1 \in 1..(n - 1) /\ p[j - 1] = x
      BY <1>1, <1>6, <2>1, <2>3
    <3> QED
      BY <1>5, <3>1 DEF ToSet
  <2> QED
    BY <1>1, <1>10, <2>1, <2>2, <2>3
<1> QED
  BY <1>5, <1>8, <1>9, <1>10 DEF p

-------------------------------------------------------------------------------
(***************************************************************************)
(* No two definitions in the table have the same qualified name, unless    *)
(* the policy is to suffix names, which are then not compared again.       *)
(***************************************************************************)
NamesUnique ==
  policy # "suffix" =>
    \A s, o \in Registered :
      \A i \in 1..Len(entry[s].tools), j \in 1..Len(entry[o].tools) :
        entry[s].tools[i].qualified = entry[o].tools[j].qualified => s = o /\ i = j

(***************************************************************************)
(* Every name in the table is composed from a name its own server offers,  *)
(* and only suffixed names are shared between servers.                     *)
(***************************************************************************)
NamesComposed ==
  \A s \in Registered : \A i \in 1..Len(entry[s].tools) :
    /\ entry[s].tools[i].name \in OwnNames(s)
    /\ Suffixed(s, entry[s].tools[i]) \/ Unsuffixed(s, entry[s].tools[i])
    /\ \A o \in Registered \ {s} : \A j \in 1..Len(entry[o].tools) :
         entry[o].tools[j].qualified = entry[s].tools[i].qualified =>
           Suffixed(s, entry[s].tools[i]) \/ Suffixed(o, entry[o].tools[j])

RegistryInv == TypeOK /\ ToolsOfOwnClient /\ NamesUnique /\ NamesComposed

LEMMA RegistryInit == Init => RegistryInv
<1> SUFFICES ASSUME Init PROVE RegistryInv
  OBVIOUS
<1>1. order = <<>> /\ Registered = {}
  BY DEF Init, Registered, ToSet
<1>2. order \in Seq(Servers) /\ IsInjective(order)
  BY <1>1 DEF IsInjective
<1>3. entry \in [Registered -> RegistryEntry]
  BY <1>1 DEF Init
<1>4. TypeOK
  BY <1>2, <1>3, RegistryAssumption DEF Init, TypeOK
<1> QED
  BY <1>1, <1>4 DEF RegistryInv, ToolsOfOwnClient, NamesUnique, NamesComposed

(***************************************************************************)
(* Assignments to fields of an entry.                                      *)
(***************************************************************************)
Record(g, f, on, up, ts) ==
  [gen |-> g, from |-> f, enabled |-> on, healthy |-> up, tools |-> ts]

LEMMA RecordFields ==
  ASSUME NEW e \in RegistryEntry
  PROVE  \A on, up \in BOOLEAN :
           /\ Record(e.gen, e.from, on, up, e.tools) \in RegistryEntry
           /\ Record(e.gen, e.from, on, up, e.tools).tools = e.tools
           /\ Record(e.gen, e.from, on, up, e.tools).from = e.from
           /\ Record(e.gen, e.from, on, up, e.tools).gen = e.gen
  BY DEF Record, RegistryEntry

LEMMA EntryUpdates ==
  ASSUME NEW e \in RegistryEntry
  PROVE  /\ LET updated == [e EXCEPT !.healthy = FALSE]
            IN  /\ updated \in RegistryEntry
                /\ updated.tools = e.tools /\ updated.from = e.from /\ updated.gen = e.gen
         /\ LET updated == [e EXCEPT !.enabled = ~e.enabled]
            IN  /\ updated \in RegistryEntry
                /\ updated.tools = e.tools /\ updated.from = e.from /\ updated.gen = e.gen
<1>1. e = Record(e.gen, e.from, e.enabled, e.healthy, e.tools)
  BY DEF RegistryEntry, Record
<1>2. /\ \A x : [e EXCEPT !.healthy = x] = Record(e.gen, e.from, e.enabled, x, e.tools)
      /\ \A x : [e EXCEPT !.enabled = x] = Record(e.gen, e.from, x, e.healthy, e.tools)
  BY <1>1 DEF Record
<1>3. e.enabled \in BOOLEAN /\ e.healthy \in BOOLEAN
  BY DEF RegistryEntry
<1>4. (~e.enabled) \in BOOLEAN /\ FALSE \in BOOLEAN
  OBVIOUS
<1>5. /\ [e EXCEPT !.healthy = FALSE] = Record(e.gen, e.from, e.enabled, FALSE, e.tools)
      /\ [e EXCEPT !.enabled = ~e.enabled] =
           Record(e.gen, e.from, ~e.enabled, e.healthy, e.tools)
  BY ONLY <1>2, Zenon
<1>6. \A on, up \in BOOLEAN :
        /\ Record(e.gen, e.from, on, up, e.tools) \in RegistryEntry
        /\ Record(e.gen, e.from, on, up, e.tools).tools = e.tools
        /\ Record(e.gen, e.from, on, up, e.tools).from = e.from
        /\ Record(e.gen, e.from, on, up, e.tools).gen = e.gen
  BY RecordFields
<1>7. /\ Record(e.gen, e.from, e.enabled, FALSE, e.tools) \in RegistryEntry
      /\ Record(e.gen, e.from, e.enabled, FALSE, e.tools).tools = e.tools
      /\ Record(e.gen, e.from, e.enabled, FALSE, e.tools).from = e.from
      /\ Record(e.gen, e.from, e.enabled, FALSE, e.tools).gen = e.gen
  BY ONLY <1>3, <1>4, <1>6, Zenon
<1>8. /\ Record(e.gen, e.from, ~e.enabled, e.healthy, e.tools) \in RegistryEntry
      /\ Record(e.gen, e.from, ~e.enabled, e.healthy, e.tools).tools = e.tools
      /\ Record(e.gen, e.from, ~e.enabled, e.healthy, e.tools).from = e.from
      /\ Record(e.gen, e.from, ~e.enabled, e.healthy, e.tools).gen = e.gen
  BY ONLY <1>3, <1>4, <1>6, Zenon
<1> QED
  BY ONLY <1>5, <1>7, <1>8, Zenon

LEMMA EntrySynced ==
  ASSUME NEW e \in RegistryEntry, NEW ts \in Seq(ToolDefinition), NEW f \in 0..gens
  PROVE  LET updated == Listed(e, f, ts)
         IN  updated \in RegistryEntry /\ updated.tools = ts /\ updated.from = f /\ updated.gen = e.gen
  BY DEF Listed, RegistryEntry

LEMMA EntryGrows ==
  ASSUME gens \in Nat, gens' = gens + 1, NEW e \in RegistryEntry
  PROVE  e \in RegistryEntry'
<1>1. 1..gens \subseteq 1..gens' /\ 0..gens \subseteq 0..gens'
  OBVIOUS
<1> QED
  BY <1>1 DEF RegistryEntry

LEMMA KeysTyped ==
  ASSUME TypeOK
  PROVE  /\ Len(order) \in Nat
         /\ \A i \in 1..Len(order) : order[i] \in Registered
         /\ Registered \subseteq Servers
         /\ \A s \in Registered : entry[s] \in RegistryEntry /\ Len(entry[s].tools) \in Nat
  BY DEF TypeOK, Registered, ToSet, RegistryEntry

LEMMA GaugeTypes ==
  ASSUME NEW keys \in Seq(Servers), NEW e,
         \A s \in ToSet(keys) : Len(e[s].tools) \in Nat
  PROVE  ToolCount(keys, e) \in Nat
<1>1. \A i \in 1..Len(keys) : keys[i] \in ToSet(keys)
  BY DEF ToSet
<1> QED
  BY <1>1, ToolCountTypes

-------------------------------------------------------------------------------
(***************************************************************************)
(* The operations, one by one.                                             *)
(***************************************************************************)
LEMMA RegisterKeeps ==
  ASSUME RegistryInv, NEW s \in Servers, Register(s)
  PROVE  RegistryInv'
<1>1. PICK on \in BOOLEAN : entry' = [x \in Registered \union {s} |->
                                   IF x = s THEN NewEntry(gens', on) ELSE entry[x]]
  BY DEF Register
<1>2. /\ order' \in Seq(Servers) /\ IsInjective(order')
      /\ Registered' = Registered \union {s}
  BY AppendKey DEF RegistryInv, TypeOK, Register, Registered
<1>3. gens \in Nat /\ gens' = gens + 1 /\ gens' \in 0..MaxGen
  BY RegistryAssumption DEF RegistryInv, TypeOK, Register
<1>4. NewEntry(gens', on) \in RegistryEntry' /\ NewEntry(gens', on).tools = <<>>
  BY <1>3 DEF NewEntry, RegistryEntry
<1>5. \A x \in Registered : entry[x] \in RegistryEntry'
  BY <1>3, EntryGrows, KeysTyped DEF RegistryInv
<1>6. entry' \in [Registered' -> RegistryEntry']
  BY <1>1, <1>2, <1>4, <1>5
<1>7. sync' \in [Syncers \X Servers -> {None} \union (1..gens')]
  <2>1. 1..gens \subseteq 1..gens'
    BY <1>3
  <2> QED
    BY <2>1 DEF RegistryInv, TypeOK, Register
<1>8. TypeOK'
  BY <1>2, <1>3, <1>6, <1>7 DEF RegistryInv, TypeOK, Register
<1>9. \A x \in Registered' : x = s \/ (x \in Registered /\ entry'[x] = entry[x])
  BY <1>1, <1>2
<1>10. entry'[s].tools = <<>>
  BY <1>1, <1>4
<1>11. ToolsOfOwnClient'
  BY <1>9, <1>10 DEF RegistryInv, ToolsOfOwnClient
<1>12. NamesUnique'
  <2> SUFFICES ASSUME policy' # "suffix", NEW x \in Registered', NEW o \in Registered',
                      NEW i \in 1..Len(entry'[x].tools), NEW j \in 1..Len(entry'[o].tools),
                      entry'[x].tools[i].qualified = entry'[o].tools[j].qualified
               PROVE  x = o /\ i = j
    BY DEF NamesUnique
  <2>1. x # s /\ o # s
    BY <1>10
  <2>2. /\ x \in Registered /\ o \in Registered /\ policy # "suffix"
        /\ entry'[x] = entry[x] /\ entry'[o] = entry[o]
    BY <1>9, <2>1 DEF Register
  <2> QED
    BY <2>2 DEF RegistryInv, NamesUnique
<1>13. NamesComposed'
  <2> SUFFICES ASSUME NEW x \in Registered', NEW i \in 1..Len(entry'[x].tools)
               PROVE  /\ entry'[x].tools[i].name \in OwnNames(x)
                      /\ Suffixed(x, entry'[x].tools[i]) \/ Unsuffixed(x, entry'[x].tools[i])
                      /\ \A o \in Registered' \ {x} : \A j \in 1..Len(entry'[o].tools) :
                           entry'[o].tools[j].qualified = entry'[x].tools[i].qualified =>
                             \/ Suffixed(x, entry'[x].tools[i])
                             \/ Suffixed(o, entry'[o].tools[j])
    BY DEF NamesComposed, Suffixed, Unsuffixed
  <2>1. x \in Registered /\ entry'[x] = entry[x]
    BY <1>9, <1>10
  <2>2. \A o \in Registered' : \A j \in 1..Len(entry'[o].tools) :
          o \in Registered /\ entry'[o] = entry[o]
    BY <1>9, <1>10
  <2> QED
    BY <2>1, <2>2 DEF RegistryInv, NamesComposed
<1> QED
  BY <1>8, <1>11, <1>12, <1>13 DEF RegistryInv

LEMMA DeregisterKeeps ==
  ASSUME RegistryInv, NEW s \in Servers, Deregister(s)
  PROVE  RegistryInv'
<1>1. PICK i \in 1..Len(order) : order[i] = s /\ order' = RemoveAt(order, i)
  BY DEF Deregister
<1>2. /\ order' \in Seq(Servers) /\ IsInjective(order')
      /\ Registered' = Registered \ {s}
  BY <1>1, RemoveKey DEF RegistryInv, TypeOK, Registered
<1>3. entry' = [x \in Registered' |-> entry[x]]
  BY <1>2 DEF Deregister
<1>4. RegistryEntry' = RegistryEntry
  BY DEF RegistryEntry, Deregister
<1>5. entry' \in [Registered' -> RegistryEntry']
  BY <1>2, <1>3, <1>4, KeysTyped DEF RegistryInv
<1>6. gauge' \in Nat
  <2>1. \A x \in ToSet(order') : Len(entry'[x].tools) \in Nat
    BY <1>2, <1>3, KeysTyped DEF RegistryInv, Registered
  <2> QED
    BY <1>2, <2>1, GaugeTypes DEF Deregister
<1>7. TypeOK'
  BY <1>2, <1>5, <1>6, RegistryAssumption DEF RegistryInv, TypeOK, Deregister
<1>8. ToolsOfOwnClient'
  BY <1>2, <1>3 DEF RegistryInv, ToolsOfOwnClient
<1>9. NamesUnique'
  BY <1>2, <1>3 DEF RegistryInv, NamesUnique, Deregister
<1>10. NamesComposed'
  BY <1>2, <1>3 DEF RegistryInv, NamesComposed, Suffixed, Unsuffixed
<1> QED
  BY <1>7, <1>8, <1>9, <1>10 DEF RegistryInv

(***************************************************************************)
(* An entry that is put in the place of another with the same number and   *)
(* with fresh tools, or with the tools it had.                             *)
(***************************************************************************)
LEMMA ReplaceKeeps ==
  ASSUME RegistryInv, NEW s \in Registered, NEW e \in RegistryEntry,
         e.gen = entry[s].gen,
         entry' = [entry EXCEPT ![s] = e],
         UNCHANGED <<strategy, policy, order, gens>>,
         \/ e.tools = entry[s].tools /\ e.from = entry[s].from
         \/ e.from = e.gen /\ Fitting(s, e.tools)
  PROVE  /\ entry' \in [Registered' -> RegistryEntry']
         /\ ToolsOfOwnClient' /\ NamesUnique' /\ NamesComposed'
         /\ \A x \in Registered : Len(entry'[x].tools) \in Nat
<1>1. Registered' = Registered /\ RegistryEntry' = RegistryEntry
  BY DEF Registered, RegistryEntry
<1>2. entry \in [Registered -> RegistryEntry]
  BY DEF RegistryInv, TypeOK
<1>3. /\ entry' \in [Registered' -> RegistryEntry']
      /\ entry'[s] = e /\ \A x \in Registered \ {s} : entry'[x] = entry[x]
  BY <1>1, <1>2
<1>4. \A x \in Registered : Len(entry'[x].tools) \in Nat
  BY <1>1, <1>3 DEF RegistryEntry
<1>5. ToolsOfOwnClient'
  BY <1>1, <1>3 DEF RegistryInv, ToolsOfOwnClient
<1>6. \A y \in Registered \ {s} : \A k \in 1..Len(entry[y].tools) :
        entry[y].tools[k].qualified \in Taken(s)
  <2> SUFFICES ASSUME NEW y \in Registered \ {s}, NEW k \in 1..Len(entry[y].tools)
               PROVE  entry[y].tools[k].qualified \in Taken(s)
    OBVIOUS
  <2>1. entry[y].tools \in Seq(ToolDefinition)
    BY <1>2 DEF RegistryEntry
  <2>2. entry[y].tools[k] \in ToolsOf(y)
    BY <2>1 DEF ToolsOf, ToSet
  <2> QED
    BY <2>2 DEF Taken, Others
<1>7. CASE e.tools = entry[s].tools
  <2>1. \A x \in Registered : entry'[x].tools = entry[x].tools
    BY <1>3, <1>7
  <2>2. NamesUnique'
    BY <1>1, <2>1 DEF RegistryInv, NamesUnique
  <2>3. NamesComposed'
    BY <1>1, <2>1 DEF RegistryInv, NamesComposed, Suffixed, Unsuffixed
  <2> QED
    BY <1>3, <1>4, <1>5, <2>2, <2>3
<1>8. CASE Fitting(s, e.tools)
  <2>1. NamesUnique'
    <3> SUFFICES ASSUME policy # "suffix", NEW x \in Registered, NEW o \in Registered,
                        NEW i \in 1..Len(entry'[x].tools),
                        NEW j \in 1..Len(entry'[o].tools),
                        entry'[x].tools[i].qualified = entry'[o].tools[j].qualified
                 PROVE  x = o /\ i = j
      BY <1>1 DEF NamesUnique
    <3>1. Fresh(s, e.tools)
      BY <1>8 DEF Fitting
    <3>2. CASE x = s /\ o = s
      BY <1>3, <3>1, <3>2 DEF Fresh
    <3>3. CASE x = s /\ o # s
      BY <1>3, <1>6, <3>1, <3>3 DEF Fresh
    <3>4. CASE x # s /\ o = s
      BY <1>3, <1>6, <3>1, <3>4 DEF Fresh
    <3>5. CASE x # s /\ o # s
      BY <1>3, <3>5 DEF RegistryInv, NamesUnique
    <3> QED
      BY <3>2, <3>3, <3>4, <3>5
  <2>2. \A i \in 1..Len(e.tools) : Composed(s, e.tools[i])
    BY <1>8 DEF Fitting
  <2>3. \A x \in Registered : \A i \in 1..Len(entry'[x].tools) :
          /\ entry'[x].tools[i].name \in OwnNames(x)
          /\ Suffixed(x, entry'[x].tools[i]) \/ Unsuffixed(x, entry'[x].tools[i])
    <3> SUFFICES ASSUME NEW x \in Registered, NEW i \in 1..Len(entry'[x].tools)
                 PROVE  /\ entry'[x].tools[i].name \in OwnNames(x)
                        /\ \/ Suffixed(x, entry'[x].tools[i])
                           \/ Unsuffixed(x, entry'[x].tools[i])
      OBVIOUS
    <3>1. CASE x = s
      BY <1>3, <2>2, <3>1 DEF Composed
    <3>2. CASE x # s
      BY <1>3, <3>2 DEF RegistryInv, NamesComposed
    <3> QED
      BY <3>1, <3>2
  <2>4. ASSUME NEW x \in Registered, NEW i \in 1..Len(entry'[x].tools),
               NEW o \in Registered \ {x}, NEW j \in 1..Len(entry'[o].tools),
               entry'[o].tools[j].qualified = entry'[x].tools[i].qualified
        PROVE  Suffixed(x, entry'[x].tools[i]) \/ Suffixed(o, entry'[o].tools[j])
    <3>1. CASE x = s
      BY <1>3, <1>6, <2>2, <2>4, <3>1 DEF Composed
    <3>2. CASE o = s
      BY <1>3, <1>6, <2>2, <2>4, <3>2 DEF Composed
    <3>3. CASE x # s /\ o # s
      BY <1>3, <2>4, <3>3 DEF RegistryInv, NamesComposed
    <3> QED
      BY <3>1, <3>2, <3>3
  <2>5. NamesComposed'
    BY <1>1, <2>3, <2>4 DEF NamesComposed, Suffixed, Unsuffixed
  <2> QED
    BY <1>3, <1>4, <1>5, <2>1, <2>5
<1> QED
  BY <1>7, <1>8

LEMMA SetEnabledKeeps ==
  ASSUME RegistryInv, NEW s \in Servers, SetEnabled(s)
  PROVE  RegistryInv'
<1> DEFINE e == [entry[s] EXCEPT !.enabled = ~entry[s].enabled]
<1>1. s \in Registered /\ entry[s] \in RegistryEntry
  BY KeysTyped DEF SetEnabled, RegistryInv
<1>2. /\ e \in RegistryEntry
      /\ e.tools = entry[s].tools /\ e.from = entry[s].from /\ e.gen = entry[s].gen
  BY <1>1, EntryUpdates
<1>3. entry' = [entry EXCEPT ![s] = e]
  BY Zenon DEF SetEnabled
<1> HIDE DEF e
<1>4. /\ entry' \in [Registered' -> RegistryEntry'] /\ ToolsOfOwnClient'
      /\ NamesUnique' /\ NamesComposed'
  BY <1>1, <1>2, <1>3, ReplaceKeeps DEF SetEnabled
<1>5. TypeOK'
  BY <1>4, RegistryAssumption DEF RegistryInv, TypeOK, SetEnabled
<1> QED
  BY <1>4, <1>5 DEF RegistryInv

LEMMA StartSyncKeeps ==
  ASSUME RegistryInv, NEW s \in Servers, NEW k \in Syncers, StartSync(k, s)
  PROVE  RegistryInv'
<1>1. entry[s].gen \in 1..gens
  BY KeysTyped DEF StartSync, RegistryInv, RegistryEntry
<1>2. sync' \in [Syncers \X Servers -> {None} \union (1..gens)]
  BY <1>1 DEF StartSync, RegistryInv, TypeOK
<1>3. RegistryEntry' = RegistryEntry /\ Registered' = Registered
  BY DEF RegistryEntry, Registered, StartSync
<1>4. TypeOK'
  BY <1>2, <1>3 DEF StartSync, RegistryInv, TypeOK
<1>5. ToolsOfOwnClient' /\ NamesUnique' /\ NamesComposed'
  BY <1>3 DEF StartSync, RegistryInv, ToolsOfOwnClient, NamesUnique, NamesComposed,
              Suffixed, Unsuffixed
<1> QED
  BY <1>4, <1>5 DEF RegistryInv

(***************************************************************************)
(* The end of a sync, with the entry e that it makes of the one it holds.  *)
(***************************************************************************)
LEMMA EndSyncKeeps ==
  ASSUME RegistryInv, NEW s \in Servers, NEW k \in Syncers, NEW e,
         entry' = Synced(k, s, e),
         Current(k, s) =>
           /\ e \in RegistryEntry /\ e.gen = entry[s].gen
           /\ \/ e.tools = entry[s].tools /\ e.from = entry[s].from
              \/ e.from = e.gen /\ Fitting(s, e.tools),
         EndSync(k, s), gauge' = ToolCount(order, entry'),
         UNCHANGED <<strategy, policy, order, gens, changes>>, faults' \in 0..MaxFaults
  PROVE  RegistryInv'
<1>1. Registered' = Registered /\ RegistryEntry' = RegistryEntry
  BY DEF Registered, RegistryEntry
<1>2. /\ entry' \in [Registered' -> RegistryEntry']
      /\ ToolsOfOwnClient' /\ NamesUnique' /\ NamesComposed'
      /\ \A x \in Registered : Len(entry'[x].tools) \in Nat
  <2>1. CASE Current(k, s)
    <3>1. s \in Registered /\ entry' = [entry EXCEPT ![s] = e]
      BY <2>1 DEF Current, Synced
    <3> QED
      BY <2>1, <3>1, ReplaceKeeps
  <2>2. CASE ~Current(k, s)
    <3>1. entry' = entry
      BY <2>2 DEF Synced
    <3>2. entry' \in [Registered' -> RegistryEntry']
      BY <1>1, <3>1 DEF RegistryInv, TypeOK
    <3>3. ToolsOfOwnClient'
      BY <1>1, <3>1 DEF RegistryInv, ToolsOfOwnClient
    <3>4. NamesUnique'
      BY <1>1, <3>1 DEF RegistryInv, NamesUnique
    <3>5. NamesComposed'
      BY <1>1, <3>1 DEF RegistryInv, NamesComposed, Suffixed, Unsuffixed
    <3>6. \A x \in Registered : Len(entry'[x].tools) \in Nat
      BY <3>1, KeysTyped
    <3> QED
      BY <3>2, <3>3, <3>4, <3>5, <3>6
  <2> QED
    BY <2>1, <2>2
<1>3. gauge' \in Nat
  BY <1>2, GaugeTypes DEF RegistryInv, TypeOK, Registered
<1>4. sync' \in [Syncers \X Servers -> {None} \union (1..gens)]
  BY DEF EndSync, RegistryInv, TypeOK
<1>5. TypeOK'
  BY <1>2, <1>3, <1>4 DEF RegistryInv, TypeOK
<1> QED
  BY <1>2, <1>5 DEF RegistryInv

LEMMA SyncReturnsKeeps ==
  ASSUME RegistryInv, NEW s \in Servers, NEW k \in Syncers, SyncReturns(k, s)
  PROVE  RegistryInv'
<1>1. PICK raw \in Offers[s] :
        LET tools == BuildToolDefinitions(s, raw)
            e == IF s \notin Registered THEN None
                 ELSE IF tools = None THEN [entry[s] EXCEPT !.healthy = FALSE]
                 ELSE Listed(entry[s], sync[<<k, s>>], tools)
        IN  entry' = Synced(k, s, e)
  BY DEF SyncReturns
<1> DEFINE tools == BuildToolDefinitions(s, raw)
           e == IF s \notin Registered THEN None
                ELSE IF tools = None THEN [entry[s] EXCEPT !.healthy = FALSE]
                ELSE Listed(entry[s], sync[<<k, s>>], tools)
<1>2. tools # None =>
        tools \in Seq(ToolDefinition) /\ Fitting(s, tools)
  BY BuildCorrect
<1>3. entry' = Synced(k, s, e)
  BY <1>1
<1> HIDE DEF tools
<1>4. ASSUME Current(k, s)
      PROVE  /\ e \in RegistryEntry /\ e.gen = entry[s].gen
             /\ \/ e.tools = entry[s].tools /\ e.from = entry[s].from
                \/ e.from = e.gen /\ Fitting(s, e.tools)
  <2>1. s \in Registered /\ entry[s] \in RegistryEntry /\ entry[s].gen = sync[<<k, s>>]
    BY <1>4, KeysTyped DEF Current, RegistryInv
  <2>2. CASE tools = None
    <3>1. e = [entry[s] EXCEPT !.healthy = FALSE]
      BY <2>1, <2>2
    <3> QED
      BY <2>1, <3>1, EntryUpdates
  <2>3. CASE tools # None
    <3>1. e = Listed(entry[s], sync[<<k, s>>], tools)
      BY <2>1, <2>3
    <3>2. sync[<<k, s>>] \in 0..gens
      BY <2>1 DEF RegistryEntry, RegistryInv, TypeOK
    <3> HIDE DEF e
    <3>3. e \in RegistryEntry /\ e.tools = tools /\ e.from = sync[<<k, s>>] /\ e.gen = entry[s].gen
      BY <1>2, <2>1, <2>3, <3>1, <3>2, EntrySynced
    <3> QED
      BY <1>2, <2>1, <2>3, <3>3
  <2> QED
    BY <2>2, <2>3
<1> HIDE DEF e
<1>5. faults' \in 0..MaxFaults
  BY DEF SyncReturns, RegistryInv, TypeOK
<1> QED
  BY <1>3, <1>4, <1>5, EndSyncKeeps DEF SyncReturns

LEMMA SyncFailsKeeps ==
  ASSUME RegistryInv, NEW s \in Servers, NEW k \in Syncers, SyncFails(k, s)
  PROVE  RegistryInv'
<1> DEFINE e == IF s \in Registered THEN [entry[s] EXCEPT !.healthy = FALSE] ELSE None
<1>1. entry' = Synced(k, s, e)
  BY DEF SyncFails
<1>2. ASSUME Current(k, s)
      PROVE  /\ e \in RegistryEntry /\ e.gen = entry[s].gen
             /\ e.tools = entry[s].tools /\ e.from = entry[s].from
  <2>1. s \in Registered /\ entry[s] \in RegistryEntry
    BY <1>2, KeysTyped DEF Current, RegistryInv
  <2>2. e = [entry[s] EXCEPT !.healthy = FALSE]
    BY <2>1
  <2> QED
    BY <2>1, <2>2, EntryUpdates
<1> HIDE DEF e
<1>3. faults' \in 0..MaxFaults
  BY RegistryAssumption DEF SyncFails, RegistryInv, TypeOK
<1> QED
  BY <1>1, <1>2, <1>3, EndSyncKeeps DEF SyncFails

LEMMA RegistryStep == RegistryInv /\ [Next]_vars => RegistryInv'
<1> SUFFICES ASSUME RegistryInv, [Next]_vars PROVE RegistryInv'
  OBVIOUS
<1>1. ASSUME NEW s \in Servers, Register(s) \/ Deregister(s) \/ SetEnabled(s)
      PROVE  RegistryInv'
  BY <1>1, RegisterKeeps, DeregisterKeeps, SetEnabledKeeps
<1>2. ASSUME NEW s \in Servers, NEW k \in Syncers,
             StartSync(k, s) \/ SyncReturns(k, s) \/ SyncFails(k, s)
      PROVE  RegistryInv'
  BY <1>2, StartSyncKeeps, SyncReturnsKeeps, SyncFailsKeeps
<1>3. CASE UNCHANGED vars
  <2>1. RegistryEntry' = RegistryEntry /\ Registered' = Registered
    BY <1>3 DEF vars, RegistryEntry, Registered
  <2>2. TypeOK'
    BY <1>3, <2>1 DEF vars, RegistryInv, TypeOK
  <2>3. ToolsOfOwnClient' /\ NamesUnique'
    BY <1>3, <2>1 DEF vars, RegistryInv, ToolsOfOwnClient, NamesUnique
  <2>4. NamesComposed'
    BY <1>3, <2>1 DEF vars, RegistryInv, NamesComposed, Suffixed, Unsuffixed
  <2> QED
    BY <2>2, <2>3, <2>4 DEF RegistryInv
<1> QED
  BY <1>1, <1>2, <1>3 DEF Next

THEOREM RegistryInvariance == Spec => []RegistryInv
  BY RegistryInit, RegistryStep, PTL DEF Spec

-------------------------------------------------------------------------------
(***************************************************************************)
(* The smallest of a set of indices exists and is one of them.             *)
(***************************************************************************)
LEMMA MinIsMember ==
  ASSUME NEW T \in SUBSET Nat, T # {}
  PROVE  Min(T) \in T
<1>1. \E x \in T : \A y \in T : x <= y
  BY LeastElement
<1> QED
  BY <1>1 DEF Min

(***************************************************************************)
(* The name of a listed tool is found, at the first server that lists a    *)
(* tool with this name.                                                    *)
(***************************************************************************)
LEMMA ListedNamesResolve ==
  ASSUME RegistryInv, NEW s \in Registered, NEW td \in ToolsOf(s)
  PROVE  \E o \in Registered : \E m \in 1..Len(entry[o].tools) :
           /\ entry[o].tools[m].qualified = td.qualified
           /\ FindByQualifiedTool(td.qualified) = <<o, entry[o].tools[m].name>>
<1> DEFINE q == td.qualified
           I == {j \in 1..Len(order) : \E x \in ToolsOf(order[j]) : x.qualified = q}
           i == IF I # {} THEN Min(I) ELSE 0
           tools == entry[order[i]].tools
           K == {j \in 1..Len(tools) : tools[j].qualified = q}
           k == IF K # {} THEN Min(K) ELSE 0
<1>1. ExactMatch(q) = IF i = 0 THEN None ELSE <<order[i], tools[k].name>>
  BY DEF ExactMatch, SelectInSeq
<1>2. PICK n \in 1..Len(order) : order[n] = s
  BY DEF Registered, ToSet, RegistryInv, TypeOK
<1>3. n \in I /\ I \in SUBSET Nat
  BY <1>2
<1>4. i \in I
  BY <1>3, MinIsMember
<1>5. i \in 1..Len(order) /\ \E x \in ToolsOf(order[i]) : x.qualified = q
  BY <1>4
<1> HIDE DEF I, i
<1>6. PICK o \in Registered : o = order[i]
  BY <1>5, KeysTyped DEF RegistryInv
<1>7. tools = entry[o].tools /\ tools \in Seq(ToolDefinition)
  BY <1>6, KeysTyped DEF RegistryInv, RegistryEntry
<1>8. PICK x \in ToolsOf(o) : x.qualified = q
  BY <1>5, <1>6
<1> HIDE DEF q, tools
<1>9. PICK j \in 1..Len(tools) : x = tools[j]
  BY <1>7 DEF ToolsOf, ToSet
<1>10. j \in K /\ K \in SUBSET Nat
  BY <1>7, <1>8, <1>9
<1>11. k \in K
  BY <1>10, MinIsMember
<1>12. k \in 1..Len(tools) /\ tools[k].qualified = q
  BY <1>11
<1> HIDE DEF K, k
<1>13. ExactMatch(q) = <<o, tools[k].name>>
  <2>1. i # 0
    BY <1>5
  <2> QED
    BY <1>1, <1>6, <2>1
<1>14. <<o, tools[k].name>> # None
  <2>1. o \in Servers
    BY KeysTyped DEF RegistryInv
  <2>2. tools[k] \in ToolDefinition
    BY <1>7, <1>12
  <2>3. tools[k].name \in RawNames
    BY <2>2 DEF ToolDefinition
  <2> QED
    BY <2>1, <2>3, RegistryAssumption
<1>15. FindByQualifiedTool(q) = <<o, tools[k].name>>
  BY <1>13, <1>14 DEF FindByQualifiedTool
<1> QED
  BY <1>7, <1>12, <1>15 DEF q

(***************************************************************************)
(* Where the qualified names are unique, that tool is the only one.        *)
(***************************************************************************)
LEMMA UniqueNamesRoute ==
  ASSUME RegistryInv, policy # "suffix"
  PROVE  AdvertisedToolsRoute
<1> SUFFICES ASSUME NEW s \in Registered, NEW td \in ToolsOf(s)
             PROVE  FindByQualifiedTool(td.qualified) = <<s, td.name>>
  BY DEF AdvertisedToolsRoute
<1>1. entry[s].tools \in Seq(ToolDefinition)
  BY KeysTyped DEF RegistryInv, RegistryEntry
<1>2. PICK i \in 1..Len(entry[s].tools) : td = entry[s].tools[i]
  BY <1>1 DEF ToolsOf, ToSet
<1>3. PICK o \in Registered : \E m \in 1..Len(entry[o].tools) :
        /\ entry[o].tools[m].qualified = td.qualified
        /\ FindByQualifiedTool(td.qualified) = <<o, entry[o].tools[m].name>>
  BY ListedNamesResolve
<1>4. PICK m \in 1..Len(entry[o].tools) :
        /\ entry[o].tools[m].qualified = td.qualified
        /\ FindByQualifiedTool(td.qualified) = <<o, entry[o].tools[m].name>>
  BY <1>3
<1>5. o = s /\ m = i
  BY <1>2, <1>4 DEF RegistryInv, NamesUnique
<1> QED
  BY <1>2, <1>4, <1>5

(***************************************************************************)
(* No tool is named by its server like a name the gateway composes: none   *)
(* is another one's name behind the server's prefix and a dot, none ends,  *)
(* prefixed or not, in "_" and the id of a server.  Nor does an id end in  *)
(* "_" and another id, as `a_b' would beside `b'.                          *)
(***************************************************************************)
EndsLike(q, o) == \E p \in Seq(Chars) : q = SuffixName(o, p)

PlainNames ==
  /\ \A s \in Servers : \A m, n \in OwnNames(s) : m # PrefixName(s, n)
  /\ \A s, o \in Servers : \A n \in OwnNames(s) :
       ~EndsLike(n, o) /\ ~EndsLike(PrefixName(s, n), o)
  /\ \A s, o \in Servers : s # o => ~EndsLike(s, o)

(***************************************************************************)
(* Two ways to cut a sequence: ends of the same length are the same, and   *)
(* of two ends behind the same mark the longer one ends in the mark and    *)
(* the shorter one.                                                        *)
(***************************************************************************)
LEMMA SameLengthTails ==
  ASSUME NEW A, NEW a \in Seq(A), NEW b \in Seq(A), NEW t \in Seq(A), NEW u \in Seq(A),
         Len(t) = Len(u), a \o t = b \o u
  PROVE  t = u
<1>1. PICK k \in Nat, l \in Nat, m \in Nat : k = Len(a) /\ l = Len(b) /\ m = Len(t)
  OBVIOUS
<1> DEFINE w == a \o t
<1>2. Len(w) = k + m /\ \A i \in 1..(k + m) : w[i] = IF i <= k THEN a[i] ELSE t[i - k]
  BY <1>1, ConcatProperties
<1>3. Len(w) = l + m /\ \A i \in 1..(l + m) : w[i] = IF i <= l THEN b[i] ELSE u[i - l]
  BY <1>1, ConcatProperties
<1> HIDE DEF w
<1>4. k = l
  BY <1>2, <1>3
<1>5. ASSUME NEW i \in 1..m PROVE t[i] = u[i]
  <2>1. k + i \in 1..(k + m) /\ ~(k + i <= k) /\ (k + i) - k = i
    OBVIOUS
  <2> QED
    BY <1>2, <1>3, <1>4, <2>1
<1> QED
  BY <1>1, <1>5, SeqEqual

(***************************************************************************)
(* The sequence w, the character c and the sequence z, one after another;  *)
(* a sequence longer than another.                                         *)
(***************************************************************************)
Behind(w, c, z) == w \o <<c>> \o z
Longer(w, z) == Len(w) > Len(z)

(***************************************************************************)
(* Of two sequences that agree around one character, the longer tail ends  *)
(* with that character and the shorter tail.                               *)
(***************************************************************************)
LEMMA LongerTail ==
  ASSUME NEW A, NEW x \in A, NEW a \in Seq(A), NEW b \in Seq(A),
         NEW t \in Seq(A), NEW u \in Seq(A),
         Longer(t, u), Behind(a, x, t) = Behind(b, x, u)
  PROVE  \E p \in Seq(A) : t = Behind(p, x, u)
<1> SUFFICES ASSUME Len(t) > Len(u), a \o <<x>> \o t = b \o <<x>> \o u
             PROVE  \E p \in Seq(A) : t = p \o <<x>> \o u
  BY DEF Longer, Behind
<1>1. PICK k \in Nat, l \in Nat, m \in Nat, n \in Nat :
        k = Len(a) /\ l = Len(b) /\ m = Len(t) /\ n = Len(u)
  OBVIOUS
<1> DEFINE aa == a \o <<x>>
           bb == b \o <<x>>
           w == aa \o t
<1>2. aa \in Seq(A) /\ Len(aa) = k + 1
  BY <1>1
<1>3. bb \in Seq(A) /\ Len(bb) = l + 1 /\ bb[l + 1] = x
  BY <1>1
<1>4. w = bb \o u
  OBVIOUS
<1> HIDE DEF aa, bb
<1>5. /\ Len(w) = k + 1 + m
      /\ \A i \in 1..(k + 1 + m) : w[i] = IF i <= k + 1 THEN aa[i] ELSE t[i - (k + 1)]
  <2>1. /\ Len(w) = Len(aa) + Len(t)
        /\ \A i \in 1..(Len(aa) + Len(t)) :
             w[i] = IF i <= Len(aa) THEN aa[i] ELSE t[i - Len(aa)]
    BY <1>2, ConcatProperties
  <2> HIDE DEF w
  <2> QED
    BY <1>1, <1>2, <2>1
<1>6. /\ Len(w) = l + 1 + n
      /\ \A i \in 1..(l + 1 + n) : w[i] = IF i <= l + 1 THEN bb[i] ELSE u[i - (l + 1)]
  <2> HIDE DEF w
  <2>1. /\ Len(w) = Len(bb) + Len(u)
        /\ \A i \in 1..(Len(bb) + Len(u)) :
             w[i] = IF i <= Len(bb) THEN bb[i] ELSE u[i - Len(bb)]
    BY <1>3, <1>4, ConcatProperties
  <2> QED
    BY <1>1, <1>3, <2>1
<1> HIDE DEF w
<1>7. PICK d \in Nat : l = k + d /\ m = n + d /\ d > 0
  <2>1. k + 1 + m = l + 1 + n /\ m > n
    BY <1>1, <1>5, <1>6
  <2>2. l - k \in Nat /\ l = k + (l - k) /\ m = n + (l - k) /\ l - k > 0
    BY <2>1
  <2> QED
    BY <2>2
<1>8. t[d] = x
  <2>1. l + 1 \in 1..(k + 1 + m) /\ ~(l + 1 <= k + 1) /\ (l + 1) - (k + 1) = d
        /\ l + 1 \in 1..(l + 1 + n)
    BY <1>7
  <2> QED
    BY <1>3, <1>5, <1>6, <2>1
<1>9. ASSUME NEW i \in 1..n PROVE t[d + i] = u[i]
  <2>1. l + 1 + i \in 1..(k + 1 + m) /\ ~(l + 1 + i <= k + 1) /\ (l + 1 + i) - (k + 1) = d + i
        /\ l + 1 + i \in 1..(l + 1 + n) /\ ~(l + 1 + i <= l + 1) /\ (l + 1 + i) - (l + 1) = i
    BY <1>7
  <2> QED
    BY <1>5, <1>6, <2>1
<1> DEFINE p == SubSeq(t, 1, d - 1)
           pp == p \o <<x>>
<1>10. p \in Seq(A) /\ Len(p) = d - 1 /\ \A i \in 1..(d - 1) : p[i] = t[i]
  <2>1. d - 1 \in Int /\ \A i \in 1..(d - 1) : t[i] \in A
    <3>1. \A i \in 1..(d - 1) : i \in 1..m
      BY <1>7
    <3> QED
      BY <1>1, <3>1, ElementOfSeq
  <2>2. /\ SubSeq(t, 1, d - 1) \in Seq(A)
        /\ Len(SubSeq(t, 1, d - 1)) = IF 1 <= d - 1 THEN (d - 1) - 1 + 1 ELSE 0
        /\ \A i \in 1..((d - 1) - 1 + 1) : SubSeq(t, 1, d - 1)[i] = t[1 + i - 1]
    <3>1. t \in Seq(A)
      OBVIOUS
    <3> QED
      BY <2>1, <3>1, SubSeqProperties, SMTT(60)
  <2>3. (d - 1) - 1 + 1 = d - 1 /\ \A i \in 1..(d - 1) : 1 + i - 1 = i
    BY <1>7
  <2> HIDE DEF p
  <2>4. p = SubSeq(t, 1, d - 1)
    BY DEF p
  <2>5. Len(p) = d - 1
    BY <1>7, <2>2, <2>4
  <2> QED
    BY <2>2, <2>3, <2>4, <2>5
<1> HIDE DEF p
<1>11. pp \in Seq(A) /\ Len(pp) = d /\ pp[d] = x /\ \A i \in 1..(d - 1) : pp[i] = p[i]
  <2>1. <<x>> \in Seq(A) /\ Len(<<x>>) = 1 /\ <<x>>[1] = x
    OBVIOUS
  <2>2. /\ pp \in Seq(A) /\ Len(pp) = Len(p) + 1
        /\ \A i \in 1..(Len(p) + 1) : pp[i] = IF i <= Len(p) THEN p[i] ELSE <<x>>[i - Len(p)]
    BY <1>10, <2>1, ConcatProperties
  <2> HIDE DEF pp
  <2>3. d \in 1..(Len(p) + 1) /\ ~(d <= Len(p)) /\ d - Len(p) = 1 /\ Len(p) + 1 = d
    BY <1>7, <1>10
  <2>4. pp[d] = x
    BY <2>1, <2>2, <2>3
  <2>5. ASSUME NEW i \in 1..(d - 1) PROVE pp[i] = p[i]
    <3>1. i \in 1..(Len(p) + 1) /\ i <= Len(p)
      BY <1>7, <1>10
    <3> QED
      BY <2>2, <3>1
  <2> QED
    BY <2>2, <2>3, <2>4, <2>5
<1> HIDE DEF pp
<1>12. /\ pp \o u \in Seq(A) /\ Len(pp \o u) = d + n
       /\ \A i \in 1..(d + n) : (pp \o u)[i] = IF i <= d THEN pp[i] ELSE u[i - d]
  BY <1>1, <1>11, ConcatProperties
<1>13. ASSUME NEW i \in 1..m PROVE t[i] = (pp \o u)[i]
  <2>1. i \in 1..(d + n)
    BY <1>7
  <2>2. CASE i < d
    <3>1. i \in 1..(d - 1) /\ i <= d
      BY <1>7, <2>2
    <3> QED
      BY <1>10, <1>11, <1>12, <2>1, <3>1
  <2>3. CASE i = d
    BY <1>8, <1>11, <1>12, <2>1, <2>3
  <2>4. CASE i > d
    <3>1. i - d \in 1..n /\ d + (i - d) = i /\ ~(i <= d)
      BY <1>7, <2>4
    <3>2. t[i] = u[i - d]
      BY <1>9, <3>1
    <3> QED
      BY <1>12, <2>1, <3>1, <3>2
  <2> QED
    <3>1. i < d \/ i = d \/ i > d
      BY <1>7
    <3> QED
      BY <2>2, <2>3, <2>4, <3>1
<1>14. t = pp \o u
  <2>1. Len(t) = Len(pp \o u)
    BY <1>1, <1>7, <1>12
  <2> QED
    BY <1>1, <1>12, <1>13, <2>1, SeqEqual
<1>15. t = p \o <<x>> \o u
  BY <1>14 DEF pp
<1> QED
  BY <1>10, <1>15

LEMMA CutFront ==
  ASSUME NEW A, NEW s \in Seq(A), NEW t \in Seq(A), NEW v \in Seq(A), s \o t = s \o v
  PROVE  t = v
  BY ConcatSimplifications

LEMMA CutEnd ==
  ASSUME NEW A, NEW s \in Seq(A), NEW t \in Seq(A), NEW v \in Seq(A), s \o v = t \o v
  PROVE  s = t
  BY ConcatSimplifications

LEMMA OneChar ==
  ASSUME NEW A, NEW x \in A
  PROVE  <<x>> \in Seq(A)
  OBVIOUS

(***************************************************************************)
(* The names of a server are sequences of characters.                      *)
(***************************************************************************)
LEMMA NameTypes ==
  ASSUME NEW s \in Servers, NEW n \in OwnNames(s)
  PROVE  /\ s \in Seq(Chars) /\ n \in Seq(Chars)
         /\ Prefix[s] \o <<".">> \in Seq(Chars)
         /\ PrefixName(s, n) \in Seq(Chars)
<1>1. n \in RawNames
  BY DEF OwnNames, RawNames
<1>2. s \in Seq(Chars) /\ n \in Seq(Chars) /\ Prefix[s] \in Seq(Chars) /\ "." \in Chars
  BY <1>1, NameAssumption
<1>3. <<".">> \in Seq(Chars)
  BY <1>2, OneChar
<1>4. Prefix[s] \o <<".">> \in Seq(Chars)
  BY <1>2, <1>3, ConcatProperties
<1>5. PrefixName(s, n) \in Seq(Chars)
  BY <1>2, <1>4, ConcatProperties DEF PrefixName
<1> QED
  BY <1>2, <1>4, <1>5

(***************************************************************************)
(* One server: an unsuffixed name comes from one raw name only.            *)
(***************************************************************************)
LEMMA UnsuffixedDetermines ==
  ASSUME PlainNames, NEW s \in Servers, NEW m \in OwnNames(s), NEW n \in OwnNames(s),
         NEW u, u \in {m, PrefixName(s, m)}, u \in {n, PrefixName(s, n)}
  PROVE  m = n
<1>1. m # PrefixName(s, n) /\ n # PrefixName(s, m)
  BY DEF PlainNames
<1>2. CASE PrefixName(s, m) = PrefixName(s, n)
  <2>1. (Prefix[s] \o <<".">>) \o m = (Prefix[s] \o <<".">>) \o n
    BY <1>2 DEF PrefixName
  <2>2. m \in Seq(Chars) /\ n \in Seq(Chars) /\ Prefix[s] \o <<".">> \in Seq(Chars)
    BY NameTypes
  <2> QED
    BY <2>1, <2>2, CutFront
<1> QED
  BY <1>1, <1>2

(***************************************************************************)
(* An unsuffixed name does not end like a suffixed one.                    *)
(***************************************************************************)
LEMMA UnsuffixedEnds ==
  ASSUME PlainNames, NEW s \in Servers, NEW n \in OwnNames(s),
         NEW u, u \in {n, PrefixName(s, n)}
  PROVE  /\ u \in Seq(Chars)
         /\ \A o \in Servers : ~EndsLike(u, o)
  BY NameTypes DEF PlainNames

(***************************************************************************)
(* A suffixed name ends with the suffix of its server.                     *)
(***************************************************************************)
LEMMA SuffixedEnds ==
  ASSUME NEW s \in Servers, NEW a \in Seq(Chars)
  PROVE  EndsLike(SuffixName(s, a), s)
  BY DEF EndsLike

(***************************************************************************)
(* A suffixed name determines its server and the name before the suffix.   *)
(***************************************************************************)
LEMMA SuffixDetermines ==
  ASSUME PlainNames, NEW s \in Servers, NEW o \in Servers,
         NEW a \in Seq(Chars), NEW b \in Seq(Chars), SuffixName(s, a) = SuffixName(o, b)
  PROVE  s = o /\ a = b
<1>1. "_" \in Chars
  BY NameAssumption
<1>2. \A x \in Servers : x \in Seq(Chars)
  BY NameAssumption
<1>3. ASSUME NEW x \in Servers, NEW y \in Servers, NEW p \in Seq(Chars),
             NEW q \in Seq(Chars), SuffixName(x, p) = SuffixName(y, q)
      PROVE  ~(Len(x) > Len(y))
  <2> SUFFICES ASSUME Longer(x, y) PROVE FALSE
    BY DEF Longer
  <2>1. \A c \in Chars : \A v, w, t, u \in Seq(Chars) :
          Longer(t, u) /\ Behind(v, c, t) = Behind(w, c, u)
            => \E z \in Seq(Chars) : t = Behind(z, c, u)
    BY LongerTail
  <2>2. \A o1 \in Servers : \A v \in Seq(Chars) : SuffixName(o1, v) = Behind(v, "_", o1)
    BY DEF SuffixName, Behind
  <2>3. Behind(p, "_", x) = Behind(q, "_", y)
    BY <1>3, <2>2
  <2>4. x \in Seq(Chars) /\ y \in Seq(Chars)
    BY <1>2
  <2>5. PICK z \in Seq(Chars) : x = Behind(z, "_", y)
    <3>1. PICK c \in Chars : c = "_"
      BY <1>1
    <3>2. Longer(x, y) /\ p \in Seq(Chars) /\ q \in Seq(Chars)
      BY <1>3
    <3>3. Behind(p, c, x) = Behind(q, c, y)
      BY <2>3, <3>1
    <3>4. \E z \in Seq(Chars) : x = Behind(z, c, y)
      <4>1. \A v, w, t, u \in Seq(Chars) :
              Longer(t, u) /\ Behind(v, c, t) = Behind(w, c, u)
                => \E z \in Seq(Chars) : t = Behind(z, c, u)
        BY <2>1
      <4>2. \A t, u \in Seq(Chars) :
              Longer(t, u) /\ Behind(p, c, t) = Behind(q, c, u)
                => \E z \in Seq(Chars) : t = Behind(z, c, u)
        BY <3>2, <4>1
      <4>3. Longer(x, y) /\ Behind(p, c, x) = Behind(q, c, y)
              => \E z \in Seq(Chars) : x = Behind(z, c, y)
        BY <2>4, <4>2
      <4> QED
        BY <3>2, <3>3, <4>3
    <3> QED
      BY <3>1, <3>4
  <2>6. EndsLike(x, y)
    BY <2>2, <2>5 DEF EndsLike
  <2>7. x # y
    BY <2>4 DEF Longer
  <2> QED
    BY <2>6, <2>7 DEF PlainNames
<1>4. Len(s) = Len(o)
  <2>1. ~(Len(s) > Len(o)) /\ ~(Len(o) > Len(s))
    BY <1>3
  <2>2. Len(s) \in Nat /\ Len(o) \in Nat
    BY <1>2
  <2> QED
    BY <2>1, <2>2
<1>5. <<"_">> \in Seq(Chars)
  BY <1>1, OneChar
<1>6. a \o <<"_">> \in Seq(Chars) /\ b \o <<"_">> \in Seq(Chars)
  BY <1>5, ConcatProperties
<1>7. (a \o <<"_">>) \o s = (b \o <<"_">>) \o o
  BY DEF SuffixName
<1>8. s = o
  BY <1>2, <1>4, <1>6, <1>7, SameLengthTails
<1>9. a \o <<"_">> = b \o <<"_">>
  BY <1>2, <1>6, <1>7, <1>8, CutEnd
<1>10. a = b
  BY <1>5, <1>9, CutEnd
<1> QED
  BY <1>8, <1>10

(***************************************************************************)
(* Plain names compose to names that determine the server and the tool.    *)
(***************************************************************************)
LEMMA PlainNamesRoute ==
  ASSUME RegistryInv, PlainNames
  PROVE  AdvertisedToolsRoute
<1> SUFFICES ASSUME NEW s \in Registered, NEW td \in ToolsOf(s)
             PROVE  FindByQualifiedTool(td.qualified) = <<s, td.name>>
  BY DEF AdvertisedToolsRoute
<1>1. entry[s].tools \in Seq(ToolDefinition)
  BY KeysTyped DEF RegistryInv, RegistryEntry
<1>2. PICK i \in 1..Len(entry[s].tools) : td = entry[s].tools[i]
  BY <1>1 DEF ToolsOf, ToSet
<1>3. PICK o \in Registered : \E m \in 1..Len(entry[o].tools) :
        /\ entry[o].tools[m].qualified = td.qualified
        /\ FindByQualifiedTool(td.qualified) = <<o, entry[o].tools[m].name>>
  BY ListedNamesResolve
<1>4. PICK m \in 1..Len(entry[o].tools) :
        /\ entry[o].tools[m].qualified = td.qualified
        /\ FindByQualifiedTool(td.qualified) = <<o, entry[o].tools[m].name>>
  BY <1>3
<1> DEFINE t == entry[o].tools[m]
           q == td.qualified
<1>5. s \in Servers /\ o \in Servers
  BY KeysTyped DEF RegistryInv
<1>6. /\ td.name \in OwnNames(s) /\ t.name \in OwnNames(o)
      /\ Suffixed(s, td) \/ Unsuffixed(s, td)
      /\ Suffixed(o, t) \/ Unsuffixed(o, t)
      /\ s # o => Suffixed(s, td) \/ Suffixed(o, t)
  BY <1>2, <1>4 DEF RegistryInv, NamesComposed
<1>7. t.qualified = q
  BY <1>4
<1> HIDE DEF t
<1>8. ASSUME NEW x \in Servers, NEW d, d.name \in OwnNames(x), Suffixed(x, d)
      PROVE  \E a \in {d.name, PrefixName(x, d.name)} : d.qualified = SuffixName(x, a)
  BY <1>8 DEF Suffixed
<1>9. ASSUME NEW x \in Servers, NEW d, d.name \in OwnNames(x), Suffixed(x, d),
             NEW y \in Servers, NEW e, e.name \in OwnNames(y), Unsuffixed(y, e),
             e.qualified = d.qualified
      PROVE  FALSE
  <2>1. PICK a \in {d.name, PrefixName(x, d.name)} : d.qualified = SuffixName(x, a)
    BY <1>8, <1>9
  <2>2. a \in Seq(Chars)
    BY <1>9, <2>1, UnsuffixedEnds
  <2>3. EndsLike(e.qualified, x)
    BY <1>9, <2>1, <2>2, SuffixedEnds
  <2>4. ~EndsLike(e.qualified, x)
    BY <1>9, UnsuffixedEnds DEF Unsuffixed
  <2> QED
    BY <2>3, <2>4
<1>10. CASE Suffixed(s, td)
  <2>1. Suffixed(o, t)
    BY <1>5, <1>6, <1>7, <1>9, <1>10
  <2>2. PICK a \in {td.name, PrefixName(s, td.name)} : q = SuffixName(s, a)
    BY <1>5, <1>6, <1>8, <1>10
  <2>3. PICK b \in {t.name, PrefixName(o, t.name)} : q = SuffixName(o, b)
    BY <1>5, <1>6, <1>7, <1>8, <2>1
  <2>4. a \in Seq(Chars)
    BY <1>5, <1>6, <2>2, UnsuffixedEnds
  <2>5. b \in Seq(Chars)
    BY <1>5, <1>6, <2>3, UnsuffixedEnds
  <2>6. s = o /\ a = b
    BY <1>5, <2>2, <2>3, <2>4, <2>5, SuffixDetermines
  <2>7. td.name = t.name
    BY <1>5, <1>6, <2>6, UnsuffixedDetermines
  <2> QED
    BY <1>4, <2>6, <2>7 DEF t
<1>11. CASE ~Suffixed(s, td)
  <2>1. Unsuffixed(s, td) /\ ~Suffixed(o, t)
    BY <1>5, <1>6, <1>7, <1>9, <1>11
  <2>2. s = o /\ Unsuffixed(o, t)
    BY <1>6, <1>11, <2>1
  <2>3. td.name = t.name
    BY <1>5, <1>6, <1>7, <2>1, <2>2, UnsuffixedDetermines DEF Unsuffixed
  <2> QED
    BY <1>4, <2>2, <2>3 DEF t
<1> QED
  BY <1>10, <1>11

(***************************************************************************)
(* Every value that the registry keeps has its type, whatever its clients  *)
(* list: no interleaving of registrations, removals and syncs leaves an    *)
(* entry without a key or a key without an entry.                          *)
(***************************************************************************)
THEOREM RegistryTypeCorrect == Spec => []TypeOK
  BY RegistryInvariance, PTL DEF RegistryInv

(***************************************************************************)
(* The tools of an entry were listed by its own client.                    *)
(***************************************************************************)
THEOREM ToolsAreOfOwnClient == Spec => []ToolsOfOwnClient
  BY RegistryInvariance, PTL DEF RegistryInv

(***************************************************************************)
(* find_by_qualified_tool takes every advertised name to its own tool, for *)
(* all servers, prefixes and tool lists, unless the policy is "suffix"     *)
(* (registry.py, line 261, does not compare a suffixed name again).        *)
(***************************************************************************)
THEOREM AdvertisedNamesRoute == Spec => [](policy # "suffix" => AdvertisedToolsRoute)
<1>1. RegistryInv => (policy # "suffix" => AdvertisedToolsRoute)
  BY UniqueNamesRoute
<1> QED
  BY <1>1, RegistryInvariance, PTL

(***************************************************************************)
(* Under every policy find_by_qualified_tool takes every advertised name   *)
(* to its own tool, if no upstream names a tool like a composed name and   *)
(* no server id ends like a suffix.                                        *)
(***************************************************************************)
THEOREM PlainNamesAreRouted == PlainNames => (Spec => []AdvertisedToolsRoute)
<1> SUFFICES ASSUME PlainNames PROVE Spec => []AdvertisedToolsRoute
  OBVIOUS
<1>1. RegistryInv => AdvertisedToolsRoute
  BY PlainNamesRoute
<1> QED
  BY <1>1, RegistryInvariance, PTL

(***************************************************************************)
(* Under every policy, "suffix" included, a name that the registry lists   *)
(* is one that find_by_qualified_tool resolves, to some registered server  *)
(* and a tool of it that is listed under this very name.                   *)
(***************************************************************************)
THEOREM AdvertisedNamesResolve ==
  Spec => [](\A s \in Registered : \A td \in ToolsOf(s) :
               \E o \in Registered : \E t \in ToolsOf(o) :
                 /\ t.qualified = td.qualified
                 /\ FindByQualifiedTool(td.qualified) = <<o, t.name>>)
<1>1. ASSUME RegistryInv, NEW s \in Registered, NEW td \in ToolsOf(s)
      PROVE  \E o \in Registered : \E t \in ToolsOf(o) :
               /\ t.qualified = td.qualified
               /\ FindByQualifiedTool(td.qualified) = <<o, t.name>>
  <2>1. PICK o \in Registered : \E m \in 1..Len(entry[o].tools) :
          /\ entry[o].tools[m].qualified = td.qualified
          /\ FindByQualifiedTool(td.qualified) = <<o, entry[o].tools[m].name>>
    BY <1>1, ListedNamesResolve
  <2>2. PICK m \in 1..Len(entry[o].tools) :
          /\ entry[o].tools[m].qualified = td.qualified
          /\ FindByQualifiedTool(td.qualified) = <<o, entry[o].tools[m].name>>
    BY <2>1
  <2>3. entry[o].tools \in Seq(ToolDefinition)
    BY <1>1, KeysTyped DEF RegistryInv, RegistryEntry
  <2>4. entry[o].tools[m] \in ToolsOf(o)
    BY <2>3 DEF ToolsOf, ToSet
  <2> QED
    BY <2>2, <2>4
<1>2. RegistryInv => \A s \in Registered : \A td \in ToolsOf(s) :
                       \E o \in Registered : \E t \in ToolsOf(o) :
                         /\ t.qualified = td.qualified
                         /\ FindByQualifiedTool(td.qualified) = <<o, t.name>>
  BY <1>1
<1> QED
  BY <1>2, RegistryInvariance, PTL

-------------------------------------------------------------------------------
(***************************************************************************)
(* Hot reloads.  The registry holds for id what version v of the file says.*)
(***************************************************************************)
Follows(id, v) ==
  IF Upstreams[v][id] = NoServer THEN table[id] = NoServer
  ELSE /\ table[id] # NoServer
       /\ table[id].server = Upstreams[v][id]
       /\ table[id].url = Upstreams[v][id].url

(***************************************************************************)
(* What a reload has still to do comes from the two files it compares.     *)
(***************************************************************************)
PlanInv ==
  \A l \in Reloaders :
    /\ gone[l] \subseteq Removed(old[l], new[l])
    /\ todo[l] \subseteq Named(new[l])
    /\ half[l] \subseteq todo[l] \intersect Named(old[l])
    /\ \A id \in half[l] : ~SameConnection(l, id)
    /\ l \notin busy => gone[l] = {} /\ todo[l] = {}

(***************************************************************************)
(* While reloads neither overlap nor fail, the one that runs started from  *)
(* app.state.config, what it has done follows the new file and what it has *)
(* still to do follows the old one.                                        *)
(***************************************************************************)
CleanInv ==
  clean =>
    /\ \A l, m \in busy : l = m
    /\ busy = {} => \A id \in Ids \ touched : Follows(id, config)
    /\ \A l \in busy :
         /\ old[l] = config
         /\ \A id \in Ids \ touched :
              /\ id \in gone[l] \union (todo[l] \ half[l]) => Follows(id, old[l])
              /\ id \notin gone[l] \union todo[l] => Follows(id, new[l])

UpstreamInv == UpstreamTypeOK /\ PlanInv /\ CleanInv

LEMMA UpstreamTypes ==
  ASSUME NEW v \in Versions, NEW id \in Named(v)
  PROVE  /\ id \in Ids /\ Upstreams[v][id] \in Server
         /\ Upstreams[v][id] # NoServer /\ Upstreams[v][id].url \in Urls
  BY ReloadAssumption DEF Named, Server

LEMMA RegisteredEntry ==
  ASSUME NEW id \in Ids, born[id] \in 0..1, NEW s \in Server
  PROVE  /\ UpstreamEntry(id, s) \in Entry /\ UpstreamEntry(id, s) # NoServer
         /\ UpstreamEntry(id, s).server = s /\ UpstreamEntry(id, s).url = s.url
<1>1. s.url \in Urls /\ 1 - born[id] \in 0..1
  BY DEF Server
<1> QED
  BY <1>1, ReloadAssumption DEF UpstreamEntry, Entry

LEMMA UpdatedEntry ==
  ASSUME NEW e \in Entry, NEW s \in Server
  PROVE  LET u == [e EXCEPT !.server = s]
         IN  u \in Entry /\ u # NoServer /\ u.server = s /\ u.url = e.url /\ u.client = e.client
<1> DEFINE u == [e EXCEPT !.server = s]
<1>1. u \in Entry /\ u.server = s /\ u.url = e.url /\ u.client = e.client
  BY DEF Entry
<1> QED
  BY <1>1, ReloadAssumption

LEMMA UpstreamInitially == UpstreamInit => UpstreamInv
<1> SUFFICES ASSUME UpstreamInit PROVE UpstreamInv
  OBVIOUS
<1>1. 1 \in Versions
  BY ReloadAssumption DEF Versions
<1>2. ASSUME NEW id \in Ids
      PROVE  table[id] \in Entry \union {NoServer} /\ Follows(id, 1)
  <2>1. CASE Upstreams[1][id] = NoServer
    BY <2>1 DEF UpstreamInit, Follows
  <2>2. CASE Upstreams[1][id] # NoServer
    <3> DEFINE s == Upstreams[1][id]
               e == [server |-> s, url |-> s.url, client |-> 0]
    <3>1. s \in Server /\ s.url \in Urls
      BY <1>1, <2>2, UpstreamTypes DEF Named
    <3>2. e \in Entry /\ e.server = s /\ e.url = s.url
      BY <3>1 DEF Entry
    <3>3. table[id] = e
      BY <2>2 DEF UpstreamInit
    <3>4. e # NoServer
      BY <3>2, ReloadAssumption
    <3> HIDE DEF e
    <3> QED
      BY <2>2, <3>2, <3>3, <3>4 DEF Follows
  <2> QED
    BY <2>1, <2>2
<1>3. table \in [Ids -> Entry \union {NoServer}]
  <2>1. table = [id \in Ids |-> table[id]]
    BY DEF UpstreamInit
  <2> QED
    BY <1>2, <2>1
<1>4. UpstreamTypeOK
  BY <1>1, <1>3, ReloadAssumption DEF UpstreamInit, UpstreamTypeOK
<1>5. PlanInv
  BY DEF UpstreamInit, PlanInv
<1>6. CleanInv
  BY <1>2 DEF UpstreamInit, CleanInv
<1> QED
  BY <1>4, <1>5, <1>6 DEF UpstreamInv

LEMMA EditFileKeeps == UpstreamInv /\ EditFile => UpstreamInv'
<1> SUFFICES ASSUME UpstreamInv, EditFile PROVE UpstreamInv'
  OBVIOUS
<1>1. file' \in Versions
  BY ReloadAssumption DEF UpstreamInv, UpstreamTypeOK, EditFile, Versions
<1>2. UpstreamTypeOK'
  BY <1>1 DEF UpstreamInv, UpstreamTypeOK, EditFile, reloadVars, apiVars
<1>3. PlanInv' /\ CleanInv'
  BY DEF UpstreamInv, PlanInv, CleanInv, SameConnection, Follows, EditFile, reloadVars, apiVars
<1> QED
  BY <1>2, <1>3 DEF UpstreamInv

LEMMA LoadKeeps ==
  ASSUME UpstreamInv, NEW l \in Reloaders, Load(l)
  PROVE  UpstreamInv'
<1>1. /\ config \in Versions /\ file \in Versions
      /\ Removed(config, file) \subseteq Ids /\ Named(file) \subseteq Ids
  BY DEF UpstreamInv, UpstreamTypeOK, Removed, Named
<1>2. UpstreamTypeOK'
  BY <1>1 DEF UpstreamInv, UpstreamTypeOK, Load, apiVars
<1>3. /\ old'[l] = config /\ new'[l] = file
      /\ gone'[l] = Removed(config, file) /\ todo'[l] = Named(file)
      /\ half'[l] = {} /\ l \in busy'
  BY DEF UpstreamInv, UpstreamTypeOK, PlanInv, Load
<1>4. \A m \in Reloaders \ {l} :
        /\ old'[m] = old[m] /\ new'[m] = new[m] /\ gone'[m] = gone[m]
        /\ todo'[m] = todo[m] /\ half'[m] = half[m] /\ (m \in busy' <=> m \in busy)
  BY DEF UpstreamInv, UpstreamTypeOK, Load
<1>5. PlanInv'
  BY <1>3, <1>4 DEF UpstreamInv, PlanInv, SameConnection
<1>6. CleanInv'
  <2> SUFFICES ASSUME clean' PROVE CleanInv'
    BY DEF CleanInv
  <2>1. clean /\ busy = {} /\ busy' = {l} /\ config' = config /\ table' = table /\ touched' = touched
    BY DEF Load, apiVars
  <2>2. \A id \in Ids \ touched : Follows(id, config) /\ Follows(id, config)'
    BY <2>1 DEF UpstreamInv, CleanInv, Follows
  <2>3. ASSUME NEW id \in Ids \ touched, id \notin Removed(config, file) \union Named(file)
        PROVE  Follows(id, file)'
    <3>1. Upstreams[config][id] = NoServer /\ Upstreams[file][id] = NoServer
      BY <2>3 DEF Removed, Named
    <3> QED
      BY <2>1, <2>2, <3>1 DEF Follows, Load
  <2>4. \A id \in Ids \ touched : Follows(id, old[l])'
    BY <1>3, <2>1, <2>2 DEF Follows
  <2>5. \A id \in Ids \ touched :
          id \notin gone'[l] \union todo'[l] => Follows(id, new[l])'
    BY <1>3, <2>3 DEF Follows, Load
  <2> QED
    BY <1>3, <2>1, <2>4, <2>5 DEF CleanInv
<1> QED
  BY <1>2, <1>5, <1>6 DEF UpstreamInv

(***************************************************************************)
(* An operation of reload l on id that leaves the plans of other reloads   *)
(* and the entries of other ids alone.                                     *)
(***************************************************************************)
LEMMA OneIdKeepsClean ==
  ASSUME UpstreamInv, NEW l \in busy, NEW id \in Ids,
         UNCHANGED <<config, busy, old, new, clean, touched>>,
         \A x \in Ids \ {id} : table'[x] = table[x],
         \A x \in Ids \ {id} : /\ x \in gone'[l] <=> x \in gone[l]
                               /\ x \in todo'[l] <=> x \in todo[l]
                               /\ x \in half'[l] <=> x \in half[l],
         clean /\ id \notin touched =>
           /\ id \in gone'[l] \union (todo'[l] \ half'[l]) => Follows(id, old[l])'
           /\ id \notin gone'[l] \union todo'[l] => Follows(id, new[l])'
  PROVE  CleanInv'
<1> SUFFICES ASSUME clean PROVE CleanInv'
  BY DEF CleanInv
<1>1. busy = {l} /\ old[l] = config
  BY DEF UpstreamInv, CleanInv
<1>2. ASSUME NEW x \in Ids \ touched
      PROVE  /\ x \in gone'[l] \union (todo'[l] \ half'[l]) => Follows(x, old[l])'
             /\ x \notin gone'[l] \union todo'[l] => Follows(x, new[l])'
  <2>1. CASE x = id
    BY <2>1
  <2>2. CASE x # id
    <3>1. /\ x \in gone[l] \union (todo[l] \ half[l]) => Follows(x, old[l])
          /\ x \notin gone[l] \union todo[l] => Follows(x, new[l])
      BY DEF UpstreamInv, CleanInv
    <3>2. table'[x] = table[x] /\ old'[l] = old[l] /\ new'[l] = new[l]
      BY <2>2
    <3> QED
      BY <2>2, <3>1, <3>2 DEF Follows
  <2> QED
    BY <2>1, <2>2
<1> QED
  BY <1>1, <1>2 DEF CleanInv

LEMMA DropRemovedKeeps ==
  ASSUME UpstreamInv, NEW l \in Reloaders, NEW id \in Ids, DropRemoved(l, id)
  PROVE  UpstreamInv'
<1>1. UpstreamTypeOK'
  BY DEF UpstreamInv, UpstreamTypeOK, DropRemoved, DeregisterUpstream, apiVars
<1>2. PlanInv'
  BY DEF UpstreamInv, UpstreamTypeOK, PlanInv, SameConnection, DropRemoved
<1>3. table'[id] = NoServer /\ \A x \in Ids \ {id} : table'[x] = table[x]
  BY DEF UpstreamInv, UpstreamTypeOK, DropRemoved, DeregisterUpstream
<1>4. id \in Removed(old[l], new[l])
  BY DEF UpstreamInv, PlanInv, DropRemoved
<1>5. Upstreams[new[l]][id] = NoServer /\ id \notin todo[l]
  BY <1>4 DEF Removed, Named, UpstreamInv, PlanInv
<1>6. Follows(id, new[l])'
  BY <1>3, <1>5 DEF Follows, DropRemoved
<1>7. gone'[l] = gone[l] \ {id} /\ todo' = todo /\ half' = half
  BY DEF UpstreamInv, UpstreamTypeOK, DropRemoved
<1>8. CleanInv'
  BY <1>3, <1>5, <1>6, <1>7, OneIdKeepsClean DEF DropRemoved, apiVars
<1> QED
  BY <1>1, <1>2, <1>8 DEF UpstreamInv

LEMMA AddKeeps ==
  ASSUME UpstreamInv, NEW l \in Reloaders, NEW id \in Ids, Add(l, id)
  PROVE  UpstreamInv'
<1> DEFINE s == Upstreams[new[l]][id]
<1>1. new[l] \in Versions /\ id \in Named(new[l])
  BY DEF UpstreamInv, UpstreamTypeOK, PlanInv, Add, Takes
<1>2. s \in Server /\ s # NoServer
  BY <1>1, UpstreamTypes
<1>3. born[id] \in 0..1 /\ 1 - born[id] \in 0..1
  BY DEF UpstreamInv, UpstreamTypeOK
<1> HIDE DEF s
<1>4. /\ UpstreamEntry(id, s) \in Entry /\ UpstreamEntry(id, s) # NoServer
      /\ UpstreamEntry(id, s).server = s /\ UpstreamEntry(id, s).url = s.url
  BY <1>2, <1>3, RegisteredEntry
<1>5. table' = [table EXCEPT ![id] = UpstreamEntry(id, s)] /\ born' = [born EXCEPT ![id] = 1 - born[id]]
  BY DEF Add, RegisterUpstream, s
<1>6. table' \in [Ids -> Entry \union {NoServer}] /\ born' \in [Ids -> 0..1]
  BY <1>3, <1>4, <1>5 DEF UpstreamInv, UpstreamTypeOK
<1>7. UpstreamTypeOK'
  BY <1>6 DEF UpstreamInv, UpstreamTypeOK, Add, apiVars
<1>8. table'[id] = UpstreamEntry(id, s) /\ \A x \in Ids \ {id} : table'[x] = table[x]
  BY <1>5 DEF UpstreamInv, UpstreamTypeOK
<1>9. Follows(id, new[l])'
  BY <1>2, <1>4, <1>8 DEF Follows, Add, s
<1>10. /\ todo'[l] = todo[l] \ {id} /\ half'[l] = {} /\ half[l] \subseteq {id}
       /\ gone' = gone /\ gone[l] = {}
  BY DEF UpstreamInv, UpstreamTypeOK, Add, Takes
<1>11. PlanInv'
  BY <1>10 DEF UpstreamInv, UpstreamTypeOK, PlanInv, SameConnection, Add, Takes
<1>12. CleanInv'
  BY <1>8, <1>9, <1>10, OneIdKeepsClean DEF Add, Takes, apiVars
<1> QED
  BY <1>7, <1>11, <1>12 DEF UpstreamInv

LEMMA DisconnectKeeps ==
  ASSUME UpstreamInv, NEW l \in Reloaders, NEW id \in Ids, Disconnect(l, id)
  PROVE  UpstreamInv'
<1>1. UpstreamTypeOK'
  BY DEF UpstreamInv, UpstreamTypeOK, Disconnect, DeregisterUpstream, apiVars
<1>2. /\ half'[l] = {id} /\ half[l] \subseteq {id} /\ id \in todo[l]
      /\ id \in Named(old[l]) /\ ~SameConnection(l, id)
      /\ \A m \in Reloaders \ {l} : half'[m] = half[m]
      /\ gone' = gone /\ todo' = todo
  BY DEF UpstreamInv, UpstreamTypeOK, Disconnect, Takes
<1>3. PlanInv'
  BY <1>2 DEF UpstreamInv, PlanInv, SameConnection, Disconnect
<1>4. \A x \in Ids \ {id} : table'[x] = table[x]
  BY DEF UpstreamInv, UpstreamTypeOK, Disconnect, DeregisterUpstream
<1>5. id \notin gone[l]
  BY DEF Disconnect, Takes
<1>6. CleanInv'
  BY <1>2, <1>4, <1>5, OneIdKeepsClean DEF Disconnect, Takes, apiVars
<1> QED
  BY <1>1, <1>3, <1>6 DEF UpstreamInv

LEMMA UpdateTable ==
  ASSUME UpstreamInv, NEW l \in Reloaders, NEW id \in Ids, UpdateInPlace(l, id),
         table[id] # NoServer
  PROVE  /\ table'[id] \in Entry /\ table'[id] # NoServer
         /\ table'[id].server = Upstreams[new[l]][id]
         /\ table'[id].url = table[id].url /\ table'[id].client = table[id].client
<1> DEFINE s == Upstreams[new[l]][id]
           u == [table[id] EXCEPT !.server = s]
<1>1. new[l] \in Versions /\ id \in Named(new[l])
  BY DEF UpstreamInv, UpstreamTypeOK, PlanInv, UpdateInPlace, Takes
<1>2. s \in Server
  BY <1>1, UpstreamTypes
<1>3. table[id] \in Entry
  BY DEF UpstreamInv, UpstreamTypeOK
<1>4. table' = [table EXCEPT ![id] = u]
  BY DEF UpdateInPlace
<1>5. table'[id] = u
  BY <1>4 DEF UpstreamInv, UpstreamTypeOK
<1> HIDE DEF s
<1>6. u \in Entry /\ u # NoServer /\ u.server = s /\ u.url = table[id].url /\ u.client = table[id].client
  BY <1>2, <1>3, UpdatedEntry
<1> HIDE DEF u
<1> QED
  BY <1>5, <1>6 DEF s

LEMMA UpdateInPlaceKeeps ==
  ASSUME UpstreamInv, NEW l \in Reloaders, NEW id \in Ids, UpdateInPlace(l, id)
  PROVE  UpstreamInv'
<1>1. \A x \in Ids \ {id} : table'[x] = table[x]
  BY DEF UpstreamInv, UpstreamTypeOK, UpdateInPlace
<1>2. table' = [x \in Ids |-> table'[x]]
  BY DEF UpstreamInv, UpstreamTypeOK, UpdateInPlace
<1>3. table[id] = NoServer => table' = table
  BY DEF UpdateInPlace
<1>4. table'[id] \in Entry \union {NoServer}
  BY <1>3, UpdateTable DEF UpstreamInv, UpstreamTypeOK
<1>5. table' \in [Ids -> Entry \union {NoServer}]
  BY <1>1, <1>2, <1>4 DEF UpstreamInv, UpstreamTypeOK
<1>6. UpstreamTypeOK'
  BY <1>5 DEF UpstreamInv, UpstreamTypeOK, UpdateInPlace, apiVars
<1>7. /\ todo'[l] = todo[l] \ {id} /\ \A m \in Reloaders \ {l} : todo'[m] = todo[m]
      /\ gone' = gone /\ gone[l] = {} /\ half' = half /\ id \notin half[l]
      /\ id \in todo[l] /\ id \in Named(old[l])
  BY DEF UpstreamInv, UpstreamTypeOK, UpdateInPlace, Takes
<1>8. PlanInv'
  BY <1>7 DEF UpstreamInv, PlanInv, SameConnection, UpdateInPlace
<1>9. ASSUME clean, id \notin touched
      PROVE  Follows(id, new[l])'
  <2>1. Follows(id, old[l])
    BY <1>7, <1>9 DEF UpstreamInv, CleanInv, UpdateInPlace, Takes
  <2>2. table[id] # NoServer /\ table[id].url = Upstreams[new[l]][id].url
    BY <1>7, <2>1 DEF Follows, Named, UpdateInPlace, SameConnection
  <2>3. /\ table'[id] # NoServer /\ table'[id].server = Upstreams[new[l]][id]
        /\ table'[id].url = Upstreams[new[l]][id].url
    BY <2>2, UpdateTable
  <2>4. Upstreams[new[l]][id] # NoServer /\ new' = new
    BY <1>7 DEF UpstreamInv, PlanInv, Named, UpdateInPlace
  <2> QED
    BY <2>3, <2>4 DEF Follows
<1>10. CleanInv'
  BY <1>1, <1>7, <1>9, OneIdKeepsClean DEF UpdateInPlace, Takes, apiVars
<1> QED
  BY <1>6, <1>8, <1>10 DEF UpstreamInv

LEMMA SucceedKeeps ==
  ASSUME UpstreamInv, NEW l \in Reloaders, Succeed(l)
  PROVE  UpstreamInv'
<1>1. UpstreamTypeOK'
  BY DEF UpstreamInv, UpstreamTypeOK, Succeed, apiVars
<1>2. PlanInv'
  BY DEF UpstreamInv, PlanInv, SameConnection, Succeed, Through
<1>3. CleanInv'
  <2> SUFFICES ASSUME clean' PROVE CleanInv'
    BY DEF CleanInv
  <2>1. clean /\ l \in busy /\ table' = table /\ touched' = touched /\ config' = new[l]
    BY DEF Succeed, Through, apiVars
  <2>2. busy' = {}
    BY <2>1 DEF Succeed, UpstreamInv, CleanInv
  <2>3. \A id \in Ids \ touched : Follows(id, new[l])
    BY <2>1 DEF UpstreamInv, CleanInv, Succeed, Through
  <2>4. \A id \in Ids \ touched : Follows(id, config)'
    BY <2>1, <2>3 DEF Follows
  <2> QED
    BY <2>1, <2>2, <2>4 DEF CleanInv
<1> QED
  BY <1>1, <1>2, <1>3 DEF UpstreamInv

LEMMA FailsKeeps ==
  ASSUME UpstreamInv, NEW l \in Reloaders, Fails(l)
  PROVE  UpstreamInv'
<1>1. UpstreamTypeOK'
  BY DEF UpstreamInv, UpstreamTypeOK, Fails, apiVars
<1>2. PlanInv'
  BY DEF UpstreamInv, PlanInv, SameConnection, Fails, Through
<1>3. CleanInv'
  BY DEF CleanInv, Fails
<1> QED
  BY <1>1, <1>2, <1>3 DEF UpstreamInv

(***************************************************************************)
(* The API changes the entry of an id that counts as touched from then on. *)
(***************************************************************************)
LEMMA ApiKeeps ==
  ASSUME UpstreamInv, NEW id \in Ids, ApiRegister(id) \/ ApiDeregister(id)
  PROVE  UpstreamInv'
<1>1. /\ apis' \in 0..MaxApi /\ touched' = touched \union {id}
      /\ UNCHANGED <<file, config, busy, old, new, gone, todo, half, clean>>
  BY ReloadAssumption
     DEF UpstreamInv, UpstreamTypeOK, ApiRegister, ApiDeregister, reloadVars
<1>2. /\ table' \in [Ids -> Entry \union {NoServer}] /\ born' \in [Ids -> 0..1]
      /\ \A x \in Ids \ {id} : table'[x] = table[x]
  <2>1. CASE ApiRegister(id)
    <3>1. born[id] \in 0..1 /\ 1 - born[id] \in 0..1
      BY DEF UpstreamInv, UpstreamTypeOK
    <3>2. UpstreamEntry(id, ApiServer) \in Entry
      BY <3>1, RegisteredEntry, ReloadAssumption
    <3> QED
      BY <2>1, <3>1, <3>2 DEF UpstreamInv, UpstreamTypeOK, ApiRegister, RegisterUpstream
  <2>2. CASE ApiDeregister(id)
    BY <2>2 DEF UpstreamInv, UpstreamTypeOK, ApiDeregister, DeregisterUpstream
  <2> QED
    BY <2>1, <2>2
<1>3. UpstreamTypeOK'
  BY <1>1, <1>2 DEF UpstreamInv, UpstreamTypeOK
<1>4. PlanInv'
  BY <1>1 DEF UpstreamInv, PlanInv, SameConnection
<1>5. CleanInv'
  BY <1>1, <1>2 DEF UpstreamInv, CleanInv, Follows
<1> QED
  BY <1>3, <1>4, <1>5 DEF UpstreamInv

LEMMA UpstreamStep == UpstreamInv /\ [UpstreamNext]_upstreamVars => UpstreamInv'
<1> SUFFICES ASSUME UpstreamInv, [UpstreamNext]_upstreamVars PROVE UpstreamInv'
  OBVIOUS
<1>1. CASE EditFile
  BY <1>1, EditFileKeeps
<1>2. ASSUME NEW l \in Reloaders, Load(l) \/ Succeed(l) \/ Fails(l)
      PROVE  UpstreamInv'
  BY <1>2, LoadKeeps, SucceedKeeps, FailsKeeps
<1>3. ASSUME NEW l \in Reloaders, NEW id \in Ids,
             DropRemoved(l, id) \/ Add(l, id) \/ Disconnect(l, id) \/ UpdateInPlace(l, id)
      PROVE  UpstreamInv'
  BY <1>3, DropRemovedKeeps, AddKeeps, DisconnectKeeps, UpdateInPlaceKeeps
<1>4. ASSUME NEW id \in Ids, ApiRegister(id) \/ ApiDeregister(id)
      PROVE  UpstreamInv'
  BY <1>4, ApiKeeps
<1>5. CASE UNCHANGED upstreamVars
  BY <1>5 DEF upstreamVars, reloadVars, apiVars, UpstreamInv, UpstreamTypeOK, PlanInv,
              CleanInv, SameConnection, Follows
<1> QED
  BY <1>1, <1>2, <1>3, <1>4, <1>5 DEF UpstreamNext

THEOREM UpstreamInvariance == UpstreamSpec => []UpstreamInv
  BY UpstreamInitially, UpstreamStep, PTL DEF UpstreamSpec

-------------------------------------------------------------------------------
(***************************************************************************)
(* What one step does to the table: only these operations touch an entry.  *)
(***************************************************************************)
LEMMA TableStep ==
  ASSUME UpstreamInv, [UpstreamNext]_upstreamVars, apis' = apis, NEW id \in Ids,
         table'[id] # table[id]
  PROVE  \E l \in busy :
           \/ id \in gone[l] /\ DropRemoved(l, id)
           \/ id \in todo[l] /\ (Add(l, id) \/ Disconnect(l, id) \/ UpdateInPlace(l, id))
<1>1. CASE EditFile \/ UNCHANGED upstreamVars
  BY <1>1 DEF EditFile, upstreamVars
<1>2. ASSUME NEW l \in Reloaders, Load(l) \/ Succeed(l) \/ Fails(l)
      PROVE  FALSE
  BY <1>2 DEF Load, Succeed, Fails
<1>3. ASSUME NEW x \in Ids, ApiRegister(x) \/ ApiDeregister(x)
      PROVE  FALSE
  BY <1>3 DEF ApiRegister, ApiDeregister, UpstreamInv, UpstreamTypeOK
<1>4. ASSUME NEW l \in Reloaders, NEW x \in Ids,
             DropRemoved(l, x) \/ Add(l, x) \/ Disconnect(l, x) \/ UpdateInPlace(l, x)
      PROVE  /\ x = id /\ l \in busy
             /\ \/ id \in gone[l] /\ DropRemoved(l, id)
                \/ id \in todo[l] /\ (Add(l, id) \/ Disconnect(l, id) \/ UpdateInPlace(l, id))
  <2>1. x = id
    BY <1>4 DEF UpstreamInv, UpstreamTypeOK, DropRemoved, Add, Disconnect, UpdateInPlace,
                RegisterUpstream, DeregisterUpstream
  <2>2. CASE DropRemoved(l, x)
    BY <2>1, <2>2 DEF DropRemoved
  <2>3. CASE Add(l, x) \/ Disconnect(l, x) \/ UpdateInPlace(l, x)
    BY <2>1, <2>3 DEF Add, Disconnect, UpdateInPlace, Takes
  <2> QED
    BY <1>4, <2>1, <2>2, <2>3
<1> QED
  BY <1>1, <1>2, <1>3, <1>4 DEF UpstreamNext

(***************************************************************************)
(* The reload's bookkeeping has its types: no interleaving of reloads and  *)
(* API calls makes one of them look up an upstream that its file lacks.    *)
(***************************************************************************)
THEOREM UpstreamTypeCorrect == UpstreamSpec => []UpstreamTypeOK
  BY UpstreamInvariance, PTL DEF UpstreamInv

(***************************************************************************)
(* Between reloads the registry holds what app.state.config says, as long  *)
(* as no reload failed half-way or overlapped another; for all sequences   *)
(* of files.                                                               *)
(***************************************************************************)
THEOREM ReloadsAreFollowed == UpstreamSpec => []RegistryFollowsConfig
<1>1. UpstreamInv => RegistryFollowsConfig
  BY DEF UpstreamInv, CleanInv, RegistryFollowsConfig, Follows
<1> QED
  BY <1>1, UpstreamInvariance, PTL

(***************************************************************************)
(* A reload gives up the client of a server only if the server is not in   *)
(* both files or its connection changed.                                   *)
(***************************************************************************)
THEOREM SessionsAreKept == UpstreamSpec => UnchangedKeepSession
<1> DEFINE Keeps == \A id \in Ids :
       (/\ table[id] # NoServer
        /\ apis' = apis
        /\ table'[id] = NoServer \/ table'[id].client # table[id].client)
       => \E l \in busy :
            \/ id \notin Named(old[l]) \intersect Named(new[l])
            \/ Upstreams[old[l]][id].url # Upstreams[new[l]][id].url
<1>1. UpstreamInv /\ [UpstreamNext]_upstreamVars => [Keeps]_upstreamVars
  <2> SUFFICES ASSUME UpstreamInv, [UpstreamNext]_upstreamVars, NEW id \in Ids,
                      table[id] # NoServer, apis' = apis,
                      table'[id] = NoServer \/ table'[id].client # table[id].client
               PROVE  \E l \in busy :
                        \/ id \notin Named(old[l]) \intersect Named(new[l])
                        \/ Upstreams[old[l]][id].url # Upstreams[new[l]][id].url
    OBVIOUS
  <2>1. table'[id] # table[id]
    OBVIOUS
  <2>2. PICK l \in busy :
          \/ id \in gone[l] /\ DropRemoved(l, id)
          \/ id \in todo[l] /\ (Add(l, id) \/ Disconnect(l, id) \/ UpdateInPlace(l, id))
    BY <2>1, TableStep
  <2>3. l \in Reloaders
    BY DEF UpstreamInv, UpstreamTypeOK
  <2>4. CASE id \in gone[l]
    BY <2>3, <2>4 DEF UpstreamInv, PlanInv, Removed
  <2>5. CASE Add(l, id)
    BY <2>3, <2>5 DEF UpstreamInv, PlanInv, Add, SameConnection
  <2>6. CASE Disconnect(l, id)
    BY <2>6 DEF Disconnect, SameConnection
  <2>7. CASE UpdateInPlace(l, id)
    BY <2>3, <2>7, UpdateTable
  <2> QED
    BY <2>2, <2>4, <2>5, <2>6, <2>7
<1>2. UpstreamSpec => [][Keeps]_upstreamVars
  BY <1>1, UpstreamInvariance, PTL DEF UpstreamSpec
<1> QED
  BY <1>2 DEF UnchangedKeepSession

(***************************************************************************)
(* A server that no version of the file names survives every reload.       *)
(***************************************************************************)
THEOREM ApiServersAreKept == UpstreamSpec => ApiServersSurvive
<1> DEFINE Survives == \A id \in Ids :
       table[id] # NoServer /\ (\A v \in Versions : id \notin Named(v)) /\ apis' = apis
       => table'[id] = table[id]
<1>1. UpstreamInv /\ [UpstreamNext]_upstreamVars => [Survives]_upstreamVars
  <2> SUFFICES ASSUME UpstreamInv, [UpstreamNext]_upstreamVars, NEW id \in Ids,
                      \A v \in Versions : id \notin Named(v), apis' = apis,
                      table'[id] # table[id]
               PROVE  FALSE
    OBVIOUS
  <2>1. PICK l \in busy : id \in gone[l] \/ id \in todo[l]
    BY TableStep
  <2>2. l \in Reloaders /\ old[l] \in Versions /\ new[l] \in Versions
    BY DEF UpstreamInv, UpstreamTypeOK
  <2> QED
    BY <2>1, <2>2 DEF UpstreamInv, PlanInv, Removed
<1>2. UpstreamSpec => [][Survives]_upstreamVars
  BY <1>1, UpstreamInvariance, PTL DEF UpstreamSpec
<1> QED
  BY <1>2 DEF ApiServersSurvive
===============================================================================
