------------------------- MODULE DefinitionsProofs --------------------------
(***************************************************************************)
(* How definitions come to be known.  Loader: what is loaded from files is *)
(* complete, for any files.  Registry: what is registered can be executed, *)
(* for any definitions and any number of callers.                          *)
(***************************************************************************)
EXTENDS Registry, Loader, SequenceTheorems, FiniteSetTheorems, TLAPS

-----------------------------------------------------------------------------
(* Loader.                                                                 *)

\* The includes still to come, of all files being loaded.
Awaited == UNION {Elements(stack[k]) : k \in DOMAIN stack}

\* The workflows of file f are among those collected.
Collected(f) ==
  \A i \in DOMAIN File(f).specs :
    /\ \E j \in DOMAIN specs : specs[j].id = File(f).specs[i].id
    /\ f = Root => File(f).specs[i] \in Elements(specs)

(***************************************************************************)
(* While files are loaded, every include of a file that was read was read  *)
(* as well, or is on the stack; this is what is left of completeness       *)
(* before the stack is empty.  A failed load is over, and nothing is said  *)
(* of it.                                                                  *)
(***************************************************************************)
LoadInv ==
  /\ world \in Worlds
  /\ stage = "load" => world.files # <<>>
  /\ stage = "load" /\ seen = {} => stack = <<>>
  /\ stage = "build" => seen = {}
  /\ stage \in {"load"} \cup Finished /\ seen # {} =>
       /\ world.files # <<>> /\ Root \in seen /\ seen \subseteq DOMAIN world.files
       /\ IsList(specs) /\ \A f \in seen : Collected(f)
  /\ stage = "load" /\ seen # {} =>
       /\ IsList(stack) /\ stack # <<>> /\ \A k \in DOMAIN stack : IsList(stack[k])
       /\ \A f \in seen : Elements(File(f).includes) \subseteq seen \cup Awaited
  /\ stage \in Finished /\ seen # {} => Includes(seen) = seen

LEMMA ListOf ==
  ASSUME NEW S, NEW s \in Seq(S)
  PROVE  IsList(s) /\ Elements(s) \subseteq S /\ Len(s) \in Nat /\ DOMAIN s = 1 .. Len(s)
<1>1. Len(s) \in Nat /\ DOMAIN s = 1 .. Len(s) /\ \A k \in 1 .. Len(s) : s[k] \in S
  BY LenProperties, ElementOfSeq
<1>2. s = [k \in 1 .. Len(s) |-> s[k]]
  BY LenProperties
<1>3. \A k \in 1 .. Len(s) : s[k] \in Elements(s)
  BY <1>1 DEF Elements
<1>4. [k \in 1 .. Len(s) |-> s[k]] \in Seq(Elements(s))
  BY <1>1, <1>3, IsASeq
<1>. QED  BY <1>1, <1>2, <1>4 DEF IsList, Elements

LEMMA ListTail ==
  ASSUME NEW s, IsList(s), s # <<>>
  PROVE  IsList(Tail(s)) /\ Elements(s) = {Head(s)} \cup Elements(Tail(s))
<1>. DEFINE S == Elements(s)
<1>1. s \in Seq(S)
  BY DEF IsList
<1>2. /\ Len(s) \in Nat /\ DOMAIN s = 1 .. Len(s) /\ S = {s[k] : k \in 1 .. Len(s)}
  BY <1>1, ListOf DEF Elements
<1>. HIDE DEF S
<1>3. /\ Len(s) # 0 /\ Head(s) = s[1] /\ Tail(s) \in Seq(S) /\ Len(Tail(s)) = Len(s) - 1
      /\ \A k \in 1 .. Len(Tail(s)) : Tail(s)[k] = s[k + 1]
  BY <1>1, HeadTailProperties, EmptySeq, <1>2
<1>4. IsList(Tail(s)) /\ DOMAIN Tail(s) = 1 .. Len(s) - 1
  BY <1>3, ListOf
<1>5. \A k \in 1 .. Len(s) : k = 1 \/ (k - 1 \in 1 .. Len(s) - 1 /\ s[k] = Tail(s)[k - 1])
  BY <1>2, <1>3
<1>6. \A k \in 1 .. Len(s) - 1 : k + 1 \in 1 .. Len(s) /\ Tail(s)[k] = s[k + 1]
  BY <1>2, <1>3
<1>7. Elements(Tail(s)) = {Tail(s)[k] : k \in 1 .. Len(s) - 1}
  BY <1>4 DEF Elements
<1>8. 1 \in 1 .. Len(s)
  BY <1>2, <1>3
<1>9. S = {Head(s)} \cup Elements(Tail(s))
  <2>1. ASSUME NEW x \in S PROVE x \in {Head(s)} \cup Elements(Tail(s))
    <3>1. PICK k \in 1 .. Len(s) : x = s[k]  BY <1>2
    <3>. QED  BY <1>3, <1>5, <1>7, <3>1
  <2>2. ASSUME NEW k \in 1 .. Len(s) - 1 PROVE Tail(s)[k] \in S
    BY <1>2, <1>6
  <2>3. Head(s) \in S
    BY <1>2, <1>3, <1>8
  <2>. QED  BY <1>7, <2>1, <2>2, <2>3
<1>. QED  BY <1>4, <1>9 DEF S

LEMMA ListConcat ==
  ASSUME NEW s, IsList(s), NEW t, IsList(t)
  PROVE  IsList(s \o t) /\ Elements(s \o t) = Elements(s) \cup Elements(t)
<1>. DEFINE S == Elements(s) \cup Elements(t)
<1>1. s \in Seq(S) /\ t \in Seq(S)
  <2>1. \A k \in DOMAIN s : s[k] \in S  BY DEF Elements
  <2>2. \A k \in DOMAIN t : t[k] \in S  BY DEF Elements
  <2>3. s \in Seq(Elements(s)) /\ t \in Seq(Elements(t))  BY DEF IsList
  <2>. HIDE DEF S
  <2>4. s = [k \in 1 .. Len(s) |-> s[k]] /\ Len(s) \in Nat /\ DOMAIN s = 1 .. Len(s)
    BY <2>3, LenProperties
  <2>5. t = [k \in 1 .. Len(t) |-> t[k]] /\ Len(t) \in Nat /\ DOMAIN t = 1 .. Len(t)
    BY <2>3, LenProperties
  <2>6. [k \in 1 .. Len(s) |-> s[k]] \in Seq(S)  BY <2>1, <2>4, IsASeq
  <2>7. [k \in 1 .. Len(t) |-> t[k]] \in Seq(S)  BY <2>2, <2>5, IsASeq
  <2>. QED  BY <2>4, <2>5, <2>6, <2>7
<1>. HIDE DEF S
<1>2. /\ s \o t \in Seq(S) /\ Len(s \o t) = Len(s) + Len(t)
      /\ \A k \in 1 .. Len(s) + Len(t) :
           (s \o t)[k] = IF k <= Len(s) THEN s[k] ELSE t[k - Len(s)]
  BY <1>1, ConcatProperties
<1>3. /\ Len(s) \in Nat /\ DOMAIN s = 1 .. Len(s) /\ Len(t) \in Nat /\ DOMAIN t = 1 .. Len(t)
      /\ DOMAIN (s \o t) = 1 .. Len(s) + Len(t) /\ IsList(s \o t)
      /\ Elements(s \o t) \subseteq S
  BY <1>1, <1>2, ListOf
<1>4. \A k \in 1 .. Len(s) : k \in 1 .. Len(s) + Len(t) /\ (s \o t)[k] = s[k]
  BY <1>2, <1>3
<1>5. \A k \in 1 .. Len(t) : Len(s) + k \in 1 .. Len(s) + Len(t) /\ (s \o t)[Len(s) + k] = t[k]
  <2>. SUFFICES ASSUME NEW k \in 1 .. Len(t)
                PROVE  Len(s) + k \in 1 .. Len(s) + Len(t) /\ (s \o t)[Len(s) + k] = t[k]
    OBVIOUS
  <2>1. Len(s) + k \in 1 .. Len(s) + Len(t) /\ ~(Len(s) + k <= Len(s)) /\ Len(s) + k - Len(s) = k
    BY <1>3
  <2>. QED  BY <1>2, <2>1
<1>6. S \subseteq Elements(s \o t)
  BY <1>3, <1>4, <1>5 DEF S, Elements
<1>. QED  BY <1>3, <1>6 DEF S

\* Every place that is kept has its place in the result: the number of places
\* kept up to it.
LEMMA KeptElements ==
  ASSUME NEW s, IsList(s), NEW I \in SUBSET DOMAIN s
  PROVE  IsList(Kept(s, I)) /\ \A i \in I : s[i] \in Elements(Kept(s, I))
<1>. DEFINE Upto(i) == {j \in I : j <= i}
            n == Cardinality(I)
<1>1. I \subseteq Nat /\ IsFiniteSet(I)
  <2>1. DOMAIN s = 1 .. Len(s) /\ Len(s) \in Nat
    BY ListOf DEF IsList
  <2>2. IsFiniteSet(1 .. Len(s))
    BY <2>1, FS_Interval
  <2>. QED  BY <2>1, <2>2, FS_Subset
<1>2. n \in Nat
  BY <1>1, FS_CardinalityType
<1>3. Kept(s, I) = [k \in 1 .. n |-> s[CHOOSE i \in I : Cardinality(Upto(i)) = k]]
  BY DEF Kept
<1>4. ASSUME NEW i \in I
      PROVE  Cardinality(Upto(i)) \in 1 .. n
  <2>1. IsFiniteSet(Upto(i)) /\ Cardinality(Upto(i)) <= n
    BY <1>1, FS_Subset
  <2>2. i \in Upto(i)
    BY <1>1
  <2>3. Cardinality(Upto(i)) \in Nat /\ Cardinality(Upto(i)) # 0
    BY <2>1, <2>2, FS_CardinalityType, FS_EmptySet
  <2>. QED  BY <1>2, <2>1, <2>3
<1>5. ASSUME NEW i \in I, NEW j \in I, Cardinality(Upto(i)) = Cardinality(Upto(j))
      PROVE  i = j
  <2>1. IsFiniteSet(Upto(i)) /\ IsFiniteSet(Upto(j))
    BY <1>1, FS_Subset
  <2>2. ASSUME NEW a \in I, NEW b \in I, Cardinality(Upto(a)) = Cardinality(Upto(b)),
               IsFiniteSet(Upto(b)), a <= b
        PROVE  a = b
    <3>1. Upto(a) \subseteq Upto(b)
      BY <1>1, <2>2
    <3>2. Upto(a) = Upto(b)
      <4>. HIDE DEF Upto
      <4>. QED  BY <2>2, <3>1, FS_Subset
    <3>3. b \in Upto(a)
      BY <1>1, <3>2
    <3>. QED  BY <1>1, <2>2, <3>3
  <2>3. i <= j \/ j <= i
    BY <1>1
  <2>. QED  BY <1>5, <2>1, <2>2, <2>3
<1>6. ASSUME NEW i \in I
      PROVE  s[i] \in Elements(Kept(s, I))
  <2>. DEFINE k == Cardinality(Upto(i))
  <2>1. (CHOOSE j \in I : Cardinality(Upto(j)) = k) = i
    <3>. HIDE DEF Upto
    <3>. QED  BY <1>5
  <2>2. k \in 1 .. n
    BY <1>4
  <2>. HIDE DEF Upto, n
  <2>3. Kept(s, I)[k] = s[i] /\ k \in DOMAIN Kept(s, I)
    BY <1>3, <2>1, <2>2
  <2>. QED  BY <2>3 DEF Elements
<1>7. IsList(Kept(s, I))
  <2>1. DOMAIN Kept(s, I) = 1 .. n  BY <1>3
  <2>. HIDE DEF n
  <2>2. \A k \in 1 .. n : Kept(s, I)[k] \in Elements(Kept(s, I))
    BY <2>1 DEF Elements
  <2>3. Kept(s, I) = [k \in 1 .. n |-> Kept(s, I)[k]]
    BY <1>3
  <2>4. [k \in 1 .. n |-> Kept(s, I)[k]] \in Seq(Elements(Kept(s, I)))
    BY <1>2, <2>2, IsASeq
  <2>. QED  BY <2>3, <2>4 DEF IsList
<1>. QED  BY <1>6, <1>7

\* Merging keeps what was there and brings every id that was not.
LEMMA MergeBoth ==
  ASSUME NEW old, IsList(old), NEW new, IsList(new)
  PROVE  /\ IsList(Merge(old, new))
         /\ Elements(old) \subseteq Elements(Merge(old, new))
         /\ \A i \in DOMAIN new : \E x \in Elements(Merge(old, new)) : x.id = new[i].id
<1>. DEFINE kept == Kept(new, Fresh(new, old))
<1>1. Fresh(new, old) \subseteq DOMAIN new
  BY DEF Fresh
<1>2. IsList(kept) /\ \A i \in Fresh(new, old) : new[i] \in Elements(kept)
  BY <1>1, KeptElements
<1>3. Merge(old, new) = old \o kept
  BY DEF Merge
<1>. HIDE DEF kept
<1>4. IsList(Merge(old, new)) /\ Elements(Merge(old, new)) = Elements(old) \cup Elements(kept)
  BY <1>2, <1>3, ListConcat
<1>5. ASSUME NEW i \in DOMAIN new
      PROVE  \E x \in Elements(Merge(old, new)) : x.id = new[i].id
  <2>1. CASE i \in Fresh(new, old)
    BY <1>2, <1>4, <2>1
  <2>2. CASE i \notin Fresh(new, old)
    <3>1. PICK j \in DOMAIN old : old[j].id = new[i].id
      BY <2>2 DEF Fresh
    <3>2. old[j] \in Elements(old)
      BY DEF Elements
    <3>. QED  BY <1>4, <3>1, <3>2
  <2>. QED  BY <2>1, <2>2
<1>. QED  BY <1>4, <1>5

\* A file of the world at hand is a list of includes and one of workflows.
LEMMA FileLists ==
  ASSUME world \in Worlds, world.files # <<>>
  PROVE  /\ Root \in DOMAIN world.files
         /\ \A f \in DOMAIN world.files : IsList(File(f).includes) /\ IsList(File(f).specs)
BY WorldsAssumption DEF File

LEMMA LoadMainInv ==
  ASSUME LoadInv, LoadMain
  PROVE  LoadInv'
<1>1. /\ world \in Worlds /\ world.files # <<>> /\ world' = world
      /\ IsList(File(Root).includes) /\ IsList(File(Root).specs) /\ Root \in DOMAIN world.files
  BY FileLists DEF LoadInv, LoadMain, Fails
<1>2. CASE Readable(File(Root))
  <2>1. /\ stage = "load" /\ stage' = "load" /\ seen' = {Root}
        /\ specs' = File(Root).specs /\ stack' = <<File(Root).includes>>
    BY <1>2 DEF LoadMain
  <2>2. \A f : File(f)' = File(f)
    BY <1>1 DEF File
  <2>3. Collected(Root)'
    BY <2>1, <2>2 DEF Collected, Elements
  <2>. DEFINE s == <<File(Root).includes>>
  <2>4. IsList(s) /\ DOMAIN s = {1} /\ s[1] = File(Root).includes /\ s # <<>>
    <3>1. s \in Seq({File(Root).includes})  OBVIOUS
    <3>2. IsList(s)  BY <3>1, ListOf
    <3>3. DOMAIN s = {1} /\ s[1] = File(Root).includes /\ s # <<>>  OBVIOUS
    <3>. QED  BY <3>2, <3>3
  <2>. HIDE DEF s
  <2>5. stack' = s  BY <2>1 DEF s
  <2>6. Awaited' = Elements(File(Root).includes)
    BY <2>4, <2>5 DEF Awaited
  <2>7. Finished' = Finished /\ "load" \notin Finished
    BY DEF Finished
  <2>. QED  BY <1>1, <2>1, <2>2, <2>3, <2>4, <2>5, <2>6, <2>7 DEF LoadInv
<1>3. CASE ~Readable(File(Root))
  <2>1. stage' = "failed"
    BY <1>3 DEF LoadMain, Fails
  <2>. QED  BY <1>1, <2>1 DEF LoadInv, Finished
<1>. QED  BY <1>2, <1>3

LEMMA LoadIncludeInv ==
  ASSUME LoadInv, LoadInclude
  PROVE  LoadInv'
<1>. DEFINE path == Head(Head(stack))
            inc == File(path).includes
            rest == Tail(Head(stack))
<1>1. /\ world \in Worlds /\ world.files # <<>> /\ stage = "load" /\ stack # <<>>
      /\ Head(stack) # <<>> /\ seen # {} /\ world' = world
  BY DEF LoadInv, LoadInclude, Fails
<1>2. /\ Root \in seen /\ seen \subseteq DOMAIN world.files
      /\ IsList(specs) /\ \A f \in seen : Collected(f)
      /\ IsList(stack) /\ \A k \in DOMAIN stack : IsList(stack[k])
      /\ \A f \in seen : Elements(File(f).includes) \subseteq seen \cup Awaited
  BY <1>1 DEF LoadInv
<1>3. CASE stage' \in {"failed", "circular"}
  BY <1>1, <1>3 DEF LoadInv, Finished
<1>4. CASE /\ path \in DOMAIN world.files /\ path \notin seen
           /\ seen' = seen \cup {path}
           /\ specs' = Merge(specs, File(path).specs)
           /\ stack' = <<inc, rest>> \o Tail(stack)
           /\ UNCHANGED <<world, stage>>
  <2>0. \A f : File(f)' = File(f)
    BY <1>1 DEF File
  <2>1. IsList(inc) /\ IsList(File(path).specs)
    BY <1>1, <1>4, FileLists
  <2>2. Head(stack) \in Elements(stack) /\ IsList(Tail(stack))
        /\ Elements(stack) = {Head(stack)} \cup Elements(Tail(stack))
    BY <1>1, <1>2, ListTail
  <2>3. \A q \in Elements(stack) : IsList(q)
    BY <1>2 DEF Elements
  <2>4. IsList(rest) /\ Elements(Head(stack)) = {path} \cup Elements(rest)
    BY <1>1, <2>2, <2>3, ListTail
  <2>5. Awaited = UNION {Elements(q) : q \in Elements(stack)}
    BY DEF Awaited, Elements
  <2>. HIDE DEF inc, rest, path
  <2>6. IsList(<<inc, rest>>) /\ Elements(<<inc, rest>>) = {inc, rest}
    <3>1. <<inc, rest>> \in Seq({inc, rest})  OBVIOUS
    <3>2. DOMAIN <<inc, rest>> = {1, 2}  OBVIOUS
    <3>3. <<inc, rest>>[1] = inc /\ <<inc, rest>>[2] = rest  OBVIOUS
    <3>4. IsList(<<inc, rest>>)  BY <3>1, ListOf
    <3>5. Elements(<<inc, rest>>) = {<<inc, rest>>[k] : k \in {1, 2}}
      BY <3>2 DEF Elements
    <3>. QED  BY <3>3, <3>4, <3>5
  <2>7. IsList(stack') /\ Elements(stack') = {inc, rest} \cup Elements(Tail(stack))
    BY <1>4, <2>2, <2>6, ListConcat
  <2>8. stack' # <<>>
    BY <2>7 DEF Elements
  <2>9. \A q \in Elements(stack') : IsList(q)
    BY <2>1, <2>2, <2>3, <2>4, <2>7
  <2>10. Awaited' = UNION {Elements(q) : q \in Elements(stack')}
    BY DEF Awaited, Elements
  <2>11. seen \cup Awaited \subseteq seen' \cup Awaited' /\ Elements(inc) \subseteq Awaited'
    <3>1. Elements(inc) \subseteq Awaited' /\ Elements(rest) \subseteq Awaited'
      BY <2>7, <2>10
    <3>2. ASSUME NEW q \in Elements(Tail(stack)) PROVE Elements(q) \subseteq Awaited'
      <4>1. q \in Elements(stack')  BY <2>7, <3>2
      <4>. QED  BY <2>10, <4>1
    <3>3. Elements(Head(stack)) \subseteq seen' \cup Awaited'
      BY <1>4, <2>4, <3>1
    <3>4. ASSUME NEW q \in Elements(stack) PROVE Elements(q) \subseteq seen' \cup Awaited'
      <4>1. CASE q = Head(stack)  BY <3>3, <4>1
      <4>2. CASE q \in Elements(Tail(stack))  BY <3>2, <4>2
      <4>. QED  BY <2>2, <3>4, <4>1, <4>2
    <3>5. Awaited \subseteq seen' \cup Awaited'
      BY <2>5, <3>4
    <3>. QED  BY <1>4, <3>1, <3>5
  <2>12. ASSUME NEW f \in seen'
         PROVE  Elements(File(f).includes) \subseteq seen' \cup Awaited'
    BY <1>2, <1>4, <2>11, <2>12 DEF inc
  <2>13. /\ IsList(specs') /\ Elements(specs) \subseteq Elements(specs')
         /\ \A i \in DOMAIN File(path).specs :
              \E x \in Elements(specs') : x.id = File(path).specs[i].id
    BY <1>2, <1>4, <2>1, MergeBoth
  <2>14. \A x \in Elements(specs') : \E j \in DOMAIN specs' : specs'[j] = x
    BY DEF Elements
  <2>15. ASSUME NEW f \in seen' PROVE Collected(f)'
    <3>1. CASE f \in seen
      <4>1. ASSUME NEW i \in DOMAIN File(f).specs
            PROVE  \E j \in DOMAIN specs' : specs'[j].id = File(f).specs[i].id
        <5>1. PICK j \in DOMAIN specs : specs[j].id = File(f).specs[i].id
          BY <1>2, <3>1 DEF Collected
        <5>2. specs[j] \in Elements(specs')
          BY <2>13 DEF Elements
        <5>. QED  BY <2>14, <5>1, <5>2
      <4>2. ASSUME NEW i \in DOMAIN File(f).specs, f = Root
            PROVE  File(f).specs[i] \in Elements(specs')
        BY <1>2, <2>13, <3>1, <4>2 DEF Collected
      <4>. QED  BY <2>0, <4>1, <4>2 DEF Collected, Elements
    <3>2. CASE f = path /\ f \notin seen
      <4>1. f # Root  BY <1>2, <3>2
      <4>2. \A i \in DOMAIN File(f).specs : \E j \in DOMAIN specs' : specs'[j].id = File(f).specs[i].id
        BY <2>13, <2>14, <3>2
      <4>. QED  BY <2>0, <4>1, <4>2 DEF Collected
    <3>. QED  BY <1>4, <2>15, <3>1, <3>2
  <2>16. \A k \in DOMAIN stack' : IsList(stack'[k])
    BY <2>9 DEF Elements
  <2>17. Root \in seen' /\ seen' \subseteq DOMAIN world'.files /\ seen' # {} /\ stage' = "load"
    BY <1>1, <1>2, <1>4
  <2>18. "load" \notin Finished
    BY DEF Finished
  <2>. QED  BY <1>1, <2>0, <2>7, <2>8, <2>12, <2>13, <2>15, <2>16, <2>17, <2>18 DEF LoadInv
<1>5. \/ stage' \in {"failed", "circular"}
      \/ /\ path \in DOMAIN world.files /\ path \notin seen
         /\ seen' = seen \cup {path}
         /\ specs' = Merge(specs, File(path).specs)
         /\ stack' = <<inc, rest>> \o Tail(stack)
         /\ UNCHANGED <<world, stage>>
  BY DEF LoadInclude, Fails
<1>. QED  BY <1>3, <1>4, <1>5

LEMMA LeaveFileInv ==
  ASSUME LoadInv, LeaveFile
  PROVE  LoadInv'
<1>1. /\ world \in Worlds /\ world.files # <<>> /\ stage = "load" /\ stack # <<>>
      /\ Head(stack) = <<>> /\ seen # {} /\ world' = world /\ stack' = Tail(stack)
      /\ seen' = seen /\ specs' = specs
      /\ stage' = IF Tail(stack) = <<>> THEN "loaded" ELSE "load"
  BY DEF LoadInv, LeaveFile
<1>2. /\ Root \in seen /\ seen \subseteq DOMAIN world.files
      /\ IsList(specs) /\ \A f \in seen : Collected(f)
      /\ IsList(stack) /\ \A k \in DOMAIN stack : IsList(stack[k])
      /\ \A f \in seen : Elements(File(f).includes) \subseteq seen \cup Awaited
  BY <1>1 DEF LoadInv
<1>3. \A f : File(f)' = File(f) /\ Collected(f)' = Collected(f)
  BY <1>1 DEF File, Collected, Elements
<1>4. IsList(Tail(stack)) /\ Elements(stack) = {Head(stack)} \cup Elements(Tail(stack))
  BY <1>1, <1>2, ListTail
<1>5. Awaited = UNION {Elements(q) : q \in Elements(stack)}
      /\ Awaited' = UNION {Elements(q) : q \in Elements(stack')}
  BY DEF Awaited, Elements
<1>6. Awaited' = Awaited
  <2>1. Elements(<<>>) = {}  BY DEF Elements
  <2>. QED  BY <1>1, <1>4, <1>5, <2>1
<1>7. \A k \in DOMAIN stack' : IsList(stack'[k])
  <2>1. \A q \in Elements(stack) : IsList(q)  BY <1>2 DEF Elements
  <2>2. \A k \in DOMAIN stack' : stack'[k] \in Elements(Tail(stack))
    BY <1>1 DEF Elements
  <2>. QED  BY <1>4, <2>1, <2>2
<1>8. CASE Tail(stack) # <<>>
  <2>1. stage' = "load" /\ "load" \notin Finished  BY <1>1, <1>8 DEF Finished
  <2>2. seen' # {} /\ IsList(stack') /\ stack' # <<>>
    BY <1>1, <1>4, <1>8
  <2>. QED  BY <1>1, <1>2, <1>3, <1>6, <1>7, <2>1, <2>2 DEF LoadInv
<1>9. CASE Tail(stack) = <<>>
  <2>1. stage' = "loaded" /\ "loaded" \in Finished  BY <1>1, <1>9 DEF Finished
  <2>2. Awaited = {}
    <3>1. Elements(<<>>) = {}  BY DEF Elements
    <3>2. Elements(stack') = {}  BY <1>1, <1>9, <3>1
    <3>. QED  BY <1>5, <1>6, <3>2
  <2>3. Includes(seen) = seen
    BY <1>2, <2>2 DEF Includes
  <2>4. Includes(seen)' = seen'
    BY <1>1, <1>3, <2>3 DEF Includes
  <2>. QED  BY <1>1, <1>2, <1>3, <2>1, <2>4 DEF LoadInv
<1>. QED  BY <1>8, <1>9

LEMMA AfterwardsInv ==
  ASSUME LoadInv, Afterwards \/ UNCHANGED loader
  PROVE  LoadInv'
<1>1. world' = world /\ stack' = stack /\ seen' = seen /\ specs' = specs
  BY DEF Afterwards, loader
<1>2. \/ stage' = stage
      \/ stage \in Finished /\ stage' \in Finished \cup {"failed"}
      \/ stage = "build" /\ stage' = "started"
  BY DEF Afterwards, loader
<1>3. /\ \A f : File(f)' = File(f) /\ Collected(f)' = Collected(f)
      /\ Awaited' = Awaited /\ Includes(seen)' = Includes(seen)
  BY <1>1 DEF File, Collected, Elements, Awaited, Includes
<1>4. {"load", "build", "failed"} \cap Finished = {} /\ "started" \in Finished
  BY DEF Finished
<1>. QED  BY <1>1, <1>2, <1>3, <1>4 DEF LoadInv

\* Whatever files include one another, and in whatever order they are listed:
\* when loading ends without an error every file that the root file includes,
\* directly or not, was read, nothing of it is missing from what is compiled,
\* and no include replaced a workflow of the root file.
THEOREM LoadingIsComplete == LoaderSpec => []FilesComplete
<1>1. LoaderInit => LoadInv
  <2>1. {"load", "build"} \cap Finished = {}
    BY DEF Finished
  <2>. QED  BY <2>1 DEF LoaderInit, LoadInv
<1>2. LoadInv /\ [LoaderStep \/ Afterwards]_loader => LoadInv'
  BY LoadMainInv, LoadIncludeInv, LeaveFileInv, AfterwardsInv DEF LoaderStep
<1>3. LoadInv => FilesComplete
  BY DEF LoadInv, FilesComplete, Collected
<1>. QED  BY <1>1, <1>2, <1>3, PTL DEF LoaderSpec

-----------------------------------------------------------------------------
(* Registry.                                                               *)

Points == {"start", "looking", "checking", "accepted", "pass", "child", "last step",
           "writing steps", "writing definitions", "next", "starting", "done"}
Request == [task : Tasks, mode : Modes]
Guards == [Locks -> [Modes -> [Tasks -> 0..2]]]

Pending(t, l, m) == \E i \in DOMAIN waiters[l] : waiters[l][i].task = t /\ waiters[l][i].mode = m

\* The guard that a task asked for last when it is at point p, and the guards it
\* has there when nothing is pending.
AsksFor(p, l, m) ==
  \/ l = "definitions" /\ m = "read" /\ p \in {"looking", "child", "starting"}
  \/ l = "steps" /\ m = "read" /\ p \in {"checking", "pass"}
  \/ l = "definitions" /\ m = "write" /\ p = "writing definitions"
  \/ l = "steps" /\ m = "write" /\ p = "writing steps"
Holds(p, l, m) ==
  IF l = "definitions" /\ m = "read" /\ p = "child" THEN 2
  ELSE IF AsksFor(p, l, m)
          \/ (l = "definitions" /\ m = "read" /\ p \in {"checking", "accepted", "pass", "last step"})
          \/ (l = "steps" /\ m = "read" /\ p \in {"child", "last step"})
       THEN 1 ELSE 0

\* Between these points a task gets one guard more, of mode m on lock l.
OneMore(from, to, l, m) ==
  /\ Holds(to, l, m) = Holds(from, l, m) + 1
  /\ \A k \in Locks, n \in Modes : k # l \/ n # m => Holds(to, k, n) = Holds(from, k, n)

\* The locks as a task sees them: it has the guards of its point, all but the one
\* it is waiting for, and it waits for one at a time.
GuardsInv ==
  /\ definitions \subseteq Registrars /\ factories \subseteq Registrars /\ work \in Registrars
  /\ pc \in [Tasks -> Points] /\ guards \in Guards /\ waiters \in [Locks -> Seq(Request)]
  /\ \A t \in Tasks, l \in Locks, m \in Modes :
       /\ Pending(t, l, m) => AsksFor(pc[t], l, m)
       /\ guards[l][m][t] = Holds(pc[t], l, m) - (IF Pending(t, l, m) THEN 1 ELSE 0)
  /\ \A l \in Locks : \A i, j \in DOMAIN waiters[l] : waiters[l][i].task = waiters[l][j].task => i = j

\* A write guard is the only guard of its lock.
Exclusion ==
  \A l \in Locks : \A t \in Tasks : guards[l]["write"][t] > 0 =>
    \A u \in Tasks : guards[l]["read"][u] = 0 /\ (u # t => guards[l]["write"][u] = 0)

LEMMA WaitingPending ==
  ASSUME GuardsInv, NEW t \in Tasks
  PROVE  Waiting(t) <=> \E l \in Locks, m \in Modes : Pending(t, l, m)
<1>1. ASSUME NEW l \in Locks, NEW i \in DOMAIN waiters[l], waiters[l][i].task = t
      PROVE  \E m \in Modes : Pending(t, l, m)
  <2>1. waiters[l] \in Seq(Request)
    BY DEF GuardsInv
  <2>2. waiters[l][i] \in Request
    BY <2>1
  <2>. QED  BY <1>1, <2>2 DEF Pending, Request
<1>. QED  BY <1>1 DEF Waiting, Pending

LEMMA HoldsType ==
  ASSUME NEW p, NEW l, NEW m
  PROVE  Holds(p, l, m) \in 0..2 /\ (AsksFor(p, l, m) => Holds(p, l, m) > 0)
<1>1. Holds(p, l, m) \in {0, 1, 2}
  BY DEF Holds
<1>2. ASSUME AsksFor(p, l, m)  PROVE Holds(p, l, m) \in {1, 2}
  BY <1>2 DEF Holds
<1>. QED  BY <1>1, <1>2

\* One guard changes.
LEMMA GuardChanged ==
  ASSUME guards \in Guards, NEW l \in Locks, NEW m \in Modes, NEW t \in Tasks, NEW x \in 0..2,
         guards' = [guards EXCEPT ![l][m][t] = x]
  PROVE  /\ guards' \in Guards
         /\ guards'[l][m][t] = x
         /\ \A k \in Locks, n \in Modes, u \in Tasks : k # l \/ n # m \/ u # t => guards'[k][n][u] = guards[k][n][u]
BY DEF Guards

\* The consumer's guards end.
LEMMA GuardsEnded ==
  ASSUME guards \in Guards, guards' = IterationOver
  PROVE  /\ guards' \in Guards
         /\ \A l \in Locks : guards'[l]["read"][Consumer] = 0 /\ guards'[l]["write"] = guards[l]["write"]
         /\ \A l \in Locks, t \in Tasks \ {Consumer} : guards'[l]["read"][t] = guards[l]["read"][t]
<1>1. Consumer \in Tasks /\ "read" \in Modes /\ "write" \in Modes /\ 0 \in 0..2
  BY DEF Tasks, Modes
<1>2. ASSUME NEW l \in Locks
      PROVE  /\ guards'[l] \in [Modes -> [Tasks -> 0..2]]
             /\ guards'[l]["read"][Consumer] = 0 /\ guards'[l]["write"] = guards[l]["write"]
             /\ \A t \in Tasks \ {Consumer} : guards'[l]["read"][t] = guards[l]["read"][t]
  <2>1. guards[l] \in [Modes -> [Tasks -> 0..2]]
    BY DEF Guards
  <2>2. guards'[l] = [guards[l] EXCEPT !["read"] = [guards[l]["read"] EXCEPT ![Consumer] = 0]]
    BY DEF IterationOver
  <2>3. [guards[l]["read"] EXCEPT ![Consumer] = 0] \in [Tasks -> 0..2]
    BY <1>1, <2>1
  <2>. QED  BY <1>1, <2>1, <2>2, <2>3
<1>3. DOMAIN guards' = Locks /\ guards' = [l \in Locks |-> guards'[l]]
  BY DEF IterationOver
<1>. QED  BY <1>2, <1>3 DEF Guards

\* A request comes in.
LEMMA RequestAdded ==
  ASSUME waiters \in [Locks -> Seq(Request)], NEW t \in Tasks, NEW l \in Locks, NEW m \in Modes, Asked(t, l, m)
  PROVE  /\ waiters' \in [Locks -> Seq(Request)]
         /\ \A k \in Locks \ {l} : waiters'[k] = waiters[k]
         /\ DOMAIN waiters'[l] = 1..Len(waiters[l]) + 1 /\ DOMAIN waiters[l] = 1..Len(waiters[l])
         /\ \A i \in 1..Len(waiters[l]) : waiters'[l][i] = waiters[l][i]
         /\ waiters'[l][Len(waiters[l]) + 1] = [task |-> t, mode |-> m]
<1>. DEFINE x == [task |-> t, mode |-> m]
<1>1. x \in Request
  BY DEF Request
<1>2. waiters' = [waiters EXCEPT ![l] = Append(waiters[l], x)]
  BY DEF Asked
<1>. HIDE DEF x
<1>3. Append(waiters[l], x) \in Seq(Request) /\ Len(waiters[l]) \in Nat
  BY <1>1
<1>4. waiters' \in [Locks -> Seq(Request)] /\ waiters'[l] = Append(waiters[l], x) /\ \A k \in Locks \ {l} : waiters'[k] = waiters[k]
  BY <1>2, <1>3
<1>5. /\ DOMAIN Append(waiters[l], x) = 1..Len(waiters[l]) + 1 /\ DOMAIN waiters[l] = 1..Len(waiters[l])
      /\ \A i \in 1..Len(waiters[l]) : Append(waiters[l], x)[i] = waiters[l][i]
      /\ Append(waiters[l], x)[Len(waiters[l]) + 1] = x
  BY <1>1, <1>3
<1>. QED  BY <1>4, <1>5 DEF x

\* The first request is served.
LEMMA RequestServed ==
  ASSUME waiters \in [Locks -> Seq(Request)], NEW l \in Locks, waiters[l] # <<>>, waiters' = [waiters EXCEPT ![l] = Tail(@)]
  PROVE  /\ waiters' \in [Locks -> Seq(Request)]
         /\ \A k \in Locks \ {l} : waiters'[k] = waiters[k]
         /\ Head(waiters[l]) = waiters[l][1] /\ Head(waiters[l]) \in Request
         /\ DOMAIN waiters[l] = 1..Len(waiters[l]) /\ Len(waiters[l]) \in Nat \ {0}
         /\ DOMAIN waiters'[l] = 1..Len(waiters[l]) - 1
         /\ \A i \in 1..Len(waiters[l]) - 1 : waiters'[l][i] = waiters[l][i + 1]
<1>1. waiters[l] \in Seq(Request) /\ Tail(waiters[l]) \in Seq(Request) /\ Len(waiters[l]) \in Nat \ {0}
  OBVIOUS
<1>2. waiters'[l] = Tail(waiters[l]) /\ waiters' \in [Locks -> Seq(Request)] /\ \A k \in Locks \ {l} : waiters'[k] = waiters[k]
  BY <1>1
<1>3. /\ Head(waiters[l]) = waiters[l][1] /\ Head(waiters[l]) \in Request
      /\ DOMAIN waiters[l] = 1..Len(waiters[l])
      /\ DOMAIN Tail(waiters[l]) = 1..Len(waiters[l]) - 1
      /\ \A i \in 1..Len(waiters[l]) - 1 : Tail(waiters[l])[i] = waiters[l][i + 1]
  BY <1>1
<1>. QED  BY <1>1, <1>2, <1>3

-----------------------------------------------------------------------------
(* The locks.                                                              *)

\* Task t, which waits for nothing, asks for a guard and goes on to the point
\* where it has it.
LEMMA GuardsAsk ==
  ASSUME GuardsInv, NEW t \in Tasks, NEW from, NEW to \in Points, Goes(t, from, to),
         NEW l \in Locks, NEW m \in Modes, Asked(t, l, m), guards' = guards,
         definitions' \subseteq Registrars, factories' \subseteq Registrars, work' \in Registrars,
         AsksFor(to, l, m), OneMore(from, to, l, m)
  PROVE  GuardsInv'
<1>0. pc \in [Tasks -> Points] /\ guards \in Guards /\ waiters \in [Locks -> Seq(Request)] /\ Len(waiters[l]) \in Nat
  BY DEF GuardsInv
<1>1. /\ pc[t] = from /\ pc' \in [Tasks -> Points] /\ pc'[t] = to /\ \A u \in Tasks \ {t} : pc'[u] = pc[u]
  BY <1>0 DEF Goes
<1>2. \A k \in Locks, n \in Modes : ~Pending(t, k, n)
  BY WaitingPending DEF Goes
<1>3. /\ waiters' \in [Locks -> Seq(Request)]
      /\ \A k \in Locks \ {l} : waiters'[k] = waiters[k]
      /\ DOMAIN waiters'[l] = 1..Len(waiters[l]) + 1 /\ DOMAIN waiters[l] = 1..Len(waiters[l])
      /\ \A i \in 1..Len(waiters[l]) : waiters'[l][i] = waiters[l][i]
      /\ waiters'[l][Len(waiters[l]) + 1] = [task |-> t, mode |-> m]
  BY <1>0, RequestAdded
<1>4. waiters'[l][Len(waiters[l]) + 1].task = t /\ waiters'[l][Len(waiters[l]) + 1].mode = m
  BY <1>3
<1>5. ASSUME NEW u \in Tasks, NEW k \in Locks, NEW n \in Modes
      PROVE  Pending(u, k, n)' <=> Pending(u, k, n) \/ (u = t /\ k = l /\ n = m)
  <2>1. CASE k # l
    BY <1>3, <2>1 DEF Pending
  <2>2. CASE k = l
    <3>1. DOMAIN waiters'[l] = DOMAIN waiters[l] \cup {Len(waiters[l]) + 1}
      BY <1>0, <1>3
    <3>2. Pending(u, l, n)' <=> \E i \in DOMAIN waiters[l] \cup {Len(waiters[l]) + 1} : waiters'[l][i].task = u /\ waiters'[l][i].mode = n
      BY <3>1 DEF Pending
    <3>3. \A i \in DOMAIN waiters[l] : waiters'[l][i] = waiters[l][i]
      BY <1>3
    <3>. QED  BY <1>4, <2>2, <3>2, <3>3 DEF Pending
  <2>. QED  BY <2>1, <2>2
<1>6. ASSUME NEW u \in Tasks, NEW k \in Locks, NEW n \in Modes
      PROVE  /\ Pending(u, k, n)' => AsksFor(pc'[u], k, n)
             /\ guards'[k][n][u] = Holds(pc'[u], k, n) - (IF Pending(u, k, n)' THEN 1 ELSE 0)
  <2>1. /\ Pending(u, k, n) => AsksFor(pc[u], k, n)
        /\ guards[k][n][u] = Holds(pc[u], k, n) - (IF Pending(u, k, n) THEN 1 ELSE 0)
    BY DEF GuardsInv
  <2>2. CASE u # t
    BY <1>1, <1>5, <2>1, <2>2
  <2>3. CASE u = t /\ (k # l \/ n # m)
    BY <1>1, <1>2, <1>5, <2>1, <2>3 DEF OneMore
  <2>4. CASE u = t /\ k = l /\ n = m
    <3>1. Holds(from, l, m) \in 0..2
      BY HoldsType
    <3>. QED  BY <1>1, <1>2, <1>5, <2>1, <2>4, <3>1 DEF OneMore
  <2>. QED  BY <2>2, <2>3, <2>4
<1>7. ASSUME NEW k \in Locks, NEW i \in DOMAIN waiters'[k], NEW j \in DOMAIN waiters'[k], waiters'[k][i].task = waiters'[k][j].task
      PROVE  i = j
  <2>1. CASE k # l
    BY <1>3, <1>7, <2>1 DEF GuardsInv
  <2>2. CASE k = l
    <3>1. \A x \in DOMAIN waiters[l] : waiters[l][x].task # t
      BY DEF Goes, Waiting
    <3>2. i \in DOMAIN waiters[l] \/ i = Len(waiters[l]) + 1
      BY <1>0, <1>3, <2>2
    <3>3. j \in DOMAIN waiters[l] \/ j = Len(waiters[l]) + 1
      BY <1>0, <1>3, <2>2
    <3>4. CASE i \in DOMAIN waiters[l] /\ j \in DOMAIN waiters[l]
      <4>1. waiters'[k][i] = waiters[l][i] /\ waiters'[k][j] = waiters[l][j]
        BY <1>3, <1>4, <2>2, <3>4
      <4>. QED  BY <1>7, <3>4, <4>1 DEF GuardsInv
    <3>5. CASE i = Len(waiters[l]) + 1 \/ j = Len(waiters[l]) + 1
      BY <1>3, <1>4, <1>7, <2>2, <3>1, <3>2, <3>3, <3>5
    <3>. QED  BY <3>2, <3>3, <3>4, <3>5
  <2>. QED  BY <2>1, <2>2
<1>. QED  BY <1>0, <1>1, <1>3, <1>6, <1>7 DEF GuardsInv

\* Task t, which waits for nothing, drops the guards that it does not have at its
\* next point.
LEMMA GuardsDrop ==
  ASSUME GuardsInv, NEW t \in Tasks, NEW from, NEW to \in Points, Goes(t, from, to), waiters' = waiters,
         definitions' \subseteq Registrars, factories' \subseteq Registrars, work' \in Registrars,
         guards' \in Guards,
         \A k \in Locks, n \in Modes : guards'[k][n][t] = Holds(to, k, n),
         \A u \in Tasks \ {t}, k \in Locks, n \in Modes : guards'[k][n][u] = guards[k][n][u]
  PROVE  GuardsInv'
<1>0. pc \in [Tasks -> Points]
  BY DEF GuardsInv
<1>1. pc' \in [Tasks -> Points] /\ pc'[t] = to /\ \A u \in Tasks \ {t} : pc'[u] = pc[u]
  BY <1>0 DEF Goes
<1>2. \A k \in Locks, n \in Modes : ~Pending(t, k, n)
  BY WaitingPending DEF Goes
<1>3. \A u \in Tasks, k \in Locks, n \in Modes : Pending(u, k, n)' <=> Pending(u, k, n)
  BY DEF Pending
<1>4. ASSUME NEW u \in Tasks, NEW k \in Locks, NEW n \in Modes
      PROVE  /\ Pending(u, k, n)' => AsksFor(pc'[u], k, n)
             /\ guards'[k][n][u] = Holds(pc'[u], k, n) - (IF Pending(u, k, n)' THEN 1 ELSE 0)
  <2>1. CASE u = t
    <3>1. Holds(to, k, n) \in 0..2
      BY HoldsType
    <3>. QED  BY <1>1, <1>2, <1>3, <2>1, <3>1
  <2>2. CASE u # t
    BY <1>1, <1>3, <2>2 DEF GuardsInv
  <2>. QED  BY <2>1, <2>2
<1>. QED  BY <1>1, <1>4 DEF GuardsInv

LEMMA GuardsGrant ==
  ASSUME GuardsInv, NEW l \in Locks, Grant(l)
  PROVE  /\ GuardsInv'
         /\ \E t \in Tasks, m \in Modes :
              /\ guards'[l][m][t] = guards[l][m][t] + 1
              /\ ~Held(l, "write") /\ (m = "write" => ~Held(l, "read"))
              /\ \A k \in Locks, n \in Modes, u \in Tasks : k # l \/ n # m \/ u # t => guards'[k][n][u] = guards[k][n][u]
<1>. DEFINE w == Head(waiters[l])
            t == w.task
            m == w.mode
<1>0. pc \in [Tasks -> Points] /\ guards \in Guards /\ waiters \in [Locks -> Seq(Request)]
  BY DEF GuardsInv
<1>1. /\ waiters' \in [Locks -> Seq(Request)]
      /\ \A k \in Locks \ {l} : waiters'[k] = waiters[k]
      /\ w = waiters[l][1] /\ w \in Request
      /\ DOMAIN waiters[l] = 1..Len(waiters[l]) /\ Len(waiters[l]) \in Nat \ {0}
      /\ DOMAIN waiters'[l] = 1..Len(waiters[l]) - 1
      /\ \A i \in 1..Len(waiters[l]) - 1 : waiters'[l][i] = waiters[l][i + 1]
  BY <1>0, RequestServed DEF Grant
<1>2. t \in Tasks /\ m \in Modes
  BY <1>1 DEF Request
<1>3. guards' = [guards EXCEPT ![l][m][t] = guards[l][m][t] + 1]
  BY DEF Grant
<1>4. ~Held(l, "write") /\ (m = "write" => ~Held(l, "read")) /\ UNCHANGED <<definitions, factories, pc, work>>
  BY DEF Grant
<1>. HIDE DEF w, t, m
<1>5. 1 \in DOMAIN waiters[l] /\ waiters[l][1].task = t /\ waiters[l][1].mode = m
  BY <1>1 DEF t, m
<1>6. Pending(t, l, m)
  BY <1>5 DEF Pending
<1>7. guards[l][m][t] = Holds(pc[t], l, m) - 1 /\ Holds(pc[t], l, m) \in 0..2 /\ Holds(pc[t], l, m) > 0
  <2>1. AsksFor(pc[t], l, m) /\ guards[l][m][t] = Holds(pc[t], l, m) - 1
    BY <1>2, <1>6 DEF GuardsInv
  <2>. QED  BY <2>1, HoldsType
<1>8. guards[l][m][t] + 1 \in 0..2
  BY <1>7
<1>9. /\ guards' \in Guards
      /\ guards'[l][m][t] = guards[l][m][t] + 1
      /\ \A k \in Locks, n \in Modes, u \in Tasks : k # l \/ n # m \/ u # t => guards'[k][n][u] = guards[k][n][u]
  <2>. DEFINE x == guards[l][m][t] + 1
  <2>1. x \in 0..2 /\ guards' = [guards EXCEPT ![l][m][t] = x]
    BY <1>3, <1>8
  <2>. HIDE DEF x
  <2>2. /\ guards' \in Guards /\ guards'[l][m][t] = x
        /\ \A k \in Locks, n \in Modes, u \in Tasks : k # l \/ n # m \/ u # t => guards'[k][n][u] = guards[k][n][u]
    BY <1>0, <1>2, <2>1 DEF Guards
  <2>. QED  BY <2>2 DEF x
<1>10. \A i \in DOMAIN waiters[l] : waiters[l][i].task = t => i = 1
  BY <1>5 DEF GuardsInv
<1>11. ASSUME NEW u \in Tasks, NEW k \in Locks, NEW n \in Modes
       PROVE  Pending(u, k, n)' <=> Pending(u, k, n) /\ ~(u = t /\ k = l /\ n = m)
  <2>1. CASE k # l
    BY <1>1, <2>1 DEF Pending
  <2>2. ASSUME k = l, Pending(u, l, n)'  PROVE Pending(u, l, n) /\ u # t
    <3>1. PICK i \in DOMAIN waiters'[l] : waiters'[l][i].task = u /\ waiters'[l][i].mode = n
      BY <2>2 DEF Pending
    <3>2. i + 1 \in DOMAIN waiters[l] /\ i + 1 # 1 /\ waiters[l][i + 1] = waiters'[l][i]
      BY <1>1
    <3>. QED  BY <1>10, <3>1, <3>2 DEF Pending
  <2>3. ASSUME k = l, Pending(u, l, n), ~(u = t /\ n = m)  PROVE Pending(u, l, n)'
    <3>1. PICK i \in DOMAIN waiters[l] : waiters[l][i].task = u /\ waiters[l][i].mode = n
      BY <2>3 DEF Pending
    <3>2. i # 1
      BY <1>5, <2>3, <3>1
    <3>3. i - 1 \in DOMAIN waiters'[l] /\ waiters'[l][i - 1] = waiters[l][(i - 1) + 1] /\ (i - 1) + 1 = i
      BY <1>1, <3>2
    <3>. QED  BY <3>1, <3>3 DEF Pending
  <2>. QED  BY <2>1, <2>2, <2>3
<1>12. ASSUME NEW u \in Tasks, NEW k \in Locks, NEW n \in Modes
       PROVE  /\ Pending(u, k, n)' => AsksFor(pc'[u], k, n)
              /\ guards'[k][n][u] = Holds(pc'[u], k, n) - (IF Pending(u, k, n)' THEN 1 ELSE 0)
  <2>1. /\ Pending(u, k, n) => AsksFor(pc[u], k, n)
        /\ guards[k][n][u] = Holds(pc[u], k, n) - (IF Pending(u, k, n) THEN 1 ELSE 0)
    BY DEF GuardsInv
  <2>2. CASE u = t /\ k = l /\ n = m
    BY <1>4, <1>7, <1>9, <1>11, <2>2
  <2>3. CASE ~(u = t /\ k = l /\ n = m)
    BY <1>4, <1>9, <1>11, <2>1, <2>3
  <2>. QED  BY <2>2, <2>3
<1>13. ASSUME NEW k \in Locks, NEW i \in DOMAIN waiters'[k], NEW j \in DOMAIN waiters'[k], waiters'[k][i].task = waiters'[k][j].task
       PROVE  i = j
  <2>1. CASE k # l
    BY <1>1, <1>13, <2>1 DEF GuardsInv
  <2>2. CASE k = l
    <3>1. i + 1 \in DOMAIN waiters[l] /\ j + 1 \in DOMAIN waiters[l] /\ i \in Nat /\ j \in Nat
      BY <1>1, <2>2
    <3>2. waiters[l][i + 1].task = waiters[l][j + 1].task
      BY <1>1, <1>13, <2>2
    <3>3. i + 1 = j + 1
      BY <3>1, <3>2 DEF GuardsInv
    <3>. QED  BY <3>1, <3>3
  <2>. QED  BY <2>1, <2>2
<1>14. GuardsInv'
  BY <1>0, <1>1, <1>4, <1>9, <1>12, <1>13 DEF GuardsInv
<1>. QED  BY <1>2, <1>4, <1>9, <1>14

\* Task t, which waits for nothing, has the guards of its point.
LEMMA HasGuards ==
  ASSUME GuardsInv, NEW t \in Tasks, NEW from, NEW to, Goes(t, from, to)
  PROVE  \A k \in Locks, n \in Modes : guards[k][n][t] = Holds(from, k, n)
<1> SUFFICES ASSUME NEW k \in Locks, NEW n \in Modes  PROVE guards[k][n][t] = Holds(from, k, n)
  OBVIOUS
<1>1. pc[t] = from /\ ~Pending(t, k, n)
  BY WaitingPending DEF Goes
<1>2. guards[k][n][t] = Holds(pc[t], k, n) - (IF Pending(t, k, n) THEN 1 ELSE 0)
  BY DEF GuardsInv
<1>3. Holds(from, k, n) \in 0..2
  BY HoldsType
<1>. QED  BY <1>1, <1>2, <1>3

\* Fewer guards exclude fewer.
LEMMA ExclusionLess ==
  ASSUME Exclusion, guards \in Guards, guards' \in Guards,
         \A k \in Locks, n \in Modes, u \in Tasks : guards'[k][n][u] <= guards[k][n][u]
  PROVE  Exclusion'
<1> SUFFICES ASSUME NEW l \in Locks, NEW t \in Tasks, guards'[l]["write"][t] > 0, NEW u \in Tasks
             PROVE  guards'[l]["read"][u] = 0 /\ (u # t => guards'[l]["write"][u] = 0)
  BY DEF Exclusion
<1>1. "read" \in Modes /\ "write" \in Modes
  BY DEF Modes
<1>2. \A n \in Modes, v \in Tasks : guards[l][n][v] \in 0..2 /\ guards'[l][n][v] \in 0..2
  BY DEF Guards
<1>3. guards[l]["write"][t] > 0
  BY <1>1, <1>2
<1>4. guards[l]["read"][u] = 0 /\ (u # t => guards[l]["write"][u] = 0)
  BY <1>3 DEF Exclusion
<1>. QED  BY <1>1, <1>2, <1>4

\* Task t drops one guard.
LEMMA OneDropped ==
  ASSUME GuardsInv, Exclusion, NEW t \in Tasks, NEW from, NEW to \in Points, Goes(t, from, to), waiters' = waiters,
         definitions' \subseteq Registrars, factories' \subseteq Registrars, work' \in Registrars,
         NEW l \in Locks, NEW m \in Modes, guards' = Dropped(guards, t, l, m),
         OneMore(to, from, l, m)
  PROVE  GuardsInv' /\ Exclusion'
<1>. DEFINE x == guards[l][m][t] - 1
<1>0. guards \in Guards
  BY DEF GuardsInv
<1>1. \A k \in Locks, n \in Modes : guards[k][n][t] = Holds(from, k, n)
  BY HasGuards
<1>2. x = Holds(to, l, m) /\ x \in 0..2 /\ x <= guards[l][m][t]
  <2>1. Holds(to, l, m) \in 0..2
    BY HoldsType
  <2>. QED  BY <1>1, <2>1 DEF OneMore
<1>3. guards' = [guards EXCEPT ![l][m][t] = x]
  BY DEF Dropped
<1>. HIDE DEF x
<1>4. /\ guards' \in Guards /\ guards'[l][m][t] = x
      /\ \A k \in Locks, n \in Modes, u \in Tasks : k # l \/ n # m \/ u # t => guards'[k][n][u] = guards[k][n][u]
  BY <1>0, <1>2, <1>3 DEF Guards
<1>5. \A k \in Locks, n \in Modes : guards'[k][n][t] = Holds(to, k, n)
  BY <1>1, <1>2, <1>4 DEF OneMore
<1>6. \A u \in Tasks \ {t}, k \in Locks, n \in Modes : guards'[k][n][u] = guards[k][n][u]
  BY <1>4
<1>7. GuardsInv'
  BY <1>4, <1>5, <1>6, GuardsDrop
<1>8. \A k \in Locks, n \in Modes, u \in Tasks : guards'[k][n][u] <= guards[k][n][u]
  <2> SUFFICES ASSUME NEW k \in Locks, NEW n \in Modes, NEW u \in Tasks  PROVE guards'[k][n][u] <= guards[k][n][u]
    OBVIOUS
  <2>1. guards[k][n][u] \in 0..2
    BY <1>0 DEF Guards
  <2>. QED  BY <1>2, <1>4, <2>1
<1>. QED  BY <1>0, <1>4, <1>7, <1>8, ExclusionLess

\* An iteration of the consumer ends.
LEMMA AllDropped ==
  ASSUME GuardsInv, Exclusion, NEW from \in Points, Goes(Consumer, from, "start"), waiters' = waiters,
         definitions' = definitions, factories' = factories, work' = work, guards' = IterationOver,
         \A k \in Locks : Holds(from, k, "write") = 0
  PROVE  GuardsInv' /\ Exclusion'
<1>0. guards \in Guards /\ definitions \subseteq Registrars /\ factories \subseteq Registrars /\ work \in Registrars
  BY DEF GuardsInv
<1>1. Consumer \in Tasks /\ "start" \in Points /\ Modes = {"read", "write"}
  BY DEF Tasks, Points, Modes
<1>2. \A k \in Locks, n \in Modes : guards[k][n][Consumer] = Holds(from, k, n)
  BY <1>1, HasGuards
<1>3. /\ guards' \in Guards
      /\ \A l \in Locks : guards'[l]["read"][Consumer] = 0 /\ guards'[l]["write"] = guards[l]["write"]
      /\ \A l \in Locks, t \in Tasks \ {Consumer} : guards'[l]["read"][t] = guards[l]["read"][t]
  BY <1>0, GuardsEnded
<1>4. \A k \in Locks, n \in Modes : Holds("start", k, n) = 0
  BY DEF Holds, AsksFor
<1>5. \A k \in Locks, n \in Modes : guards'[k][n][Consumer] = Holds("start", k, n)
  BY <1>1, <1>2, <1>3, <1>4
<1>6. \A u \in Tasks \ {Consumer}, k \in Locks, n \in Modes : guards'[k][n][u] = guards[k][n][u]
  BY <1>1, <1>3
<1>7. GuardsInv'
  BY <1>0, <1>1, <1>3, <1>5, <1>6, GuardsDrop
<1>8. \A k \in Locks, n \in Modes, u \in Tasks : guards'[k][n][u] <= guards[k][n][u]
  <2> SUFFICES ASSUME NEW k \in Locks, NEW n \in Modes, NEW u \in Tasks  PROVE guards'[k][n][u] <= guards[k][n][u]
    OBVIOUS
  <2>1. guards[k][n][u] \in 0..2
    BY <1>0 DEF Guards
  <2>. QED  BY <1>4, <1>5, <1>6, <2>1
<1>. QED  BY <1>0, <1>3, <1>7, <1>8, ExclusionLess

\* A grant keeps a writer alone.
LEMMA ExclusionGrant ==
  ASSUME GuardsInv, Exclusion, NEW l \in Locks, Grant(l)
  PROVE  Exclusion'
<1>1. PICK t \in Tasks, m \in Modes :
        /\ guards'[l][m][t] = guards[l][m][t] + 1
        /\ ~Held(l, "write") /\ (m = "write" => ~Held(l, "read"))
        /\ \A k \in Locks, n \in Modes, u \in Tasks : k # l \/ n # m \/ u # t => guards'[k][n][u] = guards[k][n][u]
  BY GuardsGrant
<1>2. "read" \in Modes /\ "write" \in Modes
  BY DEF Modes
<1>3. \A k \in Locks, n \in Modes, u \in Tasks : guards[k][n][u] \in 0..2
  BY DEF GuardsInv, Guards
<1>4. \A u \in Tasks : guards[l]["write"][u] = 0 /\ (m = "write" => guards[l]["read"][u] = 0)
  BY <1>1, <1>2, <1>3 DEF Held
<1> SUFFICES ASSUME NEW k \in Locks, NEW v \in Tasks, guards'[k]["write"][v] > 0, NEW u \in Tasks
             PROVE  guards'[k]["read"][u] = 0 /\ (u # v => guards'[k]["write"][u] = 0)
  BY DEF Exclusion
<1>5. CASE k # l
  BY <1>1, <1>2, <1>5 DEF Exclusion
<1>6. CASE k = l
  <2>1. m = "write" /\ v = t
    BY <1>1, <1>2, <1>4, <1>6
  <2>. QED  BY <1>1, <1>2, <1>4, <1>6, <2>1
<1>. QED  BY <1>5, <1>6

LEMMA GuardsNext ==
  ASSUME GuardsInv, Exclusion, Next
  PROVE  GuardsInv' /\ Exclusion'
<1>0. /\ definitions \subseteq Registrars /\ factories \subseteq Registrars /\ work \in Registrars
  BY DEF GuardsInv
<1>1. /\ Consumer \in Tasks /\ Registrars \subseteq Tasks /\ Starters \subseteq Tasks
      /\ "definitions" \in Locks /\ "steps" \in Locks /\ "read" \in Modes /\ "write" \in Modes
      /\ "start" \in Points /\ "looking" \in Points /\ "checking" \in Points /\ "accepted" \in Points
      /\ "pass" \in Points /\ "child" \in Points /\ "last step" \in Points /\ "writing steps" \in Points
      /\ "writing definitions" \in Points /\ "next" \in Points /\ "starting" \in Points /\ "done" \in Points
  BY DEF Tasks, Locks, Modes, Points
<1>2. ASSUME guards' = guards, GuardsInv'  PROVE Exclusion'
  BY <1>2 DEF Exclusion
<1>3. CASE ConsumerLook
  <2>1. OneMore("start", "looking", "definitions", "read") /\ AsksFor("looking", "definitions", "read")
    BY DEF OneMore, Holds, AsksFor, Locks, Modes
  <2>2. GuardsInv'
    BY <1>0, <1>1, <1>3, <2>1, GuardsAsk DEF ConsumerLook
  <2>. QED  BY <1>2, <1>3, <2>2 DEF ConsumerLook
<1>4. CASE ConsumerMissing
  <2>1. \A k \in Locks : Holds("looking", k, "write") = 0
    BY DEF Holds, AsksFor, Locks, Modes
  <2>. QED  BY <1>1, <1>4, <2>1, AllDropped DEF ConsumerMissing
<1>5. CASE ConsumerFound
  <2>1. OneMore("looking", "checking", "steps", "read") /\ AsksFor("checking", "steps", "read")
    BY DEF OneMore, Holds, AsksFor, Locks, Modes
  <2>2. GuardsInv'
    BY <1>0, <1>1, <1>5, <2>1, GuardsAsk DEF ConsumerFound
  <2>. QED  BY <1>2, <1>5, <2>2 DEF ConsumerFound
<1>6. CASE ConsumerBounce
  <2>1. \A k \in Locks : Holds("checking", k, "write") = 0
    BY DEF Holds, AsksFor, Locks, Modes
  <2>. QED  BY <1>1, <1>6, <2>1, AllDropped DEF ConsumerBounce
<1>7. CASE ConsumerAccept
  <2>1. OneMore("accepted", "checking", "steps", "read")
    BY DEF OneMore, Holds, AsksFor, Locks, Modes
  <2>. QED  BY <1>0, <1>1, <1>7, <2>1, OneDropped DEF ConsumerAccept
<1>8. CASE ConsumerExecute
  <2>1. OneMore("accepted", "pass", "steps", "read") /\ AsksFor("pass", "steps", "read")
    BY DEF OneMore, Holds, AsksFor, Locks, Modes
  <2>2. GuardsInv'
    BY <1>0, <1>1, <1>8, <2>1, GuardsAsk DEF ConsumerExecute
  <2>. QED  BY <1>2, <1>8, <2>2 DEF ConsumerExecute
<1>9. CASE StartChild
  <2>1. OneMore("pass", "child", "definitions", "read") /\ AsksFor("child", "definitions", "read")
    BY DEF OneMore, Holds, AsksFor, Locks, Modes
  <2>2. GuardsInv'
    BY <1>0, <1>1, <1>9, <2>1, GuardsAsk DEF StartChild
  <2>. QED  BY <1>2, <1>9, <2>2 DEF StartChild
<1>10. CASE ChildStarted
  <2>1. OneMore("last step", "child", "definitions", "read")
    BY DEF OneMore, Holds, AsksFor, Locks, Modes
  <2>. QED  BY <1>0, <1>1, <1>10, <2>1, OneDropped DEF ChildStarted
<1>11. CASE ConsumerEnd
  <2>1. \A k \in Locks : Holds("pass", k, "write") = 0 /\ Holds("last step", k, "write") = 0
    BY DEF Holds, AsksFor, Locks, Modes
  <2>2. CASE Goes(Consumer, "pass", "start")
    BY <1>1, <1>11, <2>1, <2>2, AllDropped DEF ConsumerEnd
  <2>3. CASE Goes(Consumer, "last step", "start")
    BY <1>1, <1>11, <2>1, <2>3, AllDropped DEF ConsumerEnd
  <2>. QED  BY <1>11, <2>2, <2>3 DEF ConsumerEnd
<1>12. ASSUME NEW l \in Locks, Grant(l)  PROVE GuardsInv' /\ Exclusion'
  BY <1>12, GuardsGrant, ExclusionGrant
<1>13. ASSUME NEW r \in Registrars, NEW from \in {"start", "next"}, AskSteps(r, from)  PROVE GuardsInv' /\ Exclusion'
  <2>0. OneMore("start", "writing steps", "steps", "write") /\ OneMore("next", "writing steps", "steps", "write") /\ AsksFor("writing steps", "steps", "write")
    BY DEF OneMore, Holds, AsksFor, Locks, Modes
  <2>1. OneMore(from, "writing steps", "steps", "write") /\ AsksFor("writing steps", "steps", "write")
    BY <2>0
  <2>2. GuardsInv'
    BY <1>0, <1>1, <1>13, <2>1, GuardsAsk DEF AskSteps
  <2>. QED  BY <1>2, <1>13, <2>2 DEF AskSteps
<1>14. ASSUME NEW r \in Registrars, NEW to \in {"next", "done"}, WriteSteps(r, to)  PROVE GuardsInv' /\ Exclusion'
  <2>0. OneMore("next", "writing steps", "steps", "write") /\ OneMore("done", "writing steps", "steps", "write")
    BY DEF OneMore, Holds, AsksFor, Locks, Modes
  <2>1. OneMore(to, "writing steps", "steps", "write")
    BY <2>0
  <2>2. factories' \subseteq Registrars
    BY <1>0, <1>14 DEF WriteSteps
  <2>. QED  BY <1>0, <1>1, <1>14, <2>1, <2>2, OneDropped DEF WriteSteps
<1>15. ASSUME NEW r \in Registrars, NEW from \in {"start", "next"}, AskDefinitions(r, from)  PROVE GuardsInv' /\ Exclusion'
  <2>0. OneMore("start", "writing definitions", "definitions", "write") /\ OneMore("next", "writing definitions", "definitions", "write") /\ AsksFor("writing definitions", "definitions", "write")
    BY DEF OneMore, Holds, AsksFor, Locks, Modes
  <2>1. OneMore(from, "writing definitions", "definitions", "write") /\ AsksFor("writing definitions", "definitions", "write")
    BY <2>0
  <2>2. GuardsInv'
    BY <1>0, <1>1, <1>15, <2>1, GuardsAsk DEF AskDefinitions
  <2>. QED  BY <1>2, <1>15, <2>2 DEF AskDefinitions
<1>16. ASSUME NEW r \in Registrars, NEW to \in {"next", "done"}, WriteDefinitions(r, to)  PROVE GuardsInv' /\ Exclusion'
  <2>0. OneMore("next", "writing definitions", "definitions", "write") /\ OneMore("done", "writing definitions", "definitions", "write")
    BY DEF OneMore, Holds, AsksFor, Locks, Modes
  <2>1. OneMore(to, "writing definitions", "definitions", "write")
    BY <2>0
  <2>2. definitions' \subseteq Registrars
    BY <1>0, <1>16 DEF WriteDefinitions
  <2>. QED  BY <1>0, <1>1, <1>16, <2>1, <2>2, OneDropped DEF WriteDefinitions
<1>17. ASSUME NEW s \in Starters, AskStart(s)  PROVE GuardsInv' /\ Exclusion'
  <2>1. OneMore("start", "starting", "definitions", "read") /\ AsksFor("starting", "definitions", "read")
    BY DEF OneMore, Holds, AsksFor, Locks, Modes
  <2>2. GuardsInv'
    BY <1>0, <1>1, <1>17, <2>1, GuardsAsk DEF AskStart
  <2>. QED  BY <1>2, <1>17, <2>2 DEF AskStart
<1>18. ASSUME NEW s \in Starters, Started(s)  PROVE GuardsInv' /\ Exclusion'
  <2>1. OneMore("done", "starting", "definitions", "read")
    BY DEF OneMore, Holds, AsksFor, Locks, Modes
  <2>. QED  BY <1>0, <1>1, <1>18, <2>1, OneDropped DEF Started
<1>19. ASSUME NEW r \in Registrars, Registers(r)  PROVE GuardsInv' /\ Exclusion'
  BY <1>13, <1>14, <1>15, <1>16, <1>19 DEF Registers, RegisterYaml, RegisterCoded
<1>20. ASSUME NEW s \in Starters, Starts(s)  PROVE GuardsInv' /\ Exclusion'
  BY <1>17, <1>18, <1>20 DEF Starts
<1>. QED  BY <1>3, <1>4, <1>5, <1>6, <1>7, <1>8, <1>9, <1>10, <1>11, <1>12, <1>19, <1>20 DEF Next, Dequeue, Pass

LEMMA GuardsInit ==
  ASSUME Init
  PROVE  GuardsInv /\ Exclusion
<1>1. \A t \in Tasks, l \in Locks, m \in Modes : guards[l][m][t] = 0 /\ pc[t] = "start" /\ waiters[l] = <<>>
  BY DEF Init
<1>2. \A l \in Locks, m \in Modes : Holds("start", l, m) = 0
  BY DEF Holds, AsksFor
<1>3. \A t \in Tasks, l \in Locks, m \in Modes : ~Pending(t, l, m)
  BY <1>1 DEF Pending
<1>4. pc \in [Tasks -> Points] /\ guards \in Guards /\ waiters \in [Locks -> Seq(Request)]
  BY DEF Init, Points, Guards
<1>5. definitions \subseteq Registrars /\ factories \subseteq Registrars /\ work \in Registrars
  BY DEF Init
<1>6. \A l \in Locks : \A i, j \in DOMAIN waiters[l] : waiters[l][i].task = waiters[l][j].task => i = j
  BY DEF Init
<1>7. \A t \in Tasks, l \in Locks, m \in Modes :
        /\ Pending(t, l, m) => AsksFor(pc[t], l, m)
        /\ guards[l][m][t] = Holds(pc[t], l, m) - (IF Pending(t, l, m) THEN 1 ELSE 0)
  BY <1>1, <1>2, <1>3
<1>8. Exclusion
  BY <1>1 DEF Exclusion, Modes
<1>. QED  BY <1>4, <1>5, <1>6, <1>7, <1>8 DEF GuardsInv

LEMMA GuardsTyped ==
  ASSUME GuardsInv, Exclusion
  PROVE  TypeOK
<1>0. "write" \in Modes /\ "read" \in Modes
  BY DEF Modes
<1>1. \A l \in Locks, m \in Modes, t \in Tasks : guards[l][m][t] \in 0..2
  BY DEF GuardsInv, Guards
<1>2. ASSUME NEW l \in Locks, Held(l, "write")
      PROVE  /\ ~Held(l, "read")
             /\ \E t \in Tasks : guards[l]["write"] = [u \in Tasks |-> IF u = t THEN 1 ELSE 0]
  <2>1. PICK t \in Tasks : guards[l]["write"][t] > 0
    BY <1>2 DEF Held
  <2>2. \A u \in Tasks : guards[l]["read"][u] = 0 /\ (u # t => guards[l]["write"][u] = 0)
    BY <2>1 DEF Exclusion
  <2>3. guards[l]["write"][t] = 1
    <3>1. Holds(pc[t], l, "write") \in {0, 1}
      BY DEF Holds
    <3>2. guards[l]["write"][t] = Holds(pc[t], l, "write") - (IF Pending(t, l, "write") THEN 1 ELSE 0)
      BY <1>0 DEF GuardsInv
    <3>. QED  BY <2>1, <3>1, <3>2
  <2>4. guards[l]["write"] \in [Tasks -> 0..2]
    BY <1>0 DEF GuardsInv, Guards
  <2>5. guards[l]["write"] = [u \in Tasks |-> IF u = t THEN 1 ELSE 0]
    BY <2>2, <2>3, <2>4
  <2>. QED  BY <2>2, <2>5 DEF Held
<1>. QED  BY <1>2 DEF TypeOK, GuardsInv, Points, Guards, Request

\* The registries' state is well formed, whatever is registered and started and
\* in whatever order tokio's locks serve it: guards and requests fit the point
\* of each task (GuardsInv), so the consumer's nested read guard is the only
\* second guard of a task, and a writer is always alone (Exclusion).
THEOREM RegistryTypeCorrect == Spec => []TypeOK
<1>1. Init => GuardsInv /\ Exclusion
  BY GuardsInit
<1>2. GuardsInv /\ Exclusion /\ [Next]_vars => GuardsInv' /\ Exclusion'
  <2> SUFFICES ASSUME GuardsInv, Exclusion, UNCHANGED vars  PROVE GuardsInv' /\ Exclusion'
    BY GuardsNext
  <2>1. UNCHANGED <<definitions, factories, pc, work, guards, waiters>>
    BY DEF vars
  <2>2. \A t \in Tasks, l \in Locks, m \in Modes : Pending(t, l, m)' <=> Pending(t, l, m)
    BY <2>1 DEF Pending
  <2>. QED  BY <2>1, <2>2 DEF GuardsInv, Exclusion
<1>3. GuardsInv /\ Exclusion => TypeOK
  BY GuardsTyped
<1>. QED  BY <1>1, <1>2, <1>3, PTL DEF Spec

-----------------------------------------------------------------------------
(* What the consumer finds.                                                *)

\* A definition that RegisterWorkflow registers has its factories first, and the
\* consumer checks the factories of a definition that it found.
OrderInv ==
  /\ \A r \in Yaml :
       /\ pc[r] \in {"next", "writing definitions", "done"} => r \in factories
       /\ r \in definitions => r \in factories
  /\ pc[Consumer] = "checking" => work \in definitions

LEMMA OrderNext ==
  ASSUME pc \in [Tasks -> Points], OrderInv, Next
  PROVE  OrderInv'
<1>0. /\ Consumer \in Tasks /\ Registrars \subseteq Tasks /\ Starters \subseteq Tasks /\ Yaml \subseteq Registrars /\ Coded \subseteq Registrars
      /\ Consumer \notin Registrars /\ Consumer \notin Starters /\ \A s \in Starters : s \notin Registrars
      /\ \A r \in Coded : r \notin Yaml
  BY TasksAssumption DEF Tasks, Registrars
<1>1. ASSUME NEW t \in Tasks, NEW from, NEW to, Goes(t, from, to)
      PROVE  pc[t] = from /\ pc'[t] = to /\ \A u \in Tasks \ {t} : pc'[u] = pc[u]
  BY <1>1 DEF Goes
\* a step of the consumer
<1>2. ASSUME NEW from, NEW to, Goes(Consumer, from, to), definitions' = definitions, factories' = factories,
             to = "checking" => work' = work /\ work \in definitions
      PROVE  OrderInv'
  <2>1. pc'[Consumer] = to /\ \A r \in Yaml : pc'[r] = pc[r]
    BY <1>0, <1>1, <1>2
  <2>. QED  BY <1>2, <2>1 DEF OrderInv
<1>3. CASE Dequeue \/ Pass
  <2>1. CASE ConsumerLook
    BY <1>2, <2>1 DEF ConsumerLook
  <2>2. CASE ConsumerMissing
    BY <1>2, <2>2 DEF ConsumerMissing
  <2>3. CASE ConsumerFound
    BY <1>2, <2>3 DEF ConsumerFound
  <2>4. CASE ConsumerBounce
    BY <1>2, <2>4 DEF ConsumerBounce
  <2>5. CASE ConsumerAccept
    BY <1>2, <2>5 DEF ConsumerAccept
  <2>6. CASE ConsumerExecute
    BY <1>2, <2>6 DEF ConsumerExecute
  <2>7. CASE StartChild
    BY <1>2, <2>7 DEF StartChild
  <2>8. CASE ChildStarted
    BY <1>2, <2>8 DEF ChildStarted
  <2>9. CASE ConsumerEnd
    BY <1>2, <2>9 DEF ConsumerEnd
  <2>. QED  BY <1>3, <2>1, <2>2, <2>3, <2>4, <2>5, <2>6, <2>7, <2>8, <2>9 DEF Dequeue, Pass
<1>4. ASSUME NEW l \in Locks, Grant(l)  PROVE OrderInv'
  BY <1>4 DEF Grant, OrderInv
\* a step of another task: the consumer and what it looks at stay
<1>5. ASSUME NEW t \in Tasks, t # Consumer, NEW from, NEW to, Goes(t, from, to), work' = work,
             definitions \subseteq definitions', factories \subseteq factories',
             \A r \in Yaml : r # t => (r \in definitions' => r \in definitions),
             t \in Yaml => /\ to \in {"next", "writing definitions", "done"} => t \in factories'
                           /\ t \in definitions' => t \in factories'
      PROVE  OrderInv'
  <2>1. pc'[t] = to /\ \A u \in Tasks \ {t} : pc'[u] = pc[u]
    BY <1>1, <1>5
  <2>2. pc'[Consumer] = "checking" => work' \in definitions'
    BY <1>0, <1>5, <2>1 DEF OrderInv
  <2>3. ASSUME NEW r \in Yaml
        PROVE  /\ pc'[r] \in {"next", "writing definitions", "done"} => r \in factories'
               /\ r \in definitions' => r \in factories'
    <3>1. CASE r = t
      BY <1>5, <2>1, <3>1
    <3>2. CASE r # t
      BY <1>0, <1>5, <2>1, <3>2 DEF OrderInv
    <3>. QED  BY <3>1, <3>2
  <2>. QED  BY <2>2, <2>3 DEF OrderInv
<1>6. ASSUME NEW r \in Yaml, RegisterYaml(r)  PROVE OrderInv'
  <2>0. r \in Tasks /\ r # Consumer
    BY <1>0
  <2>1. CASE AskSteps(r, "start")
    BY <1>5, <2>0, <2>1 DEF AskSteps, OrderInv
  <2>2. CASE WriteSteps(r, "next")
    BY <1>5, <2>0, <2>2 DEF WriteSteps, OrderInv
  <2>3. CASE AskDefinitions(r, "next")
    <3>1. r \in factories
      BY <1>1, <2>0, <2>3 DEF AskDefinitions, OrderInv
    <3>. QED  BY <1>5, <2>0, <2>3, <3>1 DEF AskDefinitions
  <2>4. CASE WriteDefinitions(r, "done")
    <3>1. r \in factories
      BY <1>1, <2>0, <2>4 DEF WriteDefinitions, OrderInv
    <3>. QED  BY <1>5, <2>0, <2>4, <3>1 DEF WriteDefinitions
  <2>. QED  BY <1>6, <2>1, <2>2, <2>3, <2>4 DEF RegisterYaml
<1>7. ASSUME NEW r \in Coded, RegisterCoded(r)  PROVE OrderInv'
  <2>0. r \in Tasks /\ r # Consumer /\ r \notin Yaml
    BY <1>0
  <2>1. CASE AskDefinitions(r, "start")
    BY <1>5, <2>0, <2>1 DEF AskDefinitions
  <2>2. CASE WriteDefinitions(r, "next")
    BY <1>5, <2>0, <2>2 DEF WriteDefinitions
  <2>3. CASE AskSteps(r, "next")
    BY <1>5, <2>0, <2>3 DEF AskSteps
  <2>4. CASE WriteSteps(r, "done")
    BY <1>5, <2>0, <2>4 DEF WriteSteps
  <2>. QED  BY <1>7, <2>1, <2>2, <2>3, <2>4 DEF RegisterCoded
<1>8. ASSUME NEW s \in Starters, Starts(s)  PROVE OrderInv'
  <2>0. s \in Tasks /\ s # Consumer /\ s \notin Yaml
    BY <1>0
  <2>1. CASE AskStart(s)
    BY <1>5, <2>0, <2>1 DEF AskStart
  <2>2. CASE Started(s)
    BY <1>5, <2>0, <2>2 DEF Started
  <2>. QED  BY <1>8, <2>1, <2>2 DEF Starts
<1>. QED  BY <1>3, <1>4, <1>6, <1>7, <1>8 DEF Next, Registers

\* The host that compiled a workflow bounces an instance of it only for want of
\* its services: whenever the consumer has found the definition and holds the
\* step factories, these are complete, however RegisterWorkflow's two writes fall
\* between the consumer's two reads.
THEOREM CompiledNeverBounces == Spec => []CompiledCanExecute
<1>1. Init => OrderInv
  BY TasksAssumption DEF Init, OrderInv, Tasks, Registrars
<1>2. TypeOK /\ OrderInv /\ [Next]_vars => OrderInv'
  <2>1. TypeOK => pc \in [Tasks -> Points]
    BY DEF TypeOK, Points
  <2>2. OrderInv /\ UNCHANGED vars => OrderInv'
    BY DEF OrderInv, vars
  <2>. QED  BY <2>1, <2>2, OrderNext
<1>3. OrderInv => CompiledCanExecute
  BY DEF OrderInv, CompiledCanExecute, can_execute_workflow
<1>. QED  BY <1>1, <1>2, <1>3, RegistryTypeCorrect, PTL DEF Spec
=============================================================================
