----------------------- MODULE CredentialMatchProofs -----------------------
(* What match_vault_items promises, for every request and every vault.       *)
EXTENDS CredentialMatch, SequenceTheorems, TLAPS

LEMMA PriorityType ==
    ASSUME NEW host, NEW path, NEW uri
    PROVE  Priority(host, path, uri) \in Unmatched..Exact
  <1>1. \A item, request : ComparePaths(item, request) \in Unmatched..Exact
    BY DEF ComparePaths, Unmatched, HostOnly, HostAndPathPrefix, Exact
  <1>2. Unmatched \in Unmatched..Exact
    BY DEF Unmatched, Exact
  <1> QED  BY <1>1, <1>2 DEF Priority

LEMMA ChosenIsBest ==
    ASSUME NEW host, NEW path, NEW uris, Matched(host, path, uris) # None
    PROVE  Best(host, path, uris) = {Matched(host, path, uris)}
  <1> DEFINE best == Best(host, path, uris)
  <1>1. PICK id \in best : best = {id}
    BY DEF Matched
  <1>2. Matched(host, path, uris) = CHOOSE c \in best : best = {c}
    BY <1>1 DEF Matched
  <1> QED  BY <1>1, <1>2

(* git gets the secret of an item only for the host that it asked for,       *)
(* whatever the URIs of the vault look like; and if both name a path, the    *)
(* item's is the one asked for or a prefix of it.  match_vault_items.        *)
THEOREM OnlyTheAskedAddress ==
    ASSUME NEW host, NEW path, NEW uris, Matched(host, path, uris) # None
    PROVE  LET id == Matched(host, path, uris)
               found == ParseUri(uris[id])
           IN  /\ id \in DOMAIN uris
               /\ uris[id] # None /\ found # None
               /\ found.host = Host(host)
               /\ path # None /\ found.path # None =>
                     \/ NormalizePath(found.path) = NormalizePath(path)
                     \/ IsPrefix(NormalizePath(found.path), NormalizePath(path))
  <1> DEFINE id == Matched(host, path, uris)
             found == ParseUri(uris[id])
  <1>1. id \in Best(host, path, uris)
    BY ChosenIsBest
  <1>2. id \in DOMAIN uris /\ Priority(host, path, uris[id]) # Unmatched
    BY <1>1 DEF Best
  <1>3. /\ uris[id] # None /\ found # None
        /\ found.host = Host(host)
        /\ ComparePaths(found.path, path) # Unmatched
    BY <1>2 DEF Priority
  <1>4. ASSUME path # None, found.path # None
        PROVE  \/ NormalizePath(found.path) = NormalizePath(path)
               \/ IsPrefix(NormalizePath(found.path), NormalizePath(path))
    <2> HIDE DEF found
    <2> QED  BY <1>3, <1>4 DEF ComparePaths
  <1> QED  BY <1>2, <1>3, <1>4

(* ... and only when every other item fits the request less well: a choice   *)
(* between two equals is never made.  match_vault_items.                     *)
THEOREM NoChoiceAmongEquals ==
    ASSUME NEW host, NEW path, NEW uris, Matched(host, path, uris) # None,
           NEW other \in DOMAIN uris, other # Matched(host, path, uris)
    PROVE  Priority(host, path, uris[other])
             < Priority(host, path, uris[Matched(host, path, uris)])
  <1> DEFINE id == Matched(host, path, uris)
             P(i) == Priority(host, path, uris[i])
  <1>1. id \in Best(host, path, uris) /\ other \notin Best(host, path, uris)
    BY ChosenIsBest
  <1>2. /\ id \in DOMAIN uris /\ P(id) # Unmatched
        /\ \A o \in DOMAIN uris : P(o) <= P(id)
    BY <1>1 DEF Best
  <1>3. P(other) = Unmatched \/ \E o \in DOMAIN uris : ~(P(o) <= P(other))
    BY <1>1 DEF Best
  <1>4. \A i \in DOMAIN uris : P(i) \in Unmatched..Exact
    BY PriorityType
  <1>5. ASSUME NEW a, NEW b, a \in Unmatched..Exact, b \in Unmatched..Exact,
               a = Unmatched, b # Unmatched
        PROVE  a < b
    BY <1>5 DEF Unmatched, Exact
  <1>6. ASSUME NEW a, NEW b, NEW c, a \in Unmatched..Exact, b \in Unmatched..Exact,
               c \in Unmatched..Exact, ~(c <= a), c <= b
        PROVE  a < b
    BY <1>6 DEF Unmatched, Exact
  <1>7. CASE P(other) = Unmatched
    BY <1>2, <1>4, <1>5, <1>7
  <1>8. CASE \E o \in DOMAIN uris : ~(P(o) <= P(other))
    BY <1>2, <1>4, <1>6, <1>8
  <1> QED  BY <1>3, <1>7, <1>8

-----------------------------------------------------------------------------
(* Texts, as sequences of tokens.                                            *)
LEMMA OneToken ==
    ASSUME NEW S, NEW x \in S
    PROVE  <<x>> \in Seq(S) /\ Len(<<x>>) = 1 /\ <<x>>[1] = x
  OBVIOUS

LEMMA TwoTokens ==
    ASSUME NEW S, NEW a \in S, NEW b \in S
    PROVE  <<a, b>> \in Seq(S) /\ <<a, b>> = <<a>> \o <<b>>
  <1>1. <<a>> \in Seq(S) /\ <<b>> \in Seq(S) /\ Len(<<a>>) = 1 /\ Len(<<b>>) = 1
    OBVIOUS
  <1>2. <<a, b>> \in Seq(S) /\ Len(<<a, b>>) = 2
    OBVIOUS
  <1> DEFINE s == <<a>>
             t == <<b>>
  <1>4. s[1] = a /\ t[1] = b /\ s \in Seq(S) /\ t \in Seq(S) /\ Len(s) = 1 /\ Len(t) = 1
    BY <1>1
  <1> HIDE DEF s, t
  <1>5. Len(s \o t) = 2 /\ s \o t \in Seq(S) /\ (s \o t)[1] = a /\ (s \o t)[2] = b
    BY <1>4, ConcatProperties
  <1> DEFINE u == s \o t
             w == <<a, b>>
  <1>6. w[1] = a /\ w[2] = b
    OBVIOUS
  <1> HIDE DEF u, w
  <1>7. \A i \in 1..2 : u[i] = w[i]
    BY <1>5, <1>6 DEF u
  <1> QED  BY <1>2, <1>5, <1>7, SeqEqual DEF u, w, s, t

LEMMA HeadOfConcat ==
    ASSUME NEW S, NEW a \in Seq(S), NEW b \in Seq(S), a # <<>>
    PROVE  a \o b # <<>> /\ Head(a \o b) = a[1] /\ Head(a) = a[1] /\ 1 \in 1..Len(a)
  <1>1. Len(a) \in Nat \ {0} /\ Len(b) \in Nat
    BY EmptySeq, LenProperties
  <1>2. 1 \in 1..Len(a) + Len(b) /\ 1 <= Len(a) /\ 1 \in 1..Len(a)
    BY <1>1
  <1> DEFINE t == a \o b
  <1>3. t \in Seq(S) /\ Len(t) = Len(a) + Len(b) /\ t[1] = a[1]
    BY <1>2, ConcatProperties
  <1> HIDE DEF t
  <1>4. t # <<>>
    BY <1>1, <1>3, EmptySeq
  <1>5. Head(t) = t[1] /\ Head(a) = a[1]
    BY <1>3, <1>4
  <1> QED  BY <1>2, <1>3, <1>4, <1>5 DEF t

LEMMA AppendedTwice ==
    ASSUME NEW S, NEW s \in Seq(S), NEW a \in S, NEW b \in S
    PROVE  s \o <<a, b>> = (s \o <<a>>) \o <<b>>
  <1> DEFINE x == <<a>>
             y == <<b>>
  <1>1. x \in Seq(S) /\ y \in Seq(S) /\ <<a, b>> = x \o y
    BY OneToken, TwoTokens
  <1> HIDE DEF x, y
  <1> QED  BY <1>1, ConcatAssociative DEF x, y

LEMMA ContainsOneOf ==
    /\ \A token : ~Contains(<<>>, token)
    /\ \A a, token : Contains(<<a>>, token) => a = token
    /\ \A a, b, token : Contains(<<a, b>>, token) => token \in {a, b}
  <1>1. \A token : ~Contains(<<>>, token)
    BY DEF Contains
  <1>2. ASSUME NEW a, NEW token, Contains(<<a>>, token) PROVE a = token
    <2>1. Len(<<a>>) = 1 /\ \A i \in 1..1 : <<a>>[i] = a
      OBVIOUS
    <2> QED  BY <1>2, <2>1 DEF Contains
  <1>3. ASSUME NEW a, NEW b, NEW token, Contains(<<a, b>>, token) PROVE token \in {a, b}
    <2>1. Len(<<a, b>>) = 2 /\ \A i \in 1..2 : <<a, b>>[i] \in {a, b}
      OBVIOUS
    <2> QED  BY <1>3, <2>1 DEF Contains
  <1> QED  BY <1>1, <1>2, <1>3

LEMMA TextsAssociate ==
    ASSUME NEW a \in Text, NEW b \in Text, NEW c \in Text
    PROVE  (a \o b) \o c = a \o (b \o c)
  BY ConcatAssociative DEF Text

LEMMA TokensOfAddresses ==
    /\ Words \subseteq Tokens
    /\ "/" \in Tokens /\ ":" \in Tokens /\ " " \in Tokens /\ ".git" \in Tokens
    /\ Schemes \subseteq Tokens
  BY AddressesAreWords DEF Words, Marks

LEMMA ContainsConcat ==
    ASSUME NEW a \in Text, NEW b \in Text, NEW token
    PROVE  Contains(a \o b, token) <=> Contains(a, token) \/ Contains(b, token)
  <1>1. /\ Len(a \o b) = Len(a) + Len(b) /\ Len(a) \in Nat /\ Len(b) \in Nat
        /\ \A i \in 1..Len(a) + Len(b) : (a \o b)[i] = IF i <= Len(a) THEN a[i] ELSE b[i - Len(a)]
    BY ConcatProperties, LenProperties DEF Text
  <1>2. ASSUME Contains(a \o b, token) PROVE Contains(a, token) \/ Contains(b, token)
    <2>1. PICK i \in 1..Len(a) + Len(b) : (a \o b)[i] = token
      BY <1>1, <1>2 DEF Contains
    <2>2. CASE i <= Len(a)
      BY <1>1, <2>1, <2>2 DEF Contains
    <2>3. CASE ~(i <= Len(a))
      <3>1. i - Len(a) \in 1..Len(b) /\ b[i - Len(a)] = token
        BY <1>1, <2>1, <2>3
      <3> QED  BY <3>1 DEF Contains
    <2> QED  BY <2>2, <2>3
  <1>3. ASSUME Contains(a, token) PROVE Contains(a \o b, token)
    BY <1>1, <1>3 DEF Contains
  <1>4. ASSUME Contains(b, token) PROVE Contains(a \o b, token)
    <2>1. PICK i \in 1..Len(b) : b[i] = token
      BY <1>4 DEF Contains
    <2> DEFINE j == Len(a) + i
    <2>2. j \in 1..Len(a) + Len(b) /\ ~(j <= Len(a)) /\ j - Len(a) = i
      BY <1>1
    <2> HIDE DEF j
    <2>3. (a \o b)[j] = token
      BY <1>1, <2>1, <2>2
    <2> QED  BY <1>1, <2>2, <2>3 DEF Contains
  <1> QED  BY <1>2, <1>3, <1>4

(* The first token of a kind parts the text.                                 *)
LEMMA FirstParts ==
    ASSUME NEW a \in Text, a # <<>>, NEW b \in Text, NEW token \in Tokens, ~Contains(a, token)
    PROVE  LET t == (a \o <<token>>) \o b
           IN  /\ Contains(t, token)
               /\ UpTo(t, token) = a
               /\ b # <<>> => After(t, First(t, token)) = b
  <1> DEFINE one == <<token>>
             p == a \o one
             t == p \o b
             n == Len(a)
  <1>1. one \in Text /\ Len(one) = 1 /\ one[1] = token
    BY OneToken DEF Text
  <1>2. n \in Nat /\ n # 0
    BY EmptySeq, LenProperties DEF Text
  <1> HIDE DEF one
  <1>3. /\ p \in Text /\ Len(p) = n + 1
        /\ \A i \in 1..n : p[i] = a[i]
        /\ p[n + 1] = token
    <2>1. /\ p \in Text /\ Len(p) = Len(a) + Len(one)
          /\ \A i \in 1..Len(a) + Len(one) : p[i] = IF i <= Len(a) THEN a[i] ELSE one[i - Len(a)]
      BY <1>1, ConcatProperties DEF Text
    <2> HIDE DEF p
    <2>2. n + 1 \in 1..n+1 /\ ~(n + 1 <= n) /\ n + 1 - n = 1
          /\ \A i \in 1..n : i <= n /\ i \in 1..n+1
      BY <1>2
    <2>3. p[n + 1] = one[n + 1 - n]
      BY <1>1, <2>1, <2>2
    <2> QED  BY <1>1, <2>1, <2>2, <2>3
  <1>4. Len(b) \in Nat
    BY DEF Text
  <1>5. /\ t \in Text /\ Len(t) = n + 1 + Len(b)
        /\ \A i \in 1..n : t[i] = a[i]
        /\ t[n + 1] = token
    <2> HIDE DEF p
    <2>1. /\ t \in Text /\ Len(t) = Len(p) + Len(b)
          /\ \A i \in 1..Len(p) + Len(b) : t[i] = IF i <= Len(p) THEN p[i] ELSE b[i - Len(p)]
      BY <1>3, ConcatProperties DEF Text
    <2> HIDE DEF t, n
    <2>2. \A i \in 1..n+1 : i \in 1..Len(p) + Len(b) /\ i <= Len(p)
      BY <1>2, <1>3, <1>4
    <2>3. \A i \in 1..n+1 : t[i] = p[i]
      BY <2>1, <2>2
    <2>4. n + 1 \in 1..n+1 /\ \A i \in 1..n : i \in 1..n+1
      BY <1>2
    <2> QED  BY <1>3, <2>1, <2>3, <2>4
  <1> HIDE DEF t
  <1>6. /\ Contains(t, token) /\ First(t, token) = n + 1
    <2> DEFINE I == {i \in 1..Len(t) : t[i] = token}
    <2>1. n + 1 \in I
      <3>1. n + 1 \in 1..Len(t)
        BY <1>2, <1>4, <1>5
      <3> QED  BY <1>5, <3>1
    <2>2. \A i \in I : n + 1 <= i
      <3>1. \A i \in 1..n : t[i] # token
        BY <1>5 DEF Contains
      <3>2. \A i \in 1..Len(t) : i \in 1..n \/ n + 1 <= i
        BY <1>2
      <3> QED  BY <3>1, <3>2
    <2>3. \A i \in I : i \in Nat
      OBVIOUS
    <2>4. First(t, token) = IF I # {} THEN Min(I) ELSE 0
      BY DEF First, SelectInSeq
    <2>5. Contains(t, token)
      BY <2>1 DEF Contains
    <2> HIDE DEF I
    <2>6. Min(I) = n + 1
      BY <2>1, <2>2, <2>3, <1>2 DEF Min
    <2> QED  BY <2>1, <2>4, <2>5, <2>6
  <1>7. UpTo(t, token) = a
    <2>1. UpTo(t, token) = SubSeq(t, 1, n)
      <3>1. n + 1 - 1 = n
        BY <1>2
      <3> QED  BY <1>6, <3>1 DEF UpTo, Before
    <2>2. SubSeq(t, 1, n) = SubSeq(a \o one, 1, n)
      <3>1. 1 \in 1..Len(a \o one) /\ n \in 1..Len(a \o one)
        BY <1>2, <1>3
      <3> QED  BY <1>3, <3>1, SubSeqOfConcat1 DEF t, Text
    <2>3. SubSeq(a \o one, 1, n) = SubSeq(a, 1, n)
      <3>1. 1 \in 1..Len(a) /\ n \in 1..Len(a)
        BY <1>2
      <3> QED  BY <1>1, <3>1, SubSeqOfConcat1 DEF Text
    <2>4. SubSeq(a, 1, n) = a
      BY SubSeqFull DEF Text
    <2> QED  BY <2>1, <2>2, <2>3, <2>4
  <1>8. ASSUME b # <<>> PROVE After(t, First(t, token)) = b
    <2>1. Len(b) # 0
      BY <1>8, EmptySeq DEF Text
    <2> DEFINE from == n + 2
               to == n + 1 + Len(b)
    <2>2. After(t, First(t, token)) = SubSeq(t, from, to)
      <3>1. n + 1 + 1 = from
        BY <1>2
      <3> QED  BY <1>5, <1>6, <3>1 DEF After
    <2>3. /\ from \in Len(p) + 1..Len(p) + Len(b) /\ to \in Len(p) + 1..Len(p) + Len(b)
          /\ from - Len(p) = 1 /\ to - Len(p) = Len(b)
      BY <1>2, <1>3, <1>4, <2>1
    <2> HIDE DEF from, to
    <2>4. SubSeq(t, from, to) = SubSeq(b, from - Len(p), to - Len(p))
      BY <1>3, <2>3, SubSeqOfConcat2 DEF t, Text
    <2>5. SubSeq(b, 1, Len(b)) = b
      BY SubSeqFull DEF Text
    <2> QED  BY <2>2, <2>3, <2>4, <2>5
  <1> QED  BY <1>6, <1>7, <1>8 DEF t, one

LEMMA StripsSuffix ==
    ASSUME NEW a \in Text, a # <<>>, NEW token \in Tokens
    PROVE  /\ StripSuffix(a \o <<token>>, token) = a
           /\ Last(a) # token => StripSuffix(a, token) = a
           /\ a \o <<token>> \in Text /\ a \o <<token>> # <<>>
           /\ Last(a \o <<token>>) = token
  <1> DEFINE one == <<token>>
             t == a \o one
             n == Len(a)
  <1>1. one \in Text /\ Len(one) = 1 /\ one[1] = token
    BY OneToken DEF Text
  <1>2. n \in Nat /\ n # 0
    BY EmptySeq, LenProperties DEF Text
  <1> HIDE DEF one
  <1>3. /\ t \in Text /\ Len(t) = n + 1 /\ t[n + 1] = token
    <2>1. /\ t \in Text /\ Len(t) = n + 1
          /\ \A i \in 1..n + 1 : t[i] = IF i <= n THEN a[i] ELSE one[i - n]
      BY <1>1, ConcatProperties DEF Text
    <2> HIDE DEF t
    <2>2. n + 1 \in 1..n+1 /\ ~(n + 1 <= n) /\ n + 1 - n = 1
      BY <1>2
    <2>3. t[n + 1] = one[n + 1 - n]
      BY <2>1, <2>2
    <2> QED  BY <1>1, <2>1, <2>2, <2>3
  <1>4. t # <<>>
    <2>1. Len(t) # 0
      BY <1>2, <1>3
    <2> QED  BY <2>1, EmptySeq
  <1>5. Last(t) = token
    BY <1>3 DEF Last
  <1>6. Front(t) = a
    <2>1. n + 1 - 1 = n /\ 1 \in 1..n /\ n \in 1..n
      BY <1>2
    <2>2. Front(t) = SubSeq(t, 1, n)
      BY <1>3, <2>1 DEF Front
    <2>3. SubSeq(t, 1, n) = SubSeq(a, 1, n)
      BY <1>1, <2>1, SubSeqOfConcat1 DEF Text
    <2>4. SubSeq(a, 1, n) = a
      BY SubSeqFull DEF Text
    <2> QED  BY <2>2, <2>3, <2>4
  <1> HIDE DEF t
  <1>7. StripSuffix(t, token) = a
    BY <1>4, <1>5, <1>6 DEF StripSuffix
  <1>8. Last(a) # token => StripSuffix(a, token) = a
    BY DEF StripSuffix
  <1> QED  BY <1>3, <1>4, <1>5, <1>7, <1>8 DEF t, one

(* A path of words, written with "/" between them.                           *)
LEMMA JoinedWords ==
    ASSUME NEW path \in Seq(Words), path # <<>>
    PROVE  LET joined == Joined(path)
           IN  /\ joined \in Text /\ joined # <<>>
               /\ Len(joined) = 2 * Len(path) - 1
               /\ \A i \in 1..Len(path) : joined[2 * i - 1] = path[i]
               /\ Head(joined) # "/" /\ Last(joined) \notin {"/", ".git"}
               /\ ~Contains(joined, " ")
  <1> DEFINE n == Len(path)
             joined == Joined(path)
  <1>1. n \in Nat \ {0} /\ \A i \in 1..n : path[i] \in Words
    BY EmptySeq, ElementOfSeq
  <1>2. joined = [i \in 1 .. 2 * n - 1 |-> IF i % 2 = 1 THEN path[(i + 1) \div 2] ELSE "/"]
    BY DEF Joined
  <1> HIDE DEF n, joined
  <1>3. ASSUME NEW i \in 1 .. 2 * n - 1
        PROVE  /\ i % 2 = 1 => (i + 1) \div 2 \in 1..n
               /\ joined[i] \in Words \cup {"/"}
    <2>1. i % 2 = 1 => (i + 1) \div 2 \in 1..n
      BY <1>1
    <2> QED  BY <1>1, <1>2, <2>1
  <1>4. ASSUME NEW i \in 1..n PROVE 2 * i - 1 \in 1 .. 2 * n - 1 /\ joined[2 * i - 1] = path[i]
    <2>1. 2 * i - 1 \in 1 .. 2 * n - 1 /\ (2 * i - 1) % 2 = 1 /\ (2 * i - 1 + 1) \div 2 = i
      BY <1>1
    <2> QED  BY <1>2, <2>1
  <1>5. 2 * n - 1 \in Nat \ {0} /\ 1 \in 1..n /\ n \in 1..n
    BY <1>1
  <1>6. joined \in Seq(Words \cup {"/"}) /\ Len(joined) = 2 * n - 1
    <2>1. joined = [i \in 1 .. 2 * n - 1 |-> joined[i]]
      BY <1>2
    <2>2. [i \in 1 .. 2 * n - 1 |-> joined[i]] \in Seq(Words \cup {"/"})
      BY <1>3, <1>5
    <2>3. Len([i \in 1 .. 2 * n - 1 |-> joined[i]]) = 2 * n - 1
      BY <1>5
    <2> QED  BY <2>1, <2>2, <2>3
  <1>7. joined \in Text
    <2>1. Words \cup {"/"} \subseteq Tokens
      BY TokensOfAddresses
    <2> QED  BY <1>6, <2>1, SeqMonotonic DEF Text
  <1>8. joined # <<>> /\ Head(joined) = joined[1] /\ Last(joined) = joined[2 * n - 1]
    <2>1. joined # <<>>
      BY <1>5, <1>6, EmptySeq
    <2> QED  BY <1>6, <2>1 DEF Last
  <1>9. joined[1] \in Words /\ joined[2 * n - 1] \in Words
    <2>1. 2 * 1 - 1 = 1
      OBVIOUS
    <2> QED  BY <1>1, <1>4, <1>5, <2>1
  <1>10. ~Contains(joined, " ")
    BY <1>3, <1>6 DEF Contains, Words, Marks
  <1> QED  BY <1>4, <1>6, <1>7, <1>8, <1>9, <1>10 DEF Words, Marks, n, joined

LEMMA JoinedInjective ==
    ASSUME NEW p \in Seq(Words), NEW q \in Seq(Words), p # <<>>, q # <<>>, Joined(p) = Joined(q)
    PROVE  p = q
  <1>1. Len(p) \in Nat /\ Len(q) \in Nat
    BY LenProperties
  <1>2. 2 * Len(p) - 1 = 2 * Len(q) - 1
    BY JoinedWords
  <1>3. Len(p) = Len(q)
    BY <1>1, <1>2
  <1>4. \A i \in 1..Len(p) : p[i] = q[i]
    BY <1>3, JoinedWords
  <1> QED  BY <1>3, <1>4, SeqEqual

(* Whatever the ending, a written path is read as the path.                  *)
LEMMA PathIsRead ==
    ASSUME NEW path \in Seq(Words), path # <<>>,
           NEW ending \in {<<>>, <<"/">>, <<".git">>, <<".git", "/">>}
    PROVE  /\ NormalizePath(Joined(path) \o ending) = Joined(path)
           /\ Joined(path) \o ending \in Text
           /\ Joined(path) \o ending # <<>>
           /\ ~Contains(Joined(path) \o ending, " ")
  <1> DEFINE joined == Joined(path)
             bare == joined \o <<".git">>
  <1>1. /\ joined \in Text /\ joined # <<>> /\ Head(joined) # "/"
        /\ Last(joined) \notin {"/", ".git"} /\ ~Contains(joined, " ")
    BY JoinedWords
  <1> HIDE DEF joined
  <1>2. ending \in Text /\ ~Contains(ending, " ")
    <2>1. /\ <<>> \in Text /\ <<"/">> \in Text /\ <<".git">> \in Text /\ <<".git", "/">> \in Text
      BY TokensOfAddresses, EmptySeq, OneToken, TwoTokens DEF Text
    <2>2. ~Contains(ending, " ")
      <3>1. \A a, b : " " \notin {a, b} => ~Contains(<<a, b>>, " ")
        BY ContainsOneOf
      <3>2. \A a : " " # a => ~Contains(<<a>>, " ")
        BY ContainsOneOf
      <3>3. ~Contains(<<>>, " ") /\ ~Contains(<<"/">>, " ") /\ ~Contains(<<".git">>, " ")
            /\ ~Contains(<<".git", "/">>, " ")
        BY <3>1, <3>2, ContainsOneOf
      <3> QED  BY <3>3
    <2> QED  BY <2>1, <2>2
  <1>3. joined \o ending \in Text /\ ~Contains(joined \o ending, " ")
    BY <1>1, <1>2, ContainsConcat, ConcatProperties DEF Text
  <1>4. joined \o ending # <<>>
    BY <1>1, <1>2, HeadOfConcat DEF Text
  <1>5. StripPrefix(joined \o ending, "/") = joined \o ending
    <2>1. Head(joined \o ending) = Head(joined)
      BY <1>1, <1>2, HeadOfConcat DEF Text
    <2> QED  BY <1>1, <2>1 DEF StripPrefix
  <1> DEFINE strip(t) == StripSuffix(StripSuffix(StripSuffix(t, "/"), ".git"), "/")
  <1>6. strip(joined) = joined
    BY <1>1, StripsSuffix, TokensOfAddresses
  <1>12. StripSuffix(joined, "/") = joined
    BY <1>1, StripsSuffix, TokensOfAddresses
  <1>7. strip(joined \o <<"/">>) = joined
    BY <1>1, StripsSuffix, TokensOfAddresses
  <1>8. strip(bare) = joined
    <2>1. StripSuffix(bare, "/") = bare /\ StripSuffix(bare, ".git") = joined
      BY <1>1, StripsSuffix, TokensOfAddresses
    <2> QED  BY <1>12, <2>1
  <1>9. strip(bare \o <<"/">>) = joined
    <2>1. StripSuffix(bare \o <<"/">>, "/") = bare /\ StripSuffix(bare, ".git") = joined
      BY <1>1, StripsSuffix, TokensOfAddresses
    <2> QED  BY <1>12, <2>1
  <1>10. strip(joined \o ending) = joined
    <2>1. CASE ending = <<>>
      <3>1. joined \o <<>> = joined
        BY <1>1, ConcatEmptySeq DEF Text
      <3> QED  BY <1>6, <2>1, <3>1
    <2>2. CASE ending = <<".git", "/">>
      <3>1. joined \o <<".git", "/">> = bare \o <<"/">>
        <4>1. ASSUME NEW a \in Tokens, NEW b \in Tokens
              PROVE  joined \o <<a, b>> = (joined \o <<a>>) \o <<b>>
          <5>1. joined \in Seq(Tokens)
            BY <1>1 DEF Text
          <5> QED  BY <5>1, AppendedTwice
        <4> QED  BY <4>1, TokensOfAddresses
      <3> QED  BY <1>9, <2>2, <3>1
    <2> QED  BY <1>7, <1>8, <2>1, <2>2
  <1>11. NormalizePath(joined \o ending) = joined
    BY <1>5, <1>10 DEF NormalizePath
  <1> QED  BY <1>3, <1>4, <1>11 DEF joined

(* Whatever the port, a written host is read as the host.                    *)
LEMMA HostIsRead ==
    ASSUME NEW address \in Addresses, NEW style \in Styles
    PROVE  /\ Host(WrittenHost(address, style)) = ToLower(address.host)
           /\ WrittenHost(address, style) \in Text /\ WrittenHost(address, style) # <<>>
           /\ Head(WrittenHost(address, style)) \notin Schemes
           /\ ~Contains(WrittenHost(address, style), "/")
           /\ ~Contains(WrittenHost(address, style), " ")
  <1> DEFINE host == address.host
             port == style.port
             n == Len(host)
  <1>1. host \in Seq(Words) /\ host # <<>>
    BY AddressesAreWords DEF Addresses
  <1>2. host \in Text /\ \A i \in 1..n : host[i] \in Words
    <2>1. Words \subseteq Tokens
      BY TokensOfAddresses
    <2> HIDE DEF host
    <2> QED  BY <1>1, <2>1, ElementOfSeq, SeqMonotonic DEF Text
  <1>3. port = <<>> \/ \E number \in Words : port = <<":", number>>
    BY AddressesAreWords
  <1> HIDE DEF host, port
  <1>4. ~Contains(host, ":") /\ ~Contains(host, "/") /\ ~Contains(host, " ")
    BY <1>2 DEF Contains, Words, Marks
  <1>5. port \in Text /\ ~Contains(port, "/") /\ ~Contains(port, " ")
    <2>1. port \in Text
      BY <1>3, TokensOfAddresses, EmptySeq, TwoTokens DEF Text
    <2>2. port = <<>> => ~Contains(port, "/") /\ ~Contains(port, " ")
      BY ContainsOneOf
    <2>3. ASSUME NEW number \in Words, port = <<":", number>>
          PROVE  ~Contains(port, "/") /\ ~Contains(port, " ")
      <3>1. "/" \notin {":", number} /\ " " \notin {":", number}
        BY DEF Words, Marks
      <3>2. ~Contains(<<":", number>>, "/") /\ ~Contains(<<":", number>>, " ")
        BY <3>1, ContainsOneOf, Zenon
      <3> QED  BY <2>3, <3>2
    <2> QED  BY <1>3, <2>1, <2>2, <2>3
  <1>6. /\ host \o port \in Text /\ ~Contains(host \o port, "/") /\ ~Contains(host \o port, " ")
    BY <1>2, <1>4, <1>5, ContainsConcat, ConcatProperties DEF Text
  <1>7. host \o port # <<>>
    BY <1>1, <1>2, <1>5, HeadOfConcat DEF Text
  <1>8. Head(host \o port) \notin Schemes
    <2>1. Head(host \o port) = host[1] /\ 1 \in 1..n
      BY <1>1, <1>2, <1>5, HeadOfConcat DEF Text
    <2> QED  BY <1>2, <2>1 DEF Words, Marks
  <1>9. UpTo(host \o port, ":") = host
    <2>1. CASE port = <<>>
      <3>1. host \o port = host
        BY <1>2, <2>1, ConcatEmptySeq DEF Text
      <3> QED  BY <1>4, <3>1 DEF UpTo
    <2>2. CASE port # <<>>
      <3>1. PICK number \in Words : port = <<":", number>>
        BY <1>3, <2>2
      <3>2. number \in Tokens /\ ":" \in Tokens
        BY TokensOfAddresses
      <3>3. host \o port = (host \o <<":">>) \o <<number>>
        BY <1>2, <3>1, <3>2, AppendedTwice DEF Text
      <3>4. <<number>> \in Text
        BY <3>2, OneToken DEF Text
      <3>5. UpTo((host \o <<":">>) \o <<number>>, ":") = host
        <4> DEFINE rest == <<number>>
        <4> HIDE DEF rest
        <4>1. UpTo((host \o <<":">>) \o rest, ":") = host
          BY <1>1, <1>2, <1>4, <3>2, <3>4, FirstParts DEF rest
        <4> QED  BY <4>1 DEF rest
      <3> QED  BY <3>3, <3>5
    <2> QED  BY <2>1, <2>2
  <1>10. WrittenHost(address, style) = host \o port
    BY DEF WrittenHost, host, port
  <1> QED  BY <1>6, <1>7, <1>8, <1>9, <1>10 DEF Host, host

(* However an address is written, parse_uri reads the address.               *)
LEMMA UriIsRead ==
    ASSUME NEW item \in Addresses, NEW spelling \in Styles
    PROVE  LET uri == Written(item, spelling)
           IN  /\ uri # None /\ ParseUri(uri) # None
               /\ ParseUri(uri).host = ToLower(item.host)
               /\ ParseUri(uri).path = WrittenPath(item, spelling)
  <1> DEFINE host == WrittenHost(item, spelling)
             path == WrittenPath(item, spelling)
             rest == IF item.path = <<>> THEN <<>> ELSE <<"/">> \o path
             body == host \o rest
             scheme == spelling.scheme
             uri == Written(item, spelling)
  <1>1. /\ host \in Text /\ host # <<>> /\ Head(host) \notin Schemes
        /\ ~Contains(host, "/") /\ ~Contains(host, " ")
        /\ Host(host) = ToLower(item.host)
    BY HostIsRead
  <1>2. /\ item.path = <<>> => path = None
        /\ item.path # <<>> => path \in Text /\ path # <<>> /\ ~Contains(path, " ")
    <2>1. item.path \in Seq(Words)
      BY AddressesAreWords DEF Addresses
    <2>2. spelling.ending \in {<<>>, <<"/">>, <<".git">>, <<".git", "/">>}
      BY AddressesAreWords
    <2> QED  BY <2>1, <2>2, PathIsRead DEF WrittenPath
  <1>3. ToLower(item.host) \in Text
    BY AddressesAreWords DEF Addresses
  <1>4. scheme = <<>> \/ \E s \in Schemes : scheme = <<s>>
    BY AddressesAreWords
  <1> HIDE DEF host, path, scheme
  <1> DEFINE slash == <<"/">>
  <1>5. slash \in Text /\ slash # <<>> /\ ~Contains(slash, " ")
    <2>1. slash \in Text
      BY OneToken, TokensOfAddresses DEF Text
    <2>2. "/" # " "
      OBVIOUS
    <2> QED  BY <2>1, <2>2, ContainsOneOf
  <1>6. rest \in Text /\ ~Contains(rest, " ")
    <2>1. CASE item.path = <<>>
      BY <2>1, ContainsOneOf, EmptySeq DEF Text
    <2>2. CASE item.path # <<>>
      <3>1. rest = slash \o path
        BY <2>2
      <3> HIDE DEF slash, rest
      <3>2. slash \o path \in Text
        BY <1>2, <1>5, <2>2, ConcatProperties DEF Text
      <3>3. ~Contains(slash \o path, " ")
        BY <1>2, <1>5, <2>2, ContainsConcat
      <3> QED  BY <3>1, <3>2, <3>3
    <2> QED  BY <2>1, <2>2
  <1>7. /\ UpTo(body, "/") = host
        /\ path = IF Contains(body, "/") THEN After(body, First(body, "/")) ELSE None
    <2>1. CASE item.path = <<>>
      <3>1. body = host
        BY <1>1, <2>1, ConcatEmptySeq DEF Text
      <3> QED  BY <1>1, <1>2, <2>1, <3>1 DEF UpTo
    <2>2. CASE item.path # <<>>
      <3>1. body = (host \o slash) \o path
        <4>1. body = host \o (slash \o path)
          BY <2>2
        <4> HIDE DEF slash, body
        <4> QED  BY <1>1, <1>2, <1>5, <2>2, <4>1, TextsAssociate
      <3>2. LET t == (host \o <<"/">>) \o path
            IN  Contains(t, "/") /\ UpTo(t, "/") = host /\ After(t, First(t, "/")) = path
        BY <1>1, <1>2, <2>2, FirstParts, TokensOfAddresses
      <3> DEFINE t == (host \o <<"/">>) \o path
      <3>3. body = t
        BY <3>1
      <3>4. Contains(t, "/") /\ UpTo(t, "/") = host /\ After(t, First(t, "/")) = path
        BY <3>2
      <3> HIDE DEF t, body
      <3> QED  BY <3>3, <3>4
    <2> QED  BY <2>1, <2>2
  <1> HIDE DEF rest
  <1>8. body \in Text /\ body # <<>> /\ Head(body) \notin Schemes /\ ~Contains(body, " ")
    <2>1. body \in Text
      BY <1>1, <1>6, ConcatProperties DEF Text
    <2>2. body # <<>> /\ Head(body) = Head(host)
      BY <1>1, <1>6, HeadOfConcat DEF Text
    <2> QED  BY <1>1, <1>6, <2>1, <2>2, ContainsConcat
  <1>9. uri = scheme \o body
    <2>1. scheme \in Text
      BY <1>4, OneToken, EmptySeq, TokensOfAddresses DEF Text
    <2>2. uri = scheme \o host \o rest
      BY DEF Written, rest, host, path, scheme
    <2>3. (scheme \o host) \o rest = scheme \o (host \o rest)
      BY <1>1, <1>6, <2>1, TextsAssociate
    <2> QED  BY <2>2, <2>3
  <1> DEFINE address == [host |-> Host(UpTo(body, "/")),
                         path |-> IF Contains(body, "/") THEN After(body, First(body, "/"))
                                  ELSE None]
  <1> HIDE DEF uri, body
  <1>10. uri \in Text /\ ParseUri(uri) = address
    <2>1. CASE scheme = <<>>
      <3>1. uri = body
        BY <1>8, <1>9, <2>1, ConcatEmptySeq DEF Text
      <3> QED  BY <1>8, <3>1 DEF ParseUri
    <2>2. CASE scheme # <<>>
      <3>1. PICK s \in Schemes : scheme = <<s>>
        BY <1>4, <2>2
      <3>2. s \in Tokens
        BY TokensOfAddresses
      <3>3. uri = <<s>> \o body /\ uri \in Text /\ uri # <<>> /\ Head(uri) = s /\ Tail(uri) = body
        <4> DEFINE one == <<s>>
        <4>1. one \in Text /\ one # <<>> /\ one[1] = s /\ Len(one) = 1
          BY <3>2, OneToken DEF Text
        <4>2. uri = one \o body
          BY <1>9, <3>1
        <4> HIDE DEF one
        <4>3. uri \in Text /\ Len(uri) = 1 + Len(body)
              /\ \A i \in 1..1 + Len(body) : uri[i] = IF i <= 1 THEN one[i] ELSE body[i - 1]
          <5>1. uri \in Text /\ Len(uri) = Len(one) + Len(body)
                /\ \A i \in 1..Len(one) + Len(body) :
                      uri[i] = IF i <= Len(one) THEN one[i] ELSE body[i - Len(one)]
            BY <1>8, <4>1, <4>2, ConcatProperties DEF Text
          <5> QED  BY <4>1, <5>1
        <4>4. uri # <<>> /\ Head(uri) = s
          BY <1>8, <4>1, <4>2, HeadOfConcat DEF Text
        <4>5. Tail(uri) \in Text /\ Len(Tail(uri)) = Len(uri) - 1
              /\ \A i \in 1..Len(Tail(uri)) : Tail(uri)[i] = uri[i + 1]
          BY <4>3, <4>4, HeadTailProperties DEF Text
        <4>6. Len(body) \in Nat
          BY <1>8, LenProperties DEF Text
        <4>7. Len(Tail(uri)) = Len(body)
          BY <4>3, <4>5, <4>6
        <4>8. \A i \in 1..Len(body) : Tail(uri)[i] = body[i]
          <5>1. \A i \in 1..Len(body) : i + 1 \in 1..1 + Len(body) /\ ~(i + 1 <= 1) /\ i + 1 - 1 = i
            BY <4>6
          <5> QED  BY <4>3, <4>5, <4>7, <5>1
        <4>9. Tail(uri) = body
          BY <1>8, <4>5, <4>7, <4>8, SeqEqual DEF Text
        <4> QED  BY <4>2, <4>3, <4>4, <4>9 DEF one
      <3> QED  BY <3>3 DEF ParseUri
    <2> QED  BY <2>1, <2>2
  <1>11. address = [host |-> ToLower(item.host), path |-> path]
    BY <1>1, <1>7
  <1>12. address # None /\ uri # None
    <2>1. path \in Text \cup {None}
      BY <1>2
    <2> QED  BY <1>3, <1>10, <1>11, <2>1, NoneIsNoUri, NoneIsNoText
  <1> HIDE DEF address
  <1> QED  BY <1>10, <1>11, <1>12 DEF uri, path

LEMMA ByAddressType ==
    ASSUME NEW request, NEW item
    PROVE  ByAddress(request, item) \in {Unmatched, HostOnly, HostAndPathPrefix, Exact}
  BY DEF ByAddress

(* The priority of an item is that of its address, however the item and the  *)
(* request are written: compare_paths, parse_uri.                            *)
LEMMA AddressesRank ==
    ASSUME NEW request \in Addresses, NEW style \in Styles
    PROVE  RanksByAddress(request, style)
  <1> SUFFICES ASSUME NEW item \in Addresses, NEW spelling \in Styles
               PROVE  Priority(WrittenHost(request, style), WrittenPath(request, style),
                               Written(item, spelling)) = ByAddress(request, item)
    BY DEF RanksByAddress
  <1> DEFINE uri == Written(item, spelling)
             asked == WrittenPath(request, style)
             held == WrittenPath(item, spelling)
  <1>1. /\ uri # None /\ ParseUri(uri) # None
        /\ ParseUri(uri).host = ToLower(item.host) /\ ParseUri(uri).path = held
    BY UriIsRead
  <1>2. Host(WrittenHost(request, style)) = ToLower(request.host)
    BY HostIsRead
  <1>3. ASSUME NEW address \in Addresses, NEW way \in Styles
        PROVE  /\ address.path \in Seq(Words)
               /\ address.path = <<>> => WrittenPath(address, way) = None
               /\ address.path # <<>> =>
                    /\ WrittenPath(address, way) # None
                    /\ NormalizePath(WrittenPath(address, way)) = Joined(address.path)
    <2>1. address.path \in Seq(Words)
      BY AddressesAreWords DEF Addresses
    <2>2. way.ending \in {<<>>, <<"/">>, <<".git">>, <<".git", "/">>}
      BY AddressesAreWords
    <2> QED  BY <2>1, <2>2, PathIsRead, NoneIsNoText DEF WrittenPath
  <1>4. ComparePaths(held, asked) =
          IF request.path = <<>> \/ item.path = <<>> THEN HostOnly
          ELSE IF request.path = item.path THEN Exact
          ELSE IF IsPrefix(Joined(item.path), Joined(request.path)) THEN HostAndPathPrefix
          ELSE Unmatched
    <2>1. CASE request.path = <<>> \/ item.path = <<>>
      BY <1>3, <2>1 DEF ComparePaths
    <2>2. CASE request.path # <<>> /\ item.path # <<>>
      <3>1. Joined(item.path) = Joined(request.path) <=> request.path = item.path
        BY <1>3, <2>2, JoinedInjective
      <3>2. /\ held # None /\ asked # None
            /\ NormalizePath(held) = Joined(item.path)
            /\ NormalizePath(asked) = Joined(request.path)
        BY <1>3, <2>2
      <3> HIDE DEF held, asked
      <3> QED  BY <2>2, <3>1, <3>2 DEF ComparePaths
    <2> QED  BY <2>1, <2>2
  <1> HIDE DEF uri, asked, held
  <1>5. Priority(WrittenHost(request, style), asked, uri)
          = IF ToLower(item.host) # ToLower(request.host) THEN Unmatched ELSE ComparePaths(held, asked)
    BY <1>1, <1>2 DEF Priority
  <1> QED  BY <1>4, <1>5 DEF ByAddress, uri, asked

(* ... and of two items the one of the higher priority answers.              *)
LEMMA AddressesChoose ==
    ASSUME NEW request \in Addresses, NEW style \in Styles
    PROVE  ChoosesByAddress(request, style)
  <1> SUFFICES ASSUME NEW this \in Addresses, NEW that \in Addresses
               PROVE  Matched(WrittenHost(request, style), WrittenPath(request, style),
                              <<Written(this, style), Written(that, style)>>)
                        = CASE ByAddress(request, this) > ByAddress(request, that) -> 1
                            [] ByAddress(request, this) < ByAddress(request, that) -> 2
                            [] OTHER -> None
    BY DEF ChoosesByAddress
  <1> DEFINE host == WrittenHost(request, style)
             path == WrittenPath(request, style)
             uris == <<Written(this, style), Written(that, style)>>
             best == Best(host, path, uris)
             p == ByAddress(request, this)
             q == ByAddress(request, that)
  <1>1. DOMAIN uris = {1, 2} /\ uris[1] = Written(this, style) /\ uris[2] = Written(that, style)
    OBVIOUS
  <1>2. Priority(host, path, uris[1]) = p /\ Priority(host, path, uris[2]) = q
    BY <1>1, AddressesRank DEF RanksByAddress
  <1>3. p \in 0..3 /\ q \in 0..3
    BY ByAddressType DEF Unmatched, HostOnly, HostAndPathPrefix, Exact
  <1> HIDE DEF p, q, uris
  <1>4. best = {i \in {1, 2} : /\ (IF i = 1 THEN p ELSE q) # 0
                               /\ p <= (IF i = 1 THEN p ELSE q) /\ q <= (IF i = 1 THEN p ELSE q)}
    BY <1>1, <1>2 DEF Best, Unmatched
  <1>5. Matched(host, path, uris)
          = IF \E id \in best : best = {id} THEN CHOOSE id \in best : best = {id} ELSE None
    BY DEF Matched
  <1> HIDE DEF best
  <1>6. CASE p > q
    <2>1. best = {1}
      BY <1>3, <1>4, <1>6
    <2>2. Matched(host, path, uris) = 1
      BY <1>5, <2>1
    <2> QED  BY <1>3, <1>6, <2>2 DEF uris, p, q
  <1>7. CASE p < q
    <2>1. best = {2}
      BY <1>3, <1>4, <1>7
    <2>2. Matched(host, path, uris) = 2
      BY <1>5, <2>1
    <2> QED  BY <1>3, <1>7, <2>2 DEF uris, p, q
  <1>8. CASE p = q
    <2>1. best = {} \/ best = {1, 2}
      BY <1>3, <1>4, <1>8
    <2>2. Matched(host, path, uris) = None
      BY <1>5, <2>1
    <2> QED  BY <1>3, <1>8, <2>2 DEF uris, p, q
  <1> QED  BY <1>3, <1>6, <1>7, <1>8
=============================================================================
