--------------------------- MODULE ConfigLoadProofs ---------------------------
(***************************************************************************)
(* The configuration, for every set of fields, files, environments and     *)
(* settings.  The words of the settings stand one after the other, so that *)
(* a word is a flag of the operator's exactly when it is the first of its  *)
(* setting: the peek finds the file by that, and the flag package stands   *)
(* always at such a word, with the settings before it applied.             *)
(***************************************************************************)
EXTENDS ConfigLoad, ListingProofs, SequenceTheorems

\* Words, and texts, have their types.
LEMMA TextOfWord ==
  ASSUME NEW word \in Word PROVE TextOf(word) \in Text
<1>1. word.flag \in Character /\ word.value \in Text
  BY DEF Word
<1>2. "-" \in Character /\ "=" \in Character
  BY ConfigAssumption
<1>3. <<"-", word.flag>> \in Text /\ <<"=">> \in Text /\ <<>> \in Text
  BY <1>1, <1>2 DEF Text
<1>4. <<"=">> \o word.value \in Text
  BY <1>1, <1>3 DEF Text
<1> QED BY <1>1, <1>3, <1>4 DEF TextOf, Text

LEMMA WordsOfSetting ==
  ASSUME NEW setting \in Setting
  PROVE  LET words == WordsOf(setting)
         IN  /\ words \in Seq(Word)
             /\ Len(words) = IF TakesNext(setting) THEN 2 ELSE 1
             /\ words[1].flag = setting.flag /\ words[1].joined = setting.joined
             /\ setting.joined => words[1].value = TextOf(setting.value)
             /\ TakesNext(setting) => words[2] = setting.value
             /\ TakesNext(words[1]) <=> TakesNext(setting)
<1> DEFINE first == [flag |-> setting.flag, joined |-> setting.joined,
                     value |-> IF setting.joined THEN TextOf(setting.value) ELSE <<>>]
<1>1. setting.flag \in Flag /\ setting.joined \in BOOLEAN /\ setting.value \in Word
  BY ConfigAssumption
<1>2. Flag \subseteq Character
  BY ConfigAssumption
<1>3. first \in Word
  <2>1. first \in [flag : Character, joined : BOOLEAN, value : Text]
    BY <1>1, <1>2, TextOfWord DEF Text
  <2>2. first.flag # "none"
    BY <1>1, ConfigAssumption DEF Flag
  <2> QED BY <2>1, <2>2 DEF Word, IsWord
<1>4. /\ first.flag = setting.flag /\ first.joined = setting.joined
      /\ setting.joined => first.value = TextOf(setting.value)
      /\ TakesNext(first) <=> TakesNext(setting)
  BY DEF TakesNext
<1>5. WordsOf(setting) = IF TakesNext(first) THEN <<first, setting.value>> ELSE <<first>>
  BY DEF WordsOf
<1> HIDE DEF first
<1>6. CASE TakesNext(setting)
  <2>1. WordsOf(setting) = <<first, setting.value>>
    BY <1>4, <1>5, <1>6
  <2> QED BY <1>1, <1>3, <1>4, <1>6, <2>1
<1>7. CASE ~ TakesNext(setting)
  <2>1. WordsOf(setting) = <<first>>
    BY <1>4, <1>5, <1>7
  <2> QED BY <1>1, <1>3, <1>4, <1>7, <2>1
<1> QED BY <1>6, <1>7

-----------------------------------------------------------------------------
(***************************************************************************)
(* The words of the first settings: what the recursive function computes.  *)
(***************************************************************************)
Collects(settings, m, words) ==
    /\ words \in [0..m -> Seq(Word)] /\ words[0] = <<>>
    /\ \A k \in 1..m : words[k] = words[k - 1] \o WordsOf(settings[k])

LEMMA CollectionExists ==
  ASSUME NEW settings \in Seq(Setting)
  PROVE  \E words : Collects(settings, Len(settings), words)
<1> DEFINE n == Len(settings)
           Reached == {m \in 0..n : \E words : Collects(settings, m, words)}
<1>0. n \in Nat
  OBVIOUS
<1>1. 0 \in Reached
  <2> DEFINE words == [k \in 0..0 |-> <<>>]
  <2>1. words \in [0..0 -> Seq(Word)] /\ words[0] = <<>> /\ 1..0 = {}
    OBVIOUS
  <2> HIDE DEF words
  <2>2. Collects(settings, 0, words)
    BY <2>1 DEF Collects
  <2> QED BY <1>0, <2>2
<1>2. ASSUME NEW m \in 0..n - 1, m \in Reached PROVE m + 1 \in Reached
  <2>1. PICK words : Collects(settings, m, words)
    BY <1>2
  <2> DEFINE new == WordsOf(settings[m + 1])
             more == [k \in 0..m + 1 |-> IF k = m + 1 THEN words[m] \o new ELSE words[k]]
  <2>2. m + 1 \in 1..n /\ settings[m + 1] \in Setting
    BY <1>0
  <2>3. new \in Seq(Word)
    BY <2>2, WordsOfSetting
  <2>4. words \in [0..m -> Seq(Word)] /\ words[m] \in Seq(Word)
    BY <2>1 DEF Collects
  <2>5. words[m] \o new \in Seq(Word)
    BY <2>3, <2>4, ConcatProperties
  <2>6. more \in [0..m + 1 -> Seq(Word)]
    <3>1. \A k \in 0..m + 1 : k # m + 1 => k \in 0..m
      OBVIOUS
    <3> HIDE DEF new
    <3> QED BY <3>1, <2>4, <2>5
  <2>7. more[0] = <<>> /\ \A k \in 1..m + 1 : more[k] = more[k - 1] \o WordsOf(settings[k])
    <3>1. more[0] = words[0] /\ words[0] = <<>>
      BY <2>1 DEF Collects
    <3>2. ASSUME NEW k \in 1..m + 1 PROVE more[k] = more[k - 1] \o WordsOf(settings[k])
      <4>1. k - 1 \in 0..m /\ more[k - 1] = words[k - 1]
        OBVIOUS
      <4>2. CASE k = m + 1
        BY <4>1, <4>2
      <4>3. CASE k # m + 1
        <5>1. k \in 1..m /\ more[k] = words[k]
          BY <4>3
        <5>2. words[k] = words[k - 1] \o WordsOf(settings[k])
          BY <2>1, <5>1 DEF Collects
        <5> QED BY <4>1, <5>1, <5>2
      <4> QED BY <4>2, <4>3
    <3> QED BY <3>1, <3>2
  <2> HIDE DEF more
  <2>8. Collects(settings, m + 1, more)
    BY <2>6, <2>7 DEF Collects
  <2> QED BY <2>2, <2>8
<1>3. n \in Reached
  <2> HIDE DEF Reached
  <2>1. \A k \in 0..n : k \in Reached
    BY <1>0, <1>1, <1>2, Turns
  <2> QED BY <1>0, <2>1
<1> QED BY <1>3

\* FirstWords adds the words of one setting after the other.
LEMMA FirstWordsAre ==
  ASSUME NEW settings \in Seq(Setting)
  PROVE  /\ FirstWords(settings, 0) = <<>>
         /\ \A k \in 0..Len(settings) : FirstWords(settings, k) \in Seq(Word)
         /\ \A k \in 1..Len(settings) :
               FirstWords(settings, k) = FirstWords(settings, k - 1) \o WordsOf(settings[k])
<1> DEFINE n == Len(settings)
           Body(words) == [k \in 0..n |->
               IF k = 0 THEN <<>> ELSE words[k - 1] \o WordsOf(settings[k])]
           f == CHOOSE words : words = Body(words)
           Sound == {k \in 0..n : f[k] \in Seq(Word)}
<1>0. n \in Nat
  OBVIOUS
<1>1. \A k : FirstWords(settings, k) = f[k]
  BY DEF FirstWords
<1>2. PICK words : Collects(settings, n, words)
  BY CollectionExists
<1>3. words = Body(words)
  <2>1. words \in [0..n -> Seq(Word)] /\ words[0] = <<>>
    BY <1>2 DEF Collects
  <2>2. \A k \in 0..n : k # 0 => k \in 1..n
    OBVIOUS
  <2>3. \A k \in 0..n :
          words[k] = IF k = 0 THEN <<>> ELSE words[k - 1] \o WordsOf(settings[k])
    BY <1>2, <2>1, <2>2 DEF Collects
  <2> QED BY <2>1, <2>3
<1>4. f = Body(f)
  <2> HIDE DEF Body
  <2> QED BY <1>3
<1> HIDE DEF f
<1>5. f[0] = <<>> /\ \A k \in 1..n : f[k] = f[k - 1] \o WordsOf(settings[k])
  <2>1. 0 \in 0..n /\ \A k \in 1..n : k \in 0..n /\ k # 0
    BY <1>0
  <2>2. \A k \in 0..n : f[k] = IF k = 0 THEN <<>> ELSE f[k - 1] \o WordsOf(settings[k])
    BY <1>4
  <2> QED BY <2>1, <2>2
<1>6. \A k \in 0..n : k \in Sound
  <2>1. 0 \in Sound
    <3>1. f[0] = <<>> /\ <<>> \in Seq(Word) /\ 0 \in 0..n
      BY <1>0, <1>5
    <3> QED BY <3>1, Zenon
  <2>2. ASSUME NEW k \in 0..n - 1, k \in Sound PROVE k + 1 \in Sound
    <3>1. k + 1 \in 1..n /\ k + 1 \in 0..n /\ (k + 1) - 1 = k /\ settings[k + 1] \in Setting
      BY <1>0
    <3>2. WordsOf(settings[k + 1]) \in Seq(Word) /\ f[k] \in Seq(Word)
      BY <2>2, <3>1, WordsOfSetting
    <3>3. f[k + 1] = f[k] \o WordsOf(settings[k + 1])
      BY <1>5, <3>1
    <3>4. f[k + 1] \in Seq(Word)
      BY <3>2, <3>3, ConcatProperties
    <3> QED BY <3>1, <3>4
  <2> HIDE DEF Sound
  <2> QED BY <1>0, <2>1, <2>2, Turns
<1> QED BY <1>1, <1>5, <1>6

\* Where the words of setting j begin.
Before(settings, j) == Len(FirstWords(settings, j - 1))

\* Word i of setting j among the words of the first n settings.
Stands(settings, n, j, i) ==
    LET place == Before(settings, j) + i
    IN  /\ place \in 1..Len(FirstWords(settings, n))
        /\ FirstWords(settings, n)[place] = WordsOf(settings[j])[i]

\* One setting more: the words before stay where they are.
LEMMA OneMore ==
  ASSUME NEW settings \in Seq(Setting), NEW n \in 0..Len(settings) - 1
  PROVE  LET words == FirstWords(settings, n)
             new == WordsOf(settings[n + 1])
             more == FirstWords(settings, n + 1)
         IN  /\ words \in Seq(Word) /\ new \in Seq(Word) /\ more \in Seq(Word)
             /\ Len(words) \in Nat /\ Len(new) \in Nat /\ Len(more) = Len(words) + Len(new)
             /\ \A p \in 1..Len(words) : more[p] = words[p]
             /\ \A i \in 1..Len(new) : more[Len(words) + i] = new[i]
             /\ Before(settings, n + 1) = Len(words)
<1> DEFINE words == FirstWords(settings, n)
           new == WordsOf(settings[n + 1])
           more == FirstWords(settings, n + 1)
<1>1. n + 1 \in 1..Len(settings) /\ n \in 0..Len(settings) /\ (n + 1) - 1 = n
      /\ n + 1 \in 0..Len(settings) /\ settings[n + 1] \in Setting
  OBVIOUS
<1>2. words \in Seq(Word) /\ more \in Seq(Word) /\ more = words \o new
  BY <1>1, FirstWordsAre
<1>3. new \in Seq(Word)
  BY <1>1, WordsOfSetting
<1>4. Before(settings, n + 1) = Len(words)
  BY <1>1 DEF Before
<1> HIDE DEF words, new, more
<1>5. Len(words) \in Nat /\ Len(new) \in Nat /\ Len(more) = Len(words) + Len(new)
  BY <1>2, <1>3, ConcatProperties
<1>6. \A p \in 1..Len(words) + Len(new) :
        more[p] = IF p <= Len(words) THEN words[p] ELSE new[p - Len(words)]
  BY <1>2, <1>3, ConcatProperties
<1>7. \A p \in 1..Len(words) : more[p] = words[p]
  BY <1>5, <1>6
<1>8. ASSUME NEW i \in 1..Len(new) PROVE more[Len(words) + i] = new[i]
  <2>1. Len(words) + i \in 1..Len(words) + Len(new) /\ ~ (Len(words) + i <= Len(words))
        /\ (Len(words) + i) - Len(words) = i
    BY <1>5
  <2> QED BY <1>6, <2>1
<1>9. /\ words \in Seq(Word) /\ new \in Seq(Word) /\ more \in Seq(Word)
      /\ Len(words) \in Nat /\ Len(new) \in Nat /\ Len(more) = Len(words) + Len(new)
      /\ \A p \in 1..Len(words) : more[p] = words[p]
      /\ \A i \in 1..Len(new) : more[Len(words) + i] = new[i]
      /\ Before(settings, n + 1) = Len(words)
  BY <1>2, <1>3, <1>4, <1>5, <1>7, <1>8
<1> QED BY <1>9 DEF words, new, more

\* Every word of a setting stands among those of the first n settings, and every
\* word there is one of a setting.
LEMMA Places ==
  ASSUME NEW settings \in Seq(Setting), NEW n \in 0..Len(settings)
  PROVE  /\ \A j \in 1..n : \A i \in 1..Len(WordsOf(settings[j])) : Stands(settings, n, j, i)
         /\ \A p \in 1..Len(FirstWords(settings, n)) : \E j \in 1..n :
               \E i \in 1..Len(WordsOf(settings[j])) :
                  p = Before(settings, j) + i /\ Stands(settings, n, j, i)
<1> DEFINE N == Len(settings)
           All(m) == \A j \in 1..m : \A i \in 1..Len(WordsOf(settings[j])) :
                        Stands(settings, m, j, i)
           Only(m) == \A p \in 1..Len(FirstWords(settings, m)) : \E j \in 1..m :
               \E i \in 1..Len(WordsOf(settings[j])) : p = Before(settings, j) + i
           Reached == {m \in 0..N : All(m) /\ Only(m)}
<1>0. N \in Nat
  OBVIOUS
<1>1. 0 \in Reached
  <2>1. 1..0 = {} /\ FirstWords(settings, 0) = <<>> /\ Len(<<>>) = 0
    BY FirstWordsAre
  <2>2. All(0) /\ Only(0)
    BY <2>1
  <2> QED BY <1>0, <2>2
<1>2. ASSUME NEW m \in 0..N - 1, m \in Reached PROVE m + 1 \in Reached
  <2> DEFINE words == FirstWords(settings, m)
             new == WordsOf(settings[m + 1])
             more == FirstWords(settings, m + 1)
  <2>1. /\ Len(words) \in Nat /\ Len(new) \in Nat /\ Len(more) = Len(words) + Len(new)
        /\ \A p \in 1..Len(words) : more[p] = words[p]
        /\ \A i \in 1..Len(new) : more[Len(words) + i] = new[i]
        /\ Before(settings, m + 1) = Len(words)
    BY OneMore
  <2>2. All(m) /\ Only(m) /\ m \in Nat
    BY <1>2
  <2>3. ASSUME NEW j \in 1..m + 1, NEW i \in 1..Len(WordsOf(settings[j]))
        PROVE  Stands(settings, m + 1, j, i)
    <3>1. CASE j = m + 1
      <4>1. i \in 1..Len(new)
        BY <3>1
      <4>2. Before(settings, j) + i = Len(words) + i
        BY <2>1, <3>1
      <4>3. Len(words) + i \in 1..Len(more) /\ more[Len(words) + i] = new[i]
        <5> HIDE DEF words, new, more
        <5> QED BY <2>1, <4>1
      <4>4. WordsOf(settings[j])[i] = new[i]
        BY <3>1
      <4> HIDE DEF words, new
      <4> QED BY <4>2, <4>3, <4>4 DEF Stands
    <3>2. CASE j # m + 1
      <4>1. j \in 1..m
        BY <3>2, <2>2
      <4>2. Stands(settings, m, j, i)
        BY <2>2, <4>1
      <4> DEFINE place == Before(settings, j) + i
      <4>3. place \in 1..Len(words) /\ words[place] = WordsOf(settings[j])[i]
        BY <4>2 DEF Stands
      <4>4. place \in 1..Len(more) /\ more[place] = WordsOf(settings[j])[i]
        <5> HIDE DEF words, new, more, place
        <5> QED BY <2>1, <4>3
      <4> QED BY <4>4 DEF Stands
    <3> QED BY <3>1, <3>2
  <2>4. ASSUME NEW p \in 1..Len(more)
        PROVE  \E j \in 1..m + 1 : \E i \in 1..Len(WordsOf(settings[j])) :
                  p = Before(settings, j) + i
    <3>1. CASE p <= Len(words)
      <4>1. p \in 1..Len(words)
        <5> HIDE DEF words, new, more
        <5> QED BY <2>1, <3>1
      <4>2. PICK j \in 1..m : \E i \in 1..Len(WordsOf(settings[j])) : p = Before(settings, j) + i
        BY <2>2, <4>1
      <4>3. j \in 1..m + 1
        BY <2>2
      <4> QED BY <4>2, <4>3
    <3>2. CASE ~ (p <= Len(words))
      <4> DEFINE i == p - Len(words)
      <4>1. i \in 1..Len(new) /\ p = Before(settings, m + 1) + i
        <5> HIDE DEF words, new, more
        <5> QED BY <2>1, <3>2
      <4>2. m + 1 \in 1..m + 1
        BY <2>2
      <4> QED BY <4>1, <4>2
    <3> QED BY <3>1, <3>2
  <2>5. All(m + 1) /\ Only(m + 1)
    BY <2>3, <2>4
  <2> HIDE DEF All, Only
  <2> QED BY <1>0, <2>5
<1>3. All(n) /\ Only(n)
  <2> HIDE DEF Reached
  <2>1. \A m \in 0..N : m \in Reached
    BY <1>0, <1>1, <1>2, Turns
  <2> QED BY <2>1 DEF Reached
<1> QED BY <1>3
-----------------------------------------------------------------------------
\* The least and the greatest of some indices.
LEMMA LeastAndGreatest ==
  ASSUME NEW n \in Nat, NEW S \in SUBSET (0..n), S # {}
  PROVE  /\ Min(S) \in S /\ \A k \in S : Min(S) <= k
         /\ Max(S) \in S /\ \A k \in S : Max(S) >= k
<1>1. S \in SUBSET Nat /\ IsFiniteSet(S)
  <2>1. S \in SUBSET Nat /\ \A k \in S : k <= n
    OBVIOUS
  <2> QED BY <2>1, FS_BoundedSetOfNaturals
<1>2. /\ \E x \in S : \A y \in S : x <= y
      /\ \E x \in S : \A y \in S : x >= y
  BY <1>1, Extremes
<1> QED BY <1>2 DEF Min, Max

(***************************************************************************)
(* The check of a prefix: what it lets through gives legal subjects, and   *)
(* what it refuses gives none (config.go:154-174).                         *)
(***************************************************************************)
LEMMA ValidIsPublishable ==
  ASSUME NEW text \in Seq(Character), text # <<>>
  PROVE  ValidPrefix(text) <=> Publishable(text)
<1> DEFINE n == Len(text)
           dots == {k \in DOMAIN text : text[k] = "."}
           cuts == {0, n + 1} \cup dots
           End(cut) == Min({k \in cuts : k > cut})
           token(cut) == SubSeq(text, cut + 1, End(cut) - 1)
           subject == text \o <<".", "x">>
<1>1. n \in Nat /\ n > 0 /\ DOMAIN text = 1..n /\ \A k \in 1..n : text[k] \in Character
  OBVIOUS
<1>2. "." \notin Illegal /\ "x" \notin Illegal /\ "x" # "."
  BY DEF Illegal, Whitespace
<1>3. /\ Len(subject) = n + 2 /\ DOMAIN subject = 1..n + 2 /\ subject # <<>>
      /\ \A k \in 1..n : subject[k] = text[k]
      /\ subject[n + 1] = "." /\ subject[n + 2] = "x"
  <2>1. "." \in Character /\ "x" \in Character
    BY ConfigAssumption
  <2>2. <<".", "x">> \in Seq(Character) /\ Len(<<".", "x">>) = 2
    BY <2>1
  <2>3. /\ subject \in Seq(Character) /\ Len(subject) = n + 2
        /\ \A k \in 1..n + 2 : subject[k] = IF k <= n THEN text[k] ELSE <<".", "x">>[k - n]
    BY <2>2, ConcatProperties
  <2> HIDE DEF subject
  <2>4. DOMAIN subject = 1..n + 2 /\ subject # <<>>
    BY <2>3, <1>1
  <2>5. \A k \in 1..n : subject[k] = text[k]
    BY <2>3, <1>1
  <2>6. subject[n + 1] = <<".", "x">>[1] /\ subject[n + 2] = <<".", "x">>[2]
    <3>1. n + 1 \in 1..n + 2 /\ ~ (n + 1 <= n) /\ (n + 1) - n = 1
      BY <1>1
    <3>2. n + 2 \in 1..n + 2 /\ ~ (n + 2 <= n) /\ (n + 2) - n = 2
      BY <1>1
    <3> QED BY <2>3, <3>1, <3>2
  <2> QED BY <2>3, <2>4, <2>5, <2>6
<1>4. cuts \in SUBSET (0..n + 1) /\ 0 \in cuts /\ n + 1 \in cuts
  BY <1>1
<1>5. ASSUME NEW cut \in cuts \ {n + 1}
      PROVE  /\ End(cut) \in cuts /\ End(cut) > cut /\ cut \in 0..n /\ End(cut) \in 1..n + 1
             /\ \A k \in cuts : k > cut => End(cut) <= k
  <2> DEFINE later == {k \in cuts : k > cut}
  <2>0. cut \in 0..n
    BY <1>1, <1>4, <1>5
  <2>1. later \in SUBSET (0..n + 1) /\ n + 1 \in later
    BY <1>1, <1>4, <2>0
  <2>2. Min(later) \in later /\ \A k \in later : Min(later) <= k
    <3> HIDE DEF later
    <3>1. n + 1 \in Nat /\ later # {}
      BY <1>1, <2>1
    <3> QED BY <2>1, <3>1, LeastAndGreatest
  <2>3. End(cut) \in cuts /\ End(cut) > cut /\ \A k \in cuts : k > cut => End(cut) <= k
    <3> HIDE DEF cuts
    <3> QED BY <2>2
  <2>4. End(cut) \in 1..n + 1
    <3>1. End(cut) \in 0..n + 1 /\ End(cut) > cut
      BY <1>4, <2>3
    <3> HIDE DEF End
    <3> QED BY <1>1, <2>0, <3>1
  <2> QED BY <2>0, <2>3, <2>4
<1>6. ASSUME NEW cut \in cuts \ {n + 1}
      PROVE  /\ Len(token(cut)) = End(cut) - 1 - cut
             /\ DOMAIN token(cut) = 1..End(cut) - 1 - cut
             /\ \A i \in 1..End(cut) - 1 - cut :
                   cut + i \in 1..n /\ token(cut)[i] = text[cut + i]
             /\ token(cut) = <<>> <=> End(cut) = cut + 1
  <2>1. cut \in 0..n /\ End(cut) \in 1..n + 1 /\ End(cut) > cut
    BY <1>5
  <2> DEFINE m == End(cut)
  <2> HIDE DEF m, cuts
  <2>2. \A i \in cut + 1..m - 1 : text[i] \in Character
    BY <1>1, <2>1 DEF m
  <2>3. cut + 1 \in Int /\ m - 1 \in Int
    BY <1>1, <2>1 DEF m
  <2>4. /\ SubSeq(text, cut + 1, m - 1) \in Seq(Character)
        /\ Len(SubSeq(text, cut + 1, m - 1)) =
              IF cut + 1 <= m - 1 THEN (m - 1) - (cut + 1) + 1 ELSE 0
        /\ \A i \in 1..(m - 1) - (cut + 1) + 1 :
              SubSeq(text, cut + 1, m - 1)[i] = text[(cut + 1) + i - 1]
    BY <2>2, <2>3, SubSeqProperties
  <2>5. /\ Len(SubSeq(text, cut + 1, m - 1)) = m - 1 - cut
        /\ \A i \in 1..m - 1 - cut :
              cut + i \in 1..n /\ SubSeq(text, cut + 1, m - 1)[i] = text[cut + i]
    <3>1. m \in 1..n + 1 /\ m > cut
      BY <2>1 DEF m
    <3>2. (IF cut + 1 <= m - 1 THEN (m - 1) - (cut + 1) + 1 ELSE 0) = m - 1 - cut
      BY <1>1, <2>1, <3>1
    <3>3. ASSUME NEW i \in 1..m - 1 - cut
          PROVE  /\ cut + i \in 1..n /\ i \in 1..(m - 1) - (cut + 1) + 1
                 /\ (cut + 1) + i - 1 = cut + i
      BY <1>1, <2>1, <3>1
    <3> QED BY <2>4, <3>2, <3>3
  <2>6. /\ DOMAIN SubSeq(text, cut + 1, m - 1) = 1..m - 1 - cut
        /\ SubSeq(text, cut + 1, m - 1) = <<>> <=> m - 1 - cut = 0
    <3> DEFINE t == SubSeq(text, cut + 1, m - 1)
    <3>1. t \in Seq(Character) /\ Len(t) = m - 1 - cut
      BY <2>4, <2>5
    <3> HIDE DEF t
    <3>2. DOMAIN t = 1..m - 1 - cut /\ (t = <<>> <=> m - 1 - cut = 0)
      BY <3>1
    <3> QED BY <3>2 DEF t
  <2>7. m - 1 - cut = 0 <=> m = cut + 1
    BY <2>1 DEF m
  <2> QED BY <2>5, <2>6, <2>7 DEF m
<1>7. ValidPrefix(text) <=> \A cut \in cuts \ {n + 1} :
         token(cut) # <<>> /\ \A i \in DOMAIN token(cut) : token(cut)[i] \notin Illegal
  <2>1. Tokens(text) = {token(cut) : cut \in cuts \ {n + 1}}
    BY DEF Tokens
  <2> HIDE DEF token, cuts
  <2> QED BY <2>1 DEF ValidPrefix
<1> HIDE DEF token, End
<1>8. ValidPrefix(text) <=> \A cut \in cuts \ {n + 1} :
         /\ End(cut) # cut + 1
         /\ \A i \in 1..End(cut) - 1 - cut : text[cut + i] \notin Illegal
  <2> HIDE DEF cuts
  <2> QED BY <1>6, <1>7
<1>9. Publishable(text) <=>
         /\ subject[1] # "."
         /\ \A k \in 1..n + 2 : /\ subject[k] \notin Illegal
                                /\ subject[k] = "." => k < n + 2 /\ subject[k + 1] # "."
  <2>1. Publishable(text) <=> IsSubject(subject)
    BY DEF Publishable
  <2> HIDE DEF subject
  <2> QED BY <1>2, <1>3, <2>1 DEF IsSubject
<1> HIDE DEF subject
<1>10. ASSUME ValidPrefix(text) PROVE Publishable(text)
  <2>1. ASSUME NEW k \in 1..n, text[k] = "." PROVE k < n /\ text[k + 1] # "."
    <3>1. k \in cuts \ {n + 1}
      BY <1>1, <2>1
    <3>2. k + 1 \notin cuts
      <4>1. SUFFICES ASSUME k + 1 \in cuts PROVE End(k) = k + 1
        BY <1>8, <1>10, <3>1
      <4>2. End(k) > k /\ End(k) <= k + 1 /\ End(k) \in 1..n + 1
        <5> HIDE DEF cuts
        <5> QED BY <1>5, <3>1, <4>1
      <4> QED BY <4>2
    <3> QED BY <1>1, <3>2
  <2>2. text[1] # "."
    <3> SUFFICES ASSUME text[1] = "." PROVE FALSE
      OBVIOUS
    <3>1. 0 \in cuts \ {n + 1} /\ 1 \in cuts
      BY <1>1
    <3>2. End(0) > 0 /\ End(0) <= 1 /\ End(0) \in 1..n + 1
      <4> HIDE DEF cuts
      <4> QED BY <1>5, <3>1
    <3>3. End(0) = 0 + 1
      BY <3>2
    <3> QED BY <1>8, <1>10, <3>1, <3>3
  <2>3. ASSUME NEW k \in 1..n, text[k] # "." PROVE text[k] \notin Illegal
    <3> DEFINE earlier == {c \in cuts : c < k}
               cut == Max(earlier)
    <3>1. earlier \in SUBSET (0..n + 1) /\ 0 \in earlier
      BY <1>1, <1>4
    <3>2. cut \in earlier /\ \A c \in earlier : cut >= c
      <4> HIDE DEF earlier
      <4>1. n + 1 \in Nat /\ earlier # {}
        BY <1>1, <3>1
      <4> QED BY <3>1, <4>1, LeastAndGreatest
    <3>3. cut \in cuts \ {n + 1} /\ cut < k /\ \A c \in cuts : c < k => cut >= c
      <4> HIDE DEF cuts
      <4>1. cut \in cuts /\ cut < k /\ \A c \in cuts : c < k => cut >= c
        BY <3>2
      <4> HIDE DEF cut
      <4> QED BY <1>1, <4>1
    <3> HIDE DEF cut
    <3>4. k \notin cuts
      BY <1>1, <2>3
    <3>5. End(cut) > k
      <4> HIDE DEF cuts
      <4>1. End(cut) \in cuts /\ End(cut) > cut /\ cut \in 0..n /\ End(cut) \in 1..n + 1
        BY <1>5, <3>3
      <4> QED BY <3>3, <3>4, <4>1
    <3>6. k - cut \in 1..End(cut) - 1 - cut /\ cut + (k - cut) = k
      <4> HIDE DEF cuts
      <4>1. cut \in 0..n /\ End(cut) \in 1..n + 1
        BY <1>5, <3>3
      <4> QED BY <3>3, <3>5, <4>1
    <3> HIDE DEF cuts
    <3> QED BY <1>8, <1>10, <3>3, <3>6
  <2>4. ASSUME NEW k \in 1..n + 2
        PROVE  /\ subject[k] \notin Illegal
               /\ subject[k] = "." => k < n + 2 /\ subject[k + 1] # "."
    <3>1. CASE k \in 1..n
      <4>1. subject[k] = text[k] /\ (k < n => k + 1 \in 1..n /\ subject[k + 1] = text[k + 1])
        BY <1>1, <1>3, <3>1
      <4> QED BY <1>2, <2>1, <2>3, <3>1, <4>1
    <3>2. CASE k = n + 1
      BY <1>1, <1>2, <1>3, <3>2
    <3>3. CASE k = n + 2
      BY <1>2, <1>3, <3>3
    <3> QED BY <1>1, <3>1, <3>2, <3>3
  <2>5. subject[1] # "."
    BY <1>1, <1>3, <2>2
  <2> QED BY <1>9, <2>4, <2>5
<1>11. ASSUME Publishable(text) PROVE ValidPrefix(text)
  <2>1. ASSUME NEW cut \in cuts \ {n + 1}
        PROVE  /\ End(cut) # cut + 1
               /\ \A i \in 1..End(cut) - 1 - cut : text[cut + i] \notin Illegal
    <3>1. cut \in 0..n /\ End(cut) \in 1..n + 1 /\ End(cut) > cut /\ End(cut) \in cuts
      BY <1>5
    <3>2. ASSUME End(cut) = cut + 1 PROVE FALSE
      <4>1. subject[cut + 1] = "."
        BY <1>1, <1>3, <3>1, <3>2
      <4>2. cut # 0
        BY <1>9, <1>11, <4>1
      <4>3. subject[cut] = "." /\ cut \in 1..n + 2
        BY <1>1, <1>3, <3>1, <4>2
      <4> QED BY <1>9, <1>11, <4>1, <4>3
    <3>3. ASSUME NEW i \in 1..End(cut) - 1 - cut PROVE text[cut + i] \notin Illegal
      <4>1. cut + i \in 1..n /\ cut + i \in 1..n + 2
        BY <1>1, <3>1
      <4> QED BY <1>3, <1>9, <1>11, <4>1
    <3> QED BY <3>2, <3>3
  <2> HIDE DEF cuts
  <2> QED BY <1>8, <2>1
<1> QED BY <1>10, <1>11
-----------------------------------------------------------------------------
(***************************************************************************)
(* The peek.                                                               *)
(***************************************************************************)
\* The arguments, when nothing but settings was typed.
LEMMA ArgsOfSettings ==
  ASSUME typed \in Seq(Setting), trailing = <<>>
  PROVE  Args = FirstWords(typed, Len(typed)) /\ Args \in Seq(Word)
<1>1. Len(typed) \in 0..Len(typed)
  OBVIOUS
<1>2. FirstWords(typed, Len(typed)) \in Seq(Word)
  BY <1>1, FirstWordsAre
<1> QED BY <1>2, ConcatEmptySeq DEF Args

LEMMA ArgsAreWords ==
  ASSUME typed \in Seq(Setting), trailing \in Seq(Word) PROVE Args \in Seq(Word)
<1>1. Len(typed) \in 0..Len(typed)
  OBVIOUS
<1>2. FirstWords(typed, Len(typed)) \in Seq(Word)
  BY <1>1, FirstWordsAre
<1> QED BY <1>2, ConcatProperties DEF Args

\* Whatever was typed, the path is a text.
LEMMA PeekedText ==
  ASSUME LoadTypeOK PROVE findConfigPath \in Text
<1> DEFINE names == {k \in DOMAIN Args : /\ Args[k].flag = "config"
                                         /\ Args[k].joined \/ k < Len(Args)}
           n == Len(Args)
<1>1. Args \in Seq(Word) /\ n \in Nat /\ DOMAIN Args = 1..n
  <2>1. Args \in Seq(Word)
    BY ArgsAreWords DEF LoadTypeOK
  <2> QED BY <2>1
<1>2. \A k \in 1..n : Args[k] \in Word
  BY <1>1
<1>3. CASE names # {}
  <2>1. names \in SUBSET (0..n)
    BY <1>1
  <2>2. Min(names) \in names
    <3> HIDE DEF names
    <3> QED BY <1>1, <1>3, <2>1, LeastAndGreatest
  <2> DEFINE k == Min(names)
  <2>3. k \in 1..n /\ (Args[k].joined \/ k < n)
    BY <1>1, <2>2
  <2>4. findConfigPath = IF Args[k].joined THEN Args[k].value ELSE TextOf(Args[k + 1])
    BY <1>3 DEF findConfigPath
  <2> HIDE DEF k
  <2>5. CASE Args[k].joined
    BY <1>2, <2>3, <2>4, <2>5 DEF Word
  <2>6. CASE ~ Args[k].joined
    <3>1. k + 1 \in 1..n
      BY <1>1, <2>3, <2>6
    <3> QED BY <1>2, <2>4, <2>6, <3>1, TextOfWord
  <2> QED BY <2>5, <2>6
<1>4. CASE names = {}
  <2>1. findConfigPath = IF "config" \in DOMAIN env THEN env["config"] ELSE <<>>
    BY <1>4 DEF findConfigPath
  <2>2. env \in Environment /\ \A v \in DOMAIN env : env[v] \in Text
    BY ConfigAssumption DEF LoadTypeOK
  <2> QED BY <2>1, <2>2 DEF Text
<1> QED BY <1>3, <1>4

\* The file that the peek takes is the one that was named: a word that looks like
\* --config is the first of a setting, and there is at most one.
LEMMA PeekFindsNamed ==
  ASSUME LoadTypeOK, Unambiguous PROVE findConfigPath = NamedFile
<1> DEFINE n == Len(Args)
           N == Len(typed)
           names == {k \in DOMAIN Args : /\ Args[k].flag = "config"
                                         /\ Args[k].joined \/ k < Len(Args)}
           fallback == IF "config" \in DOMAIN env THEN env["config"] ELSE <<>>
<1>1. typed \in Seq(Setting) /\ trailing = <<>> /\ N \in Nat /\ N \in 0..N /\ DOMAIN typed = 1..N
  <2>1. typed \in Seq(Setting) /\ trailing = <<>>
    BY DEF LoadTypeOK, Unambiguous
  <2> QED BY <2>1
<1>2. Args = FirstWords(typed, N) /\ Args \in Seq(Word) /\ n \in Nat /\ DOMAIN Args = 1..n
  <2>1. Args = FirstWords(typed, N) /\ Args \in Seq(Word)
    BY <1>1, ArgsOfSettings
  <2> QED BY <2>1
<1>3. \A j \in 1..N : /\ typed[j] \in Setting /\ typed[j].flag \in Flag
                      /\ typed[j].joined \in BOOLEAN /\ typed[j].value \in Word
                      /\ typed[j].value.flag # "config"
  BY <1>1, ConfigAssumption DEF Unambiguous
<1>4. ASSUME NEW j \in 1..N, NEW i \in 1..Len(WordsOf(typed[j]))
      PROVE  /\ Before(typed, j) + i \in 1..n
             /\ Args[Before(typed, j) + i] = WordsOf(typed[j])[i]
  BY <1>1, <1>2, Places DEF Stands
<1>5. ASSUME NEW p \in 1..n, Args[p].flag = "config"
      PROVE  \E j \in TypedFor("config") : p = Before(typed, j) + 1
  <2>0. PICK j \in 1..N : \E i \in 1..Len(WordsOf(typed[j])) :
           p = Before(typed, j) + i /\ Args[p] = WordsOf(typed[j])[i]
    BY <1>1, <1>2, Places DEF Stands
  <2>1. PICK i \in 1..Len(WordsOf(typed[j])) :
           p = Before(typed, j) + i /\ Args[p] = WordsOf(typed[j])[i]
    BY <2>0
  <2> DEFINE words == WordsOf(typed[j])
  <2>2. /\ Len(words) = IF TakesNext(typed[j]) THEN 2 ELSE 1
        /\ words[1].flag = typed[j].flag
        /\ TakesNext(typed[j]) => words[2] = typed[j].value
    BY <1>3, WordsOfSetting
  <2> HIDE DEF words
  <2>3. i = 1 \/ (i = 2 /\ TakesNext(typed[j]))
    BY <2>1, <2>2 DEF words
  <2>4. Args[p] = words[i]
    BY <2>1 DEF words
  <2>5. i = 1 /\ typed[j].flag = "config"
    BY <1>3, <1>5, <2>2, <2>3, <2>4
  <2>6. j \in TypedFor("config")
    BY <1>1, <2>5 DEF TypedFor
  <2> QED BY <2>1, <2>5, <2>6
<1>6. CASE TypedFor("config") = {}
  <2>1. names = {}
    BY <1>2, <1>5, <1>6
  <2>2. findConfigPath = fallback
    BY <2>1 DEF findConfigPath
  <2> QED BY <1>6, <2>2 DEF NamedFile
<1>7. CASE TypedFor("config") # {}
  <2>1. PICK j : TypedFor("config") = {j}
    <3>1. TypedFor("config") \in SUBSET (1..N) /\ IsFiniteSet(TypedFor("config"))
      <4>1. TypedFor("config") \in SUBSET (1..N)
        BY <1>1 DEF TypedFor
      <4> QED BY <1>1, <4>1, FiniteIndices
    <3>2. Cardinality(TypedFor("config")) <= 1 /\ Cardinality(TypedFor("config")) \in Nat
      BY <3>1, FS_CardinalityType DEF Unambiguous, TypedFor
    <3>3. Cardinality(TypedFor("config")) # 0
      BY <1>7, <3>1, FS_EmptySet
    <3>4. Cardinality(TypedFor("config")) = 1
      BY <3>2, <3>3
    <3> QED BY <3>1, <3>4, FS_Singleton
  <2>2. j \in 1..N /\ typed[j].flag = "config"
    BY <1>1, <2>1 DEF TypedFor
  <2> DEFINE words == WordsOf(typed[j])
             p == Before(typed, j) + 1
  <2>3. "config" \notin BoolField
    BY ConfigAssumption DEF Field
  <2>4. TakesNext(typed[j]) <=> ~ typed[j].joined
    BY <2>2, <2>3 DEF TakesNext
  <2>5. /\ Len(words) = IF TakesNext(typed[j]) THEN 2 ELSE 1
        /\ words[1].flag = "config" /\ words[1].joined = typed[j].joined
        /\ typed[j].joined => words[1].value = TextOf(typed[j].value)
        /\ TakesNext(typed[j]) => words[2] = typed[j].value
    BY <1>3, <2>2, WordsOfSetting
  <2>6. p \in 1..n /\ Args[p] = words[1]
    <3>1. 1 \in 1..Len(words)
      BY <2>5
    <3> QED BY <1>4, <2>2, <3>1
  <2>7. TakesNext(typed[j]) => p + 1 \in 1..n /\ Args[p + 1] = words[2]
    <3> SUFFICES ASSUME TakesNext(typed[j]) PROVE p + 1 \in 1..n /\ Args[p + 1] = words[2]
      OBVIOUS
    <3>1. 2 \in 1..Len(words)
      BY <2>5
    <3>2. Before(typed, j) + 2 \in 1..n /\ Args[Before(typed, j) + 2] = words[2]
      BY <1>4, <2>2, <3>1
    <3>3. Before(typed, j) + 2 = p + 1
      <4>1. Before(typed, j) \in Int
        <5>1. j - 1 \in 0..N
          BY <1>1, <2>2
        <5>2. FirstWords(typed, j - 1) \in Seq(Word)
          BY <1>1, <5>1, FirstWordsAre
        <5> QED BY <5>2 DEF Before
      <4> QED BY <4>1
    <3> QED BY <3>2, <3>3
  <2> HIDE DEF words, p
  <2>8. names = {p}
    <3>1. p \in names
      <4>1. Args[p].joined \/ p < n
        BY <1>2, <1>3, <2>2, <2>4, <2>5, <2>6, <2>7
      <4> QED BY <1>2, <2>5, <2>6, <4>1
    <3>2. \A q \in names : q = p
      BY <1>2, <1>5, <2>1 DEF p
    <3> QED BY <3>1, <3>2
  <2>9. Min(names) = p
    <3>1. p \in Nat
      BY <2>6
    <3> HIDE DEF names
    <3> QED BY <2>8, <3>1 DEF Min
  <2>10. findConfigPath = IF Args[p].joined THEN Args[p].value ELSE TextOf(Args[p + 1])
    <3>1. names # {}
      BY <2>8
    <3> QED BY <2>9, <3>1 DEF findConfigPath
  <2>11. findConfigPath = TextOf(typed[j].value)
    BY <1>3, <2>2, <2>4, <2>5, <2>6, <2>7, <2>10
  <2>12. Max(TypedFor("config")) = j
    <3>1. j \in Nat
      BY <1>1, <2>2
    <3> QED BY <2>1, <3>1 DEF Max
  <2>13. NamedFile = TextOf(typed[j].value)
    BY <1>7, <2>2, <2>3, <2>12 DEF NamedFile, Typed, Meant
  <2> QED BY <2>11, <2>13
<1> QED BY <1>6, <1>7
-----------------------------------------------------------------------------
(***************************************************************************)
(* What the settings mean does not change while they are loaded.           *)
(***************************************************************************)
LEMMA InputsStay ==
  ASSUME UNCHANGED inputs
  PROVE  /\ files' = files /\ env' = env /\ typed' = typed /\ trailing' = trailing
         /\ Args' = Args /\ (Unambiguous' <=> Unambiguous)
         /\ \A flag : TypedFor(flag)' = TypedFor(flag) /\ Typed(flag)' = Typed(flag)
         /\ NamedFile' = NamedFile /\ EnvLayer' = EnvLayer
         /\ \A field : Resolved(field)' = Resolved(field)
<1>1. files' = files /\ env' = env /\ typed' = typed /\ trailing' = trailing
  BY DEF inputs
<1>2. Args' = Args
  BY <1>1 DEF Args
<1>3. Unambiguous' <=> Unambiguous
  BY <1>1 DEF Unambiguous
<1>4. \A flag : TypedFor(flag)' = TypedFor(flag)
  BY <1>1 DEF TypedFor
<1>5. \A flag : Typed(flag)' = Typed(flag)
  BY <1>1, <1>4 DEF Typed
<1>6. NamedFile' = NamedFile
  BY <1>1, <1>4, <1>5 DEF NamedFile
<1>7. EnvLayer' = EnvLayer
  BY <1>1 DEF EnvLayer
<1>8. \A field : Resolved(field)' = Resolved(field)
  BY <1>1, <1>4, <1>5, <1>6, <1>7 DEF Resolved
<1> QED BY <1>1, <1>2, <1>3, <1>4, <1>5, <1>6, <1>7, <1>8

LEMMA LayersStay ==
  ASSUME UNCHANGED inputs, configPath' = configPath
  PROVE  /\ FromFile' = FromFile /\ FromEnvironment' = FromEnvironment
         /\ (Readable' <=> Readable)
         /\ \A n : WithSettings(n)' = WithSettings(n)
<1>1. /\ files' = files /\ typed' = typed /\ EnvLayer' = EnvLayer
      /\ \A flag : TypedFor(flag)' = TypedFor(flag)
  BY InputsStay
<1>2. FromFile' = FromFile
  BY <1>1 DEF FromFile
<1>3. FromEnvironment' = FromEnvironment
  BY <1>1, <1>2 DEF FromEnvironment
<1>4. Readable' <=> Readable
  BY <1>1 DEF Readable
<1>5. \A n : WithSettings(n)' = WithSettings(n)
  BY <1>1, <1>3 DEF WithSettings
<1> QED BY <1>2, <1>3, <1>4, <1>5

\* All settings over the environment, the file and the defaults are what each
\* field resolves to.
LEMMA AllSettings ==
  ASSUME LoadTypeOK, configPath = NamedFile, configPath = <<>> \/ Readable, NEW f \in Field
  PROVE  WithSettings(Len(typed))[f] = Resolved(f)
<1>1. TypedFor(f) \cap 1..Len(typed) = TypedFor(f)
  <2>1. typed \in Seq(Setting)
    BY DEF LoadTypeOK
  <2> QED BY <2>1 DEF TypedFor
<1>2. WithSettings(Len(typed))[f] = IF TypedFor(f) = {} THEN FromEnvironment[f]
                                    ELSE Value(ParseInt, f, Typed(f))
  BY <1>1 DEF WithSettings, Typed
<1>3. DOMAIN FromFile = Field
  <2>1. DOMAIN Defaults = Field
    BY ConfigAssumption
  <2> QED BY <2>1 DEF FromFile, Over
<1>4. FromEnvironment[f] = IF f \in DOMAIN EnvLayer THEN EnvLayer[f] ELSE FromFile[f]
  <2>. HIDE DEF EnvLayer, FromFile
  <2> QED BY <1>3 DEF FromEnvironment, Over
<1>5. FromFile[f] = IF NamedFile # <<>> /\ f \in DOMAIN files[NamedFile].values
                    THEN files[NamedFile].values[f] ELSE Defaults[f]
  <2>1. DOMAIN Defaults = Field
    BY ConfigAssumption
  <2> QED BY <2>1 DEF FromFile, Over
<1> QED BY <1>2, <1>4, <1>5 DEF Resolved

\* The layers hold texts where prefixes are.
LEMMA LayerOver ==
  ASSUME NEW layer, IsLayer(layer), NEW below, IsLayer(below), DOMAIN below = Field
  PROVE  IsLayer(Over(layer, below)) /\ DOMAIN Over(layer, below) = Field
<1>1. DOMAIN Over(layer, below) = Field
  BY DEF Over
<1>2. ASSUME NEW f \in Field \cap PrefixField PROVE Over(layer, below)[f] \in Text
  <2>1. Over(layer, below)[f] = IF f \in DOMAIN layer THEN layer[f] ELSE below[f]
    BY DEF Over
  <2> QED BY <2>1 DEF IsLayer
<1> QED BY <1>1, <1>2 DEF IsLayer

LEMMA PrefixValue ==
  ASSUME NEW ints, NEW f \in PrefixField, NEW text
  PROVE  Value(ints, f, text) = text
<1>1. f \notin IntField /\ f \notin BoolField
  BY ConfigAssumption
<1> QED BY <1>1 DEF Value

LEMMA EnvIsLayer == ASSUME env \in Environment PROVE IsLayer(EnvLayer)
<1>1. \A v \in DOMAIN env : env[v] \in Text
  BY ConfigAssumption
<1>2. DOMAIN EnvLayer \subseteq Field /\ DOMAIN EnvLayer \subseteq DOMAIN env
  BY DEF EnvLayer
<1>3. ASSUME NEW f \in DOMAIN EnvLayer \cap PrefixField PROVE EnvLayer[f] \in Text
  <2>1. EnvLayer[f] = Value(Atoi, f, env[f])
    BY DEF EnvLayer
  <2> QED BY <1>1, <1>2, <2>1, PrefixValue
<1> QED BY <1>2, <1>3 DEF IsLayer
-----------------------------------------------------------------------------
(***************************************************************************)
(* The steps of LoadConfig.                                                *)
(***************************************************************************)
LEMMA LoadInitially == Init => LoadInv
<1> SUFFICES ASSUME Init PROVE LoadInv
  OBVIOUS
<1>1. typed \in Seq(Setting)
  <2>1. PICK n \in 0..MaxTyped : typed \in [1..n -> Setting]
    BY DEF Init
  <2>2. n \in Nat
    BY ConfigAssumption
  <2> QED BY <2>1, <2>2
<1>2. trailing \in Seq(Word) /\ <<>> \in Seq(Word) /\ <<>> \in Text
  BY ConfigAssumption DEF Init, Text
<1>3. LoadTypeOK
  BY <1>1, <1>2, ConfigAssumption DEF Init, LoadTypeOK
<1> QED BY <1>3 DEF Init, LoadInv, ErrorsAreMistakes, PrefixesGiveSubjects

LEMMA PeekStep == ASSUME LoadInv, Peek PROVE LoadInv'
<1>1. UNCHANGED inputs /\ cfg' = cfg /\ rest' = rest /\ step = "peek" /\ step' = "file"
      /\ configPath' = findConfigPath
  BY DEF Peek
<1>2. LoadTypeOK /\ cfg = Defaults
  BY <1>1 DEF LoadInv
<1>3. LoadTypeOK'
  BY <1>1, <1>2, InputsStay, PeekedText DEF LoadTypeOK, IsLayer
<1>4. Unambiguous' => configPath' = NamedFile'
  BY <1>1, <1>2, InputsStay, PeekFindsNamed
<1> QED BY <1>1, <1>2, <1>3, <1>4 DEF LoadInv, ErrorsAreMistakes, PrefixesGiveSubjects

LEMMA FileRefusedStep == ASSUME LoadInv, FileRefused PROVE LoadInv'
<1>1. /\ UNCHANGED <<inputs, cfg, configPath, rest>> /\ step = "file" /\ step' = "exit 2"
      /\ configPath # <<>> /\ ~ Readable
  BY DEF FileRefused, Fail
<1>2. LoadTypeOK /\ (Unambiguous => configPath = NamedFile)
  BY <1>1 DEF LoadInv
<1>3. LoadTypeOK'
  BY <1>1, <1>2, InputsStay DEF LoadTypeOK, IsLayer
<1>4. Unambiguous' => configPath' = NamedFile'
  BY <1>1, <1>2, InputsStay
<1>5. ErrorsAreMistakes'
  <2> SUFFICES ASSUME Unambiguous'
               PROVE  NamedFile' # <<>> /\ ~ (NamedFile' \in Path /\ files'[NamedFile'].readable)
    BY DEF ErrorsAreMistakes
  <2> QED BY <1>1, <1>4, InputsStay DEF Readable
<1> QED BY <1>1, <1>3, <1>4, <1>5 DEF LoadInv, PrefixesGiveSubjects

LEMMA FileStep == ASSUME LoadInv, LoadYAMLInto PROVE LoadInv'
<1>1. /\ UNCHANGED <<inputs, configPath, rest>> /\ step = "file" /\ step' = "environment"
      /\ configPath = <<>> \/ Readable
      /\ cfg' = IF configPath = <<>> THEN cfg ELSE Over(files[configPath].values, cfg)
  BY DEF LoadYAMLInto
<1>2. LoadTypeOK /\ (Unambiguous => configPath = NamedFile) /\ cfg = Defaults
  BY <1>1 DEF LoadInv
<1>3. cfg' = FromFile
  BY <1>1, <1>2 DEF FromFile
<1>4. IsLayer(FromFile) /\ DOMAIN FromFile = Field
  <2>1. IsLayer(Defaults) /\ DOMAIN Defaults = Field
    BY ConfigAssumption
  <2>2. CASE configPath = <<>>
    BY <2>1, <2>2 DEF FromFile
  <2>3. CASE configPath # <<>>
    <3>1. files[configPath] \in File
      BY <1>1, <1>2, <2>3 DEF LoadTypeOK, Readable
    <3>2. IsLayer(files[configPath].values)
      BY <3>1, ConfigAssumption
    <3> QED BY <2>1, <2>3, <3>2, LayerOver DEF FromFile
  <2> QED BY <2>2, <2>3
<1>5. LoadTypeOK'
  BY <1>1, <1>2, <1>3, <1>4, InputsStay DEF LoadTypeOK, IsLayer
<1>6. Unambiguous' => configPath' = NamedFile'
  BY <1>1, <1>2, InputsStay
<1>7. cfg' = FromFile' /\ (configPath' = <<>> \/ Readable')
  BY <1>1, <1>3, LayersStay
<1> QED BY <1>1, <1>5, <1>6, <1>7 DEF LoadInv, ErrorsAreMistakes, PrefixesGiveSubjects

\* Before the first setting all arguments are left, and none is applied.
LEMMA NoneApplied ==
  ASSUME LoadTypeOK
  PROVE  /\ SubSeq(Args, Len(FirstWords(typed, 0)) + 1, Len(Args)) = Args
         /\ DOMAIN FromEnvironment = Field => FromEnvironment = WithSettings(0)
<1>1. typed \in Seq(Setting) /\ Args \in Seq(Word)
  BY ArgsAreWords DEF LoadTypeOK
<1>2. Len(FirstWords(typed, 0)) + 1 = 1
  BY <1>1, FirstWordsAre
<1>3. SubSeq(Args, 1, Len(Args)) = Args
  BY <1>1
<1>4. ASSUME DOMAIN FromEnvironment = Field PROVE FromEnvironment = WithSettings(0)
  <2>1. \A f \in Field : TypedFor(f) \cap 1..0 = {}
    OBVIOUS
  <2>2. WithSettings(0) = [f \in Field |-> FromEnvironment[f]]
    BY <2>1 DEF WithSettings
  <2>3. FromEnvironment = [f \in DOMAIN FromEnvironment |-> FromEnvironment[f]]
    BY DEF FromEnvironment, Over
  <2> QED BY <1>4, <2>2, <2>3
<1> QED BY <1>2, <1>3, <1>4

LEMMA EnvironmentStep == ASSUME LoadInv, applyEnv PROVE LoadInv'
<1>1. /\ UNCHANGED <<inputs, configPath>> /\ step = "environment" /\ step' = "flags"
      /\ cfg' = Over(EnvLayer, cfg) /\ rest' = Args
  BY DEF applyEnv
<1>2. /\ LoadTypeOK /\ (Unambiguous => configPath = NamedFile) /\ cfg = FromFile
      /\ configPath = <<>> \/ Readable
  BY <1>1 DEF LoadInv
<1>3. cfg' = FromEnvironment
  BY <1>1, <1>2 DEF FromEnvironment
<1>4. IsLayer(FromEnvironment) /\ DOMAIN FromEnvironment = Field
  <2>1. IsLayer(EnvLayer)
    BY <1>2, EnvIsLayer DEF LoadTypeOK
  <2>2. IsLayer(FromFile) /\ DOMAIN FromFile = Field
    BY <1>2 DEF LoadTypeOK
  <2> QED BY <2>1, <2>2, LayerOver DEF FromEnvironment
<1>5. rest' \in Seq(Word)
  BY <1>1, <1>2, ArgsAreWords DEF LoadTypeOK
<1>6. LoadTypeOK'
  BY <1>1, <1>2, <1>3, <1>4, <1>5, InputsStay DEF LoadTypeOK, IsLayer
<1>7. Unambiguous' => configPath' = NamedFile'
  BY <1>1, <1>2, InputsStay
<1>8. configPath' = <<>> \/ Readable'
  BY <1>1, <1>2, LayersStay
<1>9. BetweenSettings'
  <2>1. /\ rest' = SubSeq(Args, Len(FirstWords(typed, 0)) + 1, Len(Args))
        /\ cfg' = WithSettings(0)
    BY <1>1, <1>2, <1>3, <1>4, NoneApplied
  <2>2. /\ rest' = SubSeq(Args', Len(FirstWords(typed', 0)) + 1, Len(Args'))
        /\ cfg' = WithSettings(0)'
    BY <1>1, <2>1, InputsStay, LayersStay
  <2>3. 0 \in 0..Len(typed')
    <3>1. typed' \in Seq(Setting)
      BY <1>6 DEF LoadTypeOK
    <3> QED BY <3>1
  <2> QED BY <2>2, <2>3 DEF BetweenSettings
<1> QED BY <1>1, <1>6, <1>7, <1>8, <1>9 DEF LoadInv, ErrorsAreMistakes, PrefixesGiveSubjects
-----------------------------------------------------------------------------
(***************************************************************************)
(* The flag package.                                                       *)
(***************************************************************************)
\* What is left of a sequence behind place m, and behind m + l.
LEMMA LeftBehind ==
  ASSUME NEW s \in Seq(Word), NEW m \in Nat, NEW l \in Nat, m + l <= Len(s)
  PROVE  LET left == SubSeq(s, m + 1, Len(s))
         IN  /\ left \in Seq(Word) /\ Len(left) = Len(s) - m
             /\ \A i \in 1..Len(s) - m : left[i] = s[m + i]
             /\ SubSeq(left, l + 1, Len(left)) = SubSeq(s, m + l + 1, Len(s))
<1> DEFINE n == Len(s)
           left == SubSeq(s, m + 1, n)
           later == SubSeq(left, l + 1, Len(left))
           same == SubSeq(s, m + l + 1, n)
<1>1. n \in Nat /\ n >= m + l /\ \A i \in 1..n : s[i] \in Word
  OBVIOUS
<1>2. left \in Seq(Word) /\ Len(left) = n - m /\ \A i \in 1..n - m : left[i] = s[m + i]
  <2>1. /\ SubSeq(s, m + 1, n) \in Seq(Word)
        /\ Len(SubSeq(s, m + 1, n)) = IF m + 1 <= n THEN n - (m + 1) + 1 ELSE 0
        /\ \A i \in 1..n - (m + 1) + 1 : SubSeq(s, m + 1, n)[i] = s[(m + 1) + i - 1]
    <3>1. m + 1 \in Int /\ n \in Int /\ \A i \in m + 1..n : s[i] \in Word
      BY <1>1
    <3> HIDE DEF n
    <3> QED BY <3>1, SubSeqProperties
  <2> HIDE DEF n
  <2>2. (IF m + 1 <= n THEN n - (m + 1) + 1 ELSE 0) = n - m
    BY <1>1
  <2>3. ASSUME NEW i \in 1..n - m PROVE i \in 1..n - (m + 1) + 1 /\ (m + 1) + i - 1 = m + i
    BY <1>1
  <2> QED BY <2>1, <2>2, <2>3
<1> HIDE DEF left
<1>3. /\ later \in Seq(Word) /\ Len(later) = n - m - l
      /\ \A i \in 1..n - m - l : later[i] = s[m + l + i]
  <2>1. /\ SubSeq(left, l + 1, n - m) \in Seq(Word)
        /\ Len(SubSeq(left, l + 1, n - m)) = IF l + 1 <= n - m THEN n - m - (l + 1) + 1 ELSE 0
        /\ \A i \in 1..n - m - (l + 1) + 1 :
              SubSeq(left, l + 1, n - m)[i] = left[(l + 1) + i - 1]
    <3>1. l + 1 \in Int /\ n - m \in Int /\ \A i \in l + 1..n - m : left[i] \in Word
      BY <1>1, <1>2
    <3> HIDE DEF n
    <3> QED BY <3>1, SubSeqProperties
  <2>2. later = SubSeq(left, l + 1, n - m)
    BY <1>2
  <2> HIDE DEF n, later
  <2>3. (IF l + 1 <= n - m THEN n - m - (l + 1) + 1 ELSE 0) = n - m - l
    BY <1>1
  <2>4. ASSUME NEW i \in 1..n - m - l
        PROVE  /\ i \in 1..n - m - (l + 1) + 1 /\ (l + 1) + i - 1 = l + i
               /\ l + i \in 1..n - m /\ m + (l + i) = m + l + i
    BY <1>1
  <2> QED BY <1>2, <2>1, <2>2, <2>3, <2>4
<1>4. /\ same \in Seq(Word) /\ Len(same) = n - m - l
      /\ \A i \in 1..n - m - l : same[i] = s[m + l + i]
  <2>1. /\ SubSeq(s, m + l + 1, n) \in Seq(Word)
        /\ Len(SubSeq(s, m + l + 1, n)) = IF m + l + 1 <= n THEN n - (m + l + 1) + 1 ELSE 0
        /\ \A i \in 1..n - (m + l + 1) + 1 :
              SubSeq(s, m + l + 1, n)[i] = s[(m + l + 1) + i - 1]
    <3>1. m + l + 1 \in Int /\ n \in Int /\ \A i \in m + l + 1..n : s[i] \in Word
      BY <1>1
    <3> HIDE DEF n
    <3> QED BY <3>1, SubSeqProperties
  <2> HIDE DEF n
  <2>2. (IF m + l + 1 <= n THEN n - (m + l + 1) + 1 ELSE 0) = n - m - l
    BY <1>1
  <2>3. ASSUME NEW i \in 1..n - m - l
        PROVE  i \in 1..n - (m + l + 1) + 1 /\ (m + l + 1) + i - 1 = m + l + i
    BY <1>1
  <2> QED BY <2>1, <2>2, <2>3
<1>5. later = same
  <2> HIDE DEF later, same, n
  <2> QED BY <1>3, <1>4, SeqEqual
<1>6. /\ left \in Seq(Word) /\ Len(left) = n - m /\ \A i \in 1..n - m : left[i] = s[m + i]
      /\ SubSeq(left, l + 1, Len(left)) = SubSeq(s, m + l + 1, n)
  BY <1>2, <1>5
<1> QED BY <1>6 DEF left

\* Behind the last setting nothing is left.
LEMMA AllRead ==
  ASSUME LoadTypeOK, Unambiguous
  PROVE  SubSeq(Args, Len(FirstWords(typed, Len(typed))) + 1, Len(Args)) = <<>>
<1>1. typed \in Seq(Setting) /\ trailing = <<>>
  BY DEF LoadTypeOK, Unambiguous
<1>2. Args = FirstWords(typed, Len(typed)) /\ Args \in Seq(Word)
  BY <1>1, ArgsOfSettings
<1>3. Len(Args) \in Nat /\ SubSeq(Args, Len(Args) + 1, Len(Args)) = <<>>
  BY <1>2
<1> QED BY <1>2, <1>3

\* Between two settings the next words are those of the next setting.
LEMMA AtSetting ==
  ASSUME LoadTypeOK, Unambiguous, NEW n \in 0..Len(typed) - 1,
         rest = SubSeq(Args, Len(FirstWords(typed, n)) + 1, Len(Args))
  PROVE  LET setting == typed[n + 1]
             words == WordsOf(setting)
         IN  /\ n + 1 \in 1..Len(typed) /\ setting \in Setting
             /\ Len(rest) >= Len(words) /\ Len(words) >= 1
             /\ \A i \in 1..Len(words) : rest[i] = words[i]
             /\ SubSeq(rest, Len(words) + 1, Len(rest)) =
                   SubSeq(Args, Len(FirstWords(typed, n + 1)) + 1, Len(Args))
<1> DEFINE N == Len(typed)
           words == WordsOf(typed[n + 1])
           m == Len(FirstWords(typed, n))
           l == Len(words)
<1>1. typed \in Seq(Setting) /\ N \in Nat
  <2>1. typed \in Seq(Setting)
    BY DEF LoadTypeOK
  <2> QED BY <2>1
<1>2. Args = FirstWords(typed, N) /\ Args \in Seq(Word)
  BY <1>1, ArgsOfSettings DEF Unambiguous
<1>4. n \in 0..N - 1 /\ n + 1 \in 1..N /\ typed[n + 1] \in Setting
  BY <1>1
<1>5. words \in Seq(Word) /\ l \in Nat /\ l >= 1
  <2>1. words \in Seq(Word) /\ (l = 1 \/ l = 2)
    BY <1>4, WordsOfSetting
  <2> HIDE DEF words, l
  <2> QED BY <2>1
<1>6. m \in Nat /\ Len(FirstWords(typed, n + 1)) = m + l /\ Before(typed, n + 1) = m
  BY <1>1, <1>4, OneMore
<1>7. ASSUME NEW i \in 1..l PROVE m + i \in 1..Len(Args) /\ Args[m + i] = words[i]
  <2>1. N \in 0..N
    BY <1>1
  <2>2. Stands(typed, N, n + 1, i)
    BY <1>1, <1>4, <2>1, Places
  <2> HIDE DEF words
  <2> QED BY <1>2, <1>6, <2>2 DEF Stands, words
<1> HIDE DEF m
<1>8. m + l <= Len(Args) /\ Len(Args) \in Nat
  <2>1. l \in 1..l
    BY <1>5
  <2>2. m + l \in 1..Len(Args)
    BY <1>7, <2>1
  <2> QED BY <1>2, <2>2
<1>9. rest = SubSeq(Args, m + 1, Len(Args))
  BY DEF m
<1>10. /\ Len(rest) = Len(Args) - m
       /\ \A i \in 1..Len(Args) - m : rest[i] = Args[m + i]
       /\ SubSeq(rest, l + 1, Len(rest)) = SubSeq(Args, m + l + 1, Len(Args))
  <2> DEFINE left == SubSeq(Args, m + 1, Len(Args))
  <2> HIDE DEF l
  <2>1. /\ Len(left) = Len(Args) - m
        /\ \A i \in 1..Len(Args) - m : left[i] = Args[m + i]
        /\ SubSeq(left, l + 1, Len(left)) = SubSeq(Args, m + l + 1, Len(Args))
    BY <1>2, <1>5, <1>6, <1>8, LeftBehind
  <2>2. rest = left
    BY <1>9
  <2> HIDE DEF left
  <2> QED BY <2>1, <2>2
<1>11. Len(rest) >= l /\ \A i \in 1..l : rest[i] = words[i]
  <2> HIDE DEF words, l
  <2>1. \A i \in 1..l : i \in 1..Len(Args) - m
    BY <1>5, <1>6, <1>8
  <2>2. Len(rest) >= l
    BY <1>5, <1>6, <1>8, <1>10
  <2> QED BY <1>7, <1>10, <2>1, <2>2
<1>12. SubSeq(rest, l + 1, Len(rest)) =
          SubSeq(Args, Len(FirstWords(typed, n + 1)) + 1, Len(Args))
  BY <1>6, <1>10
<1> QED BY <1>4, <1>5, <1>11, <1>12

\* What the flag package reads at a setting is the setting.
LEMMA ReadsSetting ==
  ASSUME LoadTypeOK, Unambiguous, NEW n \in 0..Len(typed), rest # <<>>,
         rest = SubSeq(Args, Len(FirstWords(typed, n)) + 1, Len(Args))
  PROVE  LET setting == typed[n + 1]
         IN  /\ n + 1 \in 1..Len(typed) /\ setting.flag \in Flag
             /\ FlagWord.flag = setting.flag /\ ~ EndsFlags(FlagWord) /\ Given
             /\ FlagText = Meant(setting)
             /\ SubSeq(rest, IF TakesNext(FlagWord) THEN 3 ELSE 2, Len(rest)) =
                   SubSeq(Args, Len(FirstWords(typed, n + 1)) + 1, Len(Args))
<1> DEFINE setting == typed[n + 1]
           words == WordsOf(setting)
<1>1. /\ n + 1 \in 1..Len(typed) /\ setting \in Setting
      /\ Len(rest) >= Len(words)
      /\ \A i \in 1..Len(words) : rest[i] = words[i]
      /\ SubSeq(rest, Len(words) + 1, Len(rest)) =
            SubSeq(Args, Len(FirstWords(typed, n + 1)) + 1, Len(Args))
  <2>1. n # Len(typed)
    BY AllRead
  <2>2. Len(typed) \in Nat
    <3>1. typed \in Seq(Setting)
      BY DEF LoadTypeOK
    <3> QED BY <3>1
  <2>3. n \in 0..Len(typed) - 1
    BY <2>1, <2>2
  <2> QED BY <2>3, AtSetting
<1>2. /\ Len(words) = IF TakesNext(setting) THEN 2 ELSE 1
      /\ words[1].flag = setting.flag /\ words[1].joined = setting.joined
      /\ setting.joined => words[1].value = TextOf(setting.value)
      /\ TakesNext(setting) => words[2] = setting.value
      /\ TakesNext(words[1]) <=> TakesNext(setting)
  BY <1>1, WordsOfSetting
<1>3. setting.flag \in Flag /\ setting.flag \notin {"none", "-"}
  BY <1>1, ConfigAssumption DEF Flag
<1> HIDE DEF setting, words
<1>4. FlagWord = words[1]
  <2>1. rest[1] = words[1]
    BY <1>1, <1>2
  <2> QED BY <2>1 DEF FlagWord
<1>5. TakesNext(FlagWord) <=> TakesNext(setting)
  BY <1>2, <1>4
<1>6. TakesNext(setting) => rest[2] = setting.value /\ Len(rest) >= 2
  BY <1>1, <1>2
<1>7. Len(rest) \in Nat
  <2>1. rest \in Seq(Word)
    BY DEF LoadTypeOK
  <2> QED BY <2>1
<1>8. Given
  BY <1>5, <1>6, <1>7 DEF Given
<1>9. FlagText = Meant(setting)
  <2>1. CASE setting.joined
    BY <1>2, <1>4, <2>1 DEF FlagText, Meant
  <2>2. CASE ~ setting.joined /\ setting.flag \in BoolField
    <3>1. ~ TakesNext(FlagWord) /\ ~ FlagWord.joined
      BY <1>2, <1>4, <1>5, <2>2 DEF TakesNext
    <3> QED BY <2>2, <3>1 DEF FlagText, Meant
  <2>3. CASE ~ setting.joined /\ setting.flag \notin BoolField
    <3>1. TakesNext(FlagWord) /\ ~ FlagWord.joined /\ TakesNext(setting)
      BY <1>2, <1>4, <1>5, <2>3 DEF TakesNext
    <3> QED BY <1>6, <2>3, <3>1 DEF FlagText, Meant
  <2> QED BY <2>1, <2>2, <2>3
<1>10. (IF TakesNext(FlagWord) THEN 3 ELSE 2) = Len(words) + 1
  BY <1>2, <1>5
<1>11. SubSeq(rest, IF TakesNext(FlagWord) THEN 3 ELSE 2, Len(rest)) =
          SubSeq(Args, Len(FirstWords(typed, n + 1)) + 1, Len(Args))
  BY <1>1, <1>10
<1>12. ~ EndsFlags(FlagWord)
  BY <1>2, <1>3, <1>4 DEF EndsFlags
<1> QED BY <1>1, <1>2, <1>3, <1>4, <1>8, <1>9, <1>11, <1>12 DEF setting

\* Applying one setting more changes the field it names.
LEMMA OneApplied ==
  ASSUME LoadTypeOK, NEW n \in 0..Len(typed) - 1
  PROVE  LET setting == typed[n + 1]
         IN  \A f \in Field :
               WithSettings(n + 1)[f] =
                  IF f = setting.flag THEN Value(ParseInt, f, Meant(setting))
                  ELSE WithSettings(n)[f]
<1> SUFFICES ASSUME NEW f \in Field
             PROVE  WithSettings(n + 1)[f] =
                      IF f = typed[n + 1].flag THEN Value(ParseInt, f, Meant(typed[n + 1]))
                      ELSE WithSettings(n)[f]
  OBVIOUS
<1> DEFINE mine(k) == TypedFor(f) \cap 1..k
<1>1. typed \in Seq(Setting) /\ n \in Nat /\ n + 1 \in 1..Len(typed) /\ DOMAIN typed = 1..Len(typed)
  <2>1. typed \in Seq(Setting)
    BY DEF LoadTypeOK
  <2> QED BY <2>1
<1>2. \A k : WithSettings(k)[f] = IF mine(k) = {} THEN FromEnvironment[f]
                                  ELSE Value(ParseInt, f, Meant(typed[Max(mine(k))]))
  BY DEF WithSettings
<1>3. CASE f = typed[n + 1].flag
  <2>1. mine(n + 1) \in SUBSET (0..n + 1) /\ n + 1 \in mine(n + 1)
    BY <1>1, <1>3 DEF TypedFor
  <2>2. Max(mine(n + 1)) = n + 1
    <3>1. Max(mine(n + 1)) \in mine(n + 1) /\ \A k \in mine(n + 1) : Max(mine(n + 1)) >= k
      <4>1. n + 1 \in Nat /\ mine(n + 1) # {}
        BY <1>1, <2>1
      <4> HIDE DEF mine
      <4> QED BY <2>1, <4>1, LeastAndGreatest
    <3>2. Max(mine(n + 1)) \in 0..n + 1 /\ Max(mine(n + 1)) >= n + 1
      <4> HIDE DEF mine
      <4> QED BY <2>1, <3>1
    <3> HIDE DEF mine
    <3> QED BY <1>1, <3>2
  <2>3. mine(n + 1) # {}
    BY <2>1
  <2> HIDE DEF mine
  <2> QED BY <1>2, <1>3, <2>2, <2>3
<1>4. CASE f # typed[n + 1].flag
  <2>1. mine(n + 1) = mine(n)
    BY <1>1, <1>4 DEF TypedFor
  <2> HIDE DEF mine
  <2> QED BY <1>2, <1>4, <2>1
<1> QED BY <1>3, <1>4

\* The layer of the flags keeps the types.
LEMMA FlagTextIsText ==
  ASSUME LoadTypeOK, FlagNext, Given PROVE FlagText \in Text
<1>1. rest \in Seq(Word) /\ rest # <<>> /\ Len(rest) \in Nat /\ Len(rest) >= 1
  <2>1. rest \in Seq(Word) /\ rest # <<>>
    BY DEF LoadTypeOK, FlagNext
  <2> QED BY <2>1
<1>2. FlagWord \in Word
  <2>1. rest[1] \in Word
    BY <1>1
  <2> QED BY <1>1, <2>1 DEF FlagWord
<1>3. TrueText \in Text
  <2>1. "t" \in Character
    BY ConfigAssumption
  <2> QED BY <2>1 DEF TrueText, Text
<1>4. TakesNext(FlagWord) => TextOf(rest[2]) \in Text
  <2> SUFFICES ASSUME TakesNext(FlagWord) PROVE TextOf(rest[2]) \in Text
    OBVIOUS
  <2>1. 2 \in 1..Len(rest)
    BY <1>1 DEF Given
  <2>2. rest[2] \in Word
    BY <1>1, <2>1
  <2> QED BY <2>2, TextOfWord
<1>5. FlagWord.value \in Text
  BY <1>2 DEF Word
<1> QED BY <1>3, <1>4, <1>5 DEF FlagText

LEMMA FlagRefusedStep == ASSUME LoadInv, FlagRefused PROVE LoadInv'
<1>1. /\ UNCHANGED <<inputs, cfg, configPath, rest>> /\ step = "flags"
      /\ step' \in {"exit 0", "exit 2"} /\ rest # <<>> /\ ~ FlagValid
  BY DEF FlagRefused, FlagNext, Fail
<1>2. LoadTypeOK /\ (Unambiguous => configPath = NamedFile /\ BetweenSettings)
  BY <1>1 DEF LoadInv
<1>3. LoadTypeOK'
  BY <1>1, <1>2, InputsStay DEF LoadTypeOK, IsLayer
<1>4. Unambiguous' => configPath' = NamedFile'
  BY <1>1, <1>2, InputsStay
<1>5. ErrorsAreMistakes'
  <2> SUFFICES ASSUME Unambiguous
               PROVE  \E k \in DOMAIN typed' :
                         ~ Converts(ParseInt, typed'[k].flag, Meant(typed'[k]))
    BY <1>1, InputsStay DEF ErrorsAreMistakes
  <2>1. PICK n \in 0..Len(typed) : rest = SubSeq(Args, Len(FirstWords(typed, n)) + 1, Len(Args))
    BY <1>2 DEF BetweenSettings
  <2>2. /\ n + 1 \in 1..Len(typed) /\ typed[n + 1].flag \in Flag
        /\ FlagWord.flag = typed[n + 1].flag /\ Given /\ FlagText = Meant(typed[n + 1])
    BY <1>1, <1>2, <2>1, ReadsSetting
  <2>3. ~ Converts(ParseInt, typed[n + 1].flag, Meant(typed[n + 1]))
    BY <1>1, <2>2 DEF FlagValid
  <2>4. n + 1 \in DOMAIN typed
    <3>1. typed \in Seq(Setting)
      BY <1>2 DEF LoadTypeOK
    <3> QED BY <2>2, <3>1
  <2> QED BY <1>1, <2>3, <2>4, InputsStay
<1> QED BY <1>1, <1>3, <1>4, <1>5 DEF LoadInv, PrefixesGiveSubjects

LEMMA ParseFlagStep == ASSUME LoadInv, ParseFlag PROVE LoadInv'
<1> DEFINE f == FlagWord.flag
           next == IF TakesNext(FlagWord) THEN 3 ELSE 2
<1>1. /\ UNCHANGED <<inputs, configPath, step>> /\ step = "flags" /\ rest # <<>> /\ FlagValid
      /\ rest' = SubSeq(rest, next, Len(rest))
      /\ cfg' = IF f = "config" THEN cfg
                ELSE [cfg EXCEPT ![f] = Value(ParseInt, f, FlagText)]
  BY DEF ParseFlag, FlagNext
<1>2. /\ LoadTypeOK /\ (Unambiguous => configPath = NamedFile /\ BetweenSettings)
      /\ configPath = <<>> \/ Readable
  BY <1>1 DEF LoadInv
<1>3. f \in Flag /\ Given /\ (f = "config" \/ f \in Field) /\ "config" \notin Field
  BY <1>1, ConfigAssumption DEF FlagValid, Flag
<1>4. FlagText \in Text
  BY <1>2, <1>3, FlagTextIsText DEF ParseFlag
<1> HIDE DEF f
<1>5. DOMAIN cfg' = Field /\ IsLayer(cfg')
  <2>1. DOMAIN cfg = Field /\ IsLayer(cfg)
    BY <1>2 DEF LoadTypeOK
  <2>2. CASE f = "config"
    BY <1>1, <2>1, <2>2
  <2>3. CASE f # "config"
    <3>1. DOMAIN cfg' = Field
      BY <1>1, <2>1, <2>3
    <3>2. ASSUME NEW g \in Field \cap PrefixField PROVE cfg'[g] \in Text
      <4>1. cfg[g] \in Text
        BY <2>1 DEF IsLayer
      <4>2. CASE g = f
        BY <1>1, <1>4, <2>1, <2>3, <4>2, PrefixValue
      <4>3. CASE g # f
        BY <1>1, <2>1, <2>3, <4>1, <4>3
      <4> QED BY <4>2, <4>3
    <3> QED BY <3>1, <3>2 DEF IsLayer
  <2> QED BY <2>2, <2>3
<1>6. rest' \in Seq(Word)
  <2>1. rest \in Seq(Word)
    BY <1>2 DEF LoadTypeOK
  <2>2. next \in 1..3
    OBVIOUS
  <2> HIDE DEF next
  <2> QED BY <1>1, <2>1, <2>2
<1>7. LoadTypeOK'
  BY <1>1, <1>2, <1>5, <1>6, InputsStay DEF LoadTypeOK, IsLayer
<1>8. Unambiguous' => configPath' = NamedFile'
  BY <1>1, <1>2, InputsStay
<1>9. configPath' = <<>> \/ Readable'
  BY <1>1, <1>2, LayersStay
<1>10. ASSUME Unambiguous PROVE BetweenSettings'
  <2>1. PICK n \in 0..Len(typed) :
           /\ rest = SubSeq(Args, Len(FirstWords(typed, n)) + 1, Len(Args))
           /\ cfg = WithSettings(n)
    BY <1>2, <1>10 DEF BetweenSettings
  <2>2. /\ n + 1 \in 1..Len(typed) /\ f = typed[n + 1].flag /\ FlagText = Meant(typed[n + 1])
        /\ SubSeq(rest, next, Len(rest)) =
              SubSeq(Args, Len(FirstWords(typed, n + 1)) + 1, Len(Args))
    BY <1>1, <1>2, <1>10, <2>1, ReadsSetting DEF f
  <2>3. rest' = SubSeq(Args', Len(FirstWords(typed', n + 1)) + 1, Len(Args'))
    <3> HIDE DEF next
    <3> QED BY <1>1, <2>2, InputsStay
  <2>4. cfg' = WithSettings(n + 1)
    <3>1. n \in 0..Len(typed) - 1
      BY <2>1, <2>2
    <3>2. \A g \in Field : WithSettings(n + 1)[g] =
             IF g = f THEN Value(ParseInt, g, FlagText) ELSE WithSettings(n)[g]
      BY <1>2, <2>2, <3>1, OneApplied
    <3>3. \A g \in Field : cfg'[g] = WithSettings(n + 1)[g]
      <4> SUFFICES ASSUME NEW g \in Field PROVE cfg'[g] = WithSettings(n + 1)[g]
        OBVIOUS
      <4>1. DOMAIN cfg = Field
        BY <1>2 DEF LoadTypeOK
      <4>2. CASE g = f
        BY <1>1, <1>3, <3>2, <4>1, <4>2
      <4>3. CASE g # f
        BY <1>1, <2>1, <3>2, <4>1, <4>3
      <4> QED BY <4>2, <4>3
    <3>4. /\ cfg' = [g \in Field |-> cfg'[g]]
          /\ WithSettings(n + 1) = [g \in Field |-> WithSettings(n + 1)[g]]
      <4>1. DOMAIN cfg = Field /\ cfg = WithSettings(n)
        BY <1>2, <2>1 DEF LoadTypeOK
      <4>2. \A k : WithSettings(k) = [g \in Field |-> WithSettings(k)[g]]
        BY DEF WithSettings
      <4>3. cfg = [g \in Field |-> cfg[g]]
        BY <4>1, <4>2
      <4>4. cfg' = [g \in Field |-> cfg'[g]]
        BY <1>1, <4>1, <4>3
      <4> QED BY <4>2, <4>4
    <3> QED BY <3>3, <3>4
  <2>5. cfg' = WithSettings(n + 1)'
    BY <1>1, <2>4, LayersStay
  <2>6. n + 1 \in 0..Len(typed')
    BY <1>1, <2>2, InputsStay
  <2> QED BY <2>3, <2>5, <2>6 DEF BetweenSettings
<1>11. Unambiguous' => BetweenSettings'
  BY <1>1, <1>10, InputsStay
<1> QED BY <1>1, <1>7, <1>8, <1>9, <1>11 DEF LoadInv, ErrorsAreMistakes, PrefixesGiveSubjects

LEMMA ParseEndsStep == ASSUME LoadInv, ParseEnds PROVE LoadInv'
<1>1. /\ UNCHANGED <<inputs, cfg, configPath, rest>> /\ step = "flags" /\ step' = "prefixes"
      /\ rest # <<>> => EndsFlags(FlagWord)
  BY DEF ParseEnds
<1>2. /\ LoadTypeOK /\ (Unambiguous => configPath = NamedFile /\ BetweenSettings)
      /\ configPath = <<>> \/ Readable
  BY <1>1 DEF LoadInv
<1>3. LoadTypeOK'
  BY <1>1, <1>2, InputsStay DEF LoadTypeOK, IsLayer
<1>4. Unambiguous' => configPath' = NamedFile'
  BY <1>1, <1>2, InputsStay
<1>5. configPath' = <<>> \/ Readable'
  BY <1>1, <1>2, LayersStay
<1>6. ASSUME Unambiguous PROVE cfg = WithSettings(Len(typed))
  <2>1. PICK n \in 0..Len(typed) :
           /\ rest = SubSeq(Args, Len(FirstWords(typed, n)) + 1, Len(Args))
           /\ cfg = WithSettings(n)
    BY <1>2, <1>6 DEF BetweenSettings
  <2>2. rest = <<>>
    BY <1>1, <1>2, <1>6, <2>1, ReadsSetting
  <2>3. Len(typed) \in Nat /\ Len(rest) = 0
    <3>1. typed \in Seq(Setting)
      BY <1>2 DEF LoadTypeOK
    <3> QED BY <2>2, <3>1
  <2>4. n \notin 0..Len(typed) - 1
    <3> SUFFICES ASSUME n \in 0..Len(typed) - 1 PROVE FALSE
      OBVIOUS
    <3> DEFINE words == WordsOf(typed[n + 1])
    <3>1. Len(rest) >= Len(words) /\ Len(words) >= 1 /\ typed[n + 1] \in Setting
      BY <1>2, <1>6, <2>1, AtSetting
    <3>2. Len(words) = 1 \/ Len(words) = 2
      BY <3>1, WordsOfSetting
    <3> HIDE DEF words
    <3> QED BY <2>3, <3>1, <3>2
  <2>5. n = Len(typed)
    BY <2>3, <2>4
  <2> QED BY <2>1, <2>5
<1>7. Unambiguous' => cfg' = WithSettings(Len(typed))'
  BY <1>1, <1>6, InputsStay, LayersStay
<1> QED BY <1>1, <1>3, <1>4, <1>5, <1>7 DEF LoadInv, ErrorsAreMistakes, PrefixesGiveSubjects

LEMMA PrefixRefusedStep == ASSUME LoadInv, PrefixRefused PROVE LoadInv'
<1>1. UNCHANGED <<inputs, cfg, configPath, rest>> /\ step = "prefixes" /\ step' = "exit 2"
  BY DEF PrefixRefused, Fail
<1>2. /\ LoadTypeOK /\ (configPath = <<>> \/ Readable)
      /\ Unambiguous => (configPath = NamedFile /\ cfg = WithSettings(Len(typed)))
  BY <1>1 DEF LoadInv
<1>3. LoadTypeOK'
  BY <1>1, <1>2, InputsStay DEF LoadTypeOK, IsLayer
<1>4. Unambiguous' => configPath' = NamedFile'
  BY <1>1, <1>2, InputsStay
<1>5. ErrorsAreMistakes'
  <2>1. PICK f \in PrefixField : ~ ValidPrefix(cfg[f])
    BY DEF PrefixRefused
  <2>2. cfg[f] \in Seq(Character) /\ f \in Field
    BY <1>2 DEF LoadTypeOK, IsLayer, Text, Field
  <2>3. cfg[f] # <<>> /\ ~ Publishable(cfg[f])
    BY <2>1, <2>2, ValidIsPublishable DEF ValidPrefix
  <2>4. Unambiguous => cfg[f] = Resolved(f)
    BY <1>2, <2>2, AllSettings
  <2> SUFFICES ASSUME Unambiguous'
               PROVE  \E g \in PrefixField : Resolved(g)' # <<>> /\ ~ Publishable(Resolved(g)')
    BY DEF ErrorsAreMistakes, Publishable
  <2> QED BY <1>1, <2>3, <2>4, InputsStay
<1> QED BY <1>1, <1>3, <1>4, <1>5 DEF LoadInv, PrefixesGiveSubjects

LEMMA LoadedStep == ASSUME LoadInv, Loaded PROVE LoadInv'
<1>1. /\ UNCHANGED <<inputs, cfg, configPath, rest>> /\ step = "prefixes" /\ step' = "loaded"
      /\ \A f \in PrefixField : ValidPrefix(cfg[f])
  BY DEF Loaded
<1>2. /\ LoadTypeOK /\ (configPath = <<>> \/ Readable)
      /\ Unambiguous => (configPath = NamedFile /\ cfg = WithSettings(Len(typed)))
  BY <1>1 DEF LoadInv
<1>3. LoadTypeOK'
  BY <1>1, <1>2, InputsStay DEF LoadTypeOK, IsLayer
<1>4. Unambiguous' => configPath' = NamedFile' /\ cfg' = WithSettings(Len(typed))'
  BY <1>1, <1>2, InputsStay, LayersStay
<1>5. configPath' = <<>> \/ Readable'
  BY <1>1, <1>2, LayersStay
<1>6. PrefixesGiveSubjects'
  <2> SUFFICES ASSUME NEW f \in PrefixField, cfg[f] # <<>> PROVE Publishable(cfg[f])
    BY <1>1 DEF PrefixesGiveSubjects
  <2>1. cfg[f] \in Seq(Character)
    BY <1>2 DEF LoadTypeOK, IsLayer, Text, Field
  <2> QED BY <1>1, <2>1, ValidIsPublishable
<1> QED BY <1>1, <1>3, <1>4, <1>5, <1>6 DEF LoadInv, ErrorsAreMistakes

\* Stage by stage, what the configuration is made of (config.go:80-152).
THEOREM LoadInvariant == Spec => []LoadInv
<1>1. LoadInv /\ [Next]_vars => LoadInv'
  <2> SUFFICES ASSUME LoadInv, [Next]_vars PROVE LoadInv'
    OBVIOUS
  <2>1. CASE UNCHANGED vars
    <3>1. UNCHANGED <<inputs, cfg, configPath, rest, configFlag, step>>
      BY <2>1 DEF vars
    <3>2. Args' = Args /\ typed' = typed
      BY <3>1, InputsStay
    <3>3. LoadTypeOK'
      BY <3>1, InputsStay DEF LoadInv, LoadTypeOK, IsLayer
    <3>4. BetweenSettings' <=> BetweenSettings
      BY <3>1, <3>2, LayersStay DEF BetweenSettings
    <3>5. ErrorsAreMistakes' /\ PrefixesGiveSubjects'
      BY <3>1, InputsStay DEF LoadInv, ErrorsAreMistakes, PrefixesGiveSubjects
    <3> QED BY <3>1, <3>2, <3>3, <3>4, <3>5, InputsStay, LayersStay DEF LoadInv
  <2> QED BY <2>1, PeekStep, FileRefusedStep, FileStep, EnvironmentStep, ParseFlagStep,
             FlagRefusedStep, ParseEndsStep, PrefixRefusedStep, LoadedStep DEF Next
<1> QED BY LoadInitially, <1>1, PTL DEF Spec

\* Flags over the environment over the file over the defaults, with the file that
\* was named, for every command line of settings (config.go:75-142).
THEOREM HighestLayerWins == Spec => []PriorityOrder
<1>1. LoadInv => PriorityOrder
  BY AllSettings DEF LoadInv, PriorityOrder
<1> QED BY <1>1, LoadInvariant, PTL

\* Exit status 2 tells of a file that cannot be read, a flag whose value does not
\* convert, or a prefix that gives no subject (config.go:80-152, main.go:21-28).
THEOREM OnlyMistakesFail == Spec => []ErrorsAreMistakes
<1>1. LoadInv => ErrorsAreMistakes
  BY DEF LoadInv
<1> QED BY <1>1, LoadInvariant, PTL

\* A prefix that is loaded and not empty gives legal subjects, whatever the layer
\* and whatever was typed (config.go:144-174).
THEOREM PrefixesPublish == Spec => []PrefixesGiveSubjects
<1>1. LoadInv => PrefixesGiveSubjects
  BY DEF LoadInv
<1> QED BY <1>1, LoadInvariant, PTL
=============================================================================
