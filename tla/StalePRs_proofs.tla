-------------------------- MODULE StalePRs_proofs --------------------------
(***************************************************************************)
(* Proofs about StalePRs, for any templates, pull requests, page size and  *)
(* number of acts.  Typed is inductive; StaleInv is inductive relative to  *)
(* it when pull requests are Recognisable: what a worker should find has   *)
(* been found, or has as many newer open ones before it as fill the pages  *)
(* that were read (Behind).  Pull requests that come only push it back;    *)
(* one that leaves could pull it forward, which is what `left' remembers.  *)
(***************************************************************************)
EXTENDS StalePRs, FiniteSetTheorems, SequenceTheorems, WellFoundedInduction, TLAPS

(* What a prefix is, part by part.                                         *)
LEMMA PrefixParts ==
    ASSUME NEW S, NEW s \in Seq(S), NEW u \in Seq(S), IsPrefix(s, u)
    PROVE  Len(s) <= Len(u) /\ \A i \in 1..Len(s) : s[i] = u[i]
<1>1. Len(s) <= Len(u) /\ SubSeq(s, 1, Len(s)) = SubSeq(u, 1, Len(s))
  BY DEF IsPrefix
<1>2. Len(s) \in Nat /\ Len(u) \in Nat
  BY LenProperties
<1>3. ASSUME NEW i \in 1..Len(s) PROVE s[i] = u[i]
  <2>1. SubSeq(s, 1, Len(s))[i] = s[i]
    BY <1>2, SubSeqFull
  <2>2. SubSeq(u, 1, Len(s))[i] = u[i]
    BY <1>1, <1>2, SubSeqProperties, ElementOfSeq
  <2> QED
    BY <1>1, <2>1, <2>2
<1> QED
  BY <1>1, <1>3

LEMMA PrefixOfConcat ==
    ASSUME NEW S, NEW s \in Seq(S), NEW u \in Seq(S)
    PROVE  IsPrefix(s, s \o u)
<1>1. Len(s) \in Nat /\ Len(u) \in Nat
  BY LenProperties
<1>2. s \o u \in Seq(S) /\ Len(s \o u) = Len(s) + Len(u)
      /\ \A i \in 1..Len(s) : (s \o u)[i] = s[i]
  BY <1>1, ConcatProperties
<1>3. SubSeq(s, 1, Len(s)) = s
  BY SubSeqFull
<1>4. SubSeq(s \o u, 1, Len(s)) = s
  <2>1. \A i \in 1..Len(s) : (s \o u)[i] \in S
    BY <1>2, ElementOfSeq
  <2>2. /\ SubSeq(s \o u, 1, Len(s)) \in Seq(S)
        /\ Len(SubSeq(s \o u, 1, Len(s))) = Len(s)
        /\ \A i \in 1..Len(s) : SubSeq(s \o u, 1, Len(s))[i] = (s \o u)[i]
    BY <1>1, <2>1, SubSeqProperties
  <2> QED
    BY <1>2, <2>2, SeqEqual
<1> QED
  BY <1>1, <1>2, <1>3, <1>4 DEF IsPrefix

(* Branches and titles are a name between two fixed parts.                 *)
LEMMA Wrapped ==
    ASSUME NEW S, NEW pre \in Seq(S), NEW name \in Seq(S), NEW post \in Seq(S)
    PROVE  /\ pre \o name \o post \in Seq(S)
           /\ Len(pre \o name \o post) = Len(pre) + Len(name) + Len(post)
           /\ \A i \in 1..Len(pre) : (pre \o name \o post)[i] = pre[i]
           /\ \A i \in 1..Len(name) : (pre \o name \o post)[Len(pre) + i] = name[i]
           /\ \A i \in 1..Len(post) :
                 (pre \o name \o post)[Len(pre) + Len(name) + i] = post[i]
<1> DEFINE p == pre \o name
           w == p \o post
           k == Len(pre)
<1>1. k \in Nat /\ Len(name) \in Nat /\ Len(post) \in Nat
  BY LenProperties
<1>2. /\ p \in Seq(S) /\ Len(p) = k + Len(name)
      /\ \A i \in 1..k + Len(name) :
            p[i] = IF i <= k THEN pre[i] ELSE name[i - k]
  BY ConcatProperties
<1>3. /\ w \in Seq(S) /\ Len(w) = Len(p) + Len(post)
      /\ \A i \in 1..Len(p) + Len(post) :
            w[i] = IF i <= Len(p) THEN p[i] ELSE post[i - Len(p)]
  BY <1>2, ConcatProperties
<1> HIDE DEF p, w, k
<1>4. \A i \in 1..k : w[i] = pre[i]
  BY <1>1, <1>2, <1>3
<1>5. ASSUME NEW i \in 1..Len(name) PROVE w[k + i] = name[i]
  <2>1. k + i \in 1..k + Len(name) /\ ~(k + i <= k) /\ (k + i) - k = i
    BY <1>1
  <2> QED
    BY <1>1, <1>2, <1>3, <2>1
<1>6. ASSUME NEW i \in 1..Len(post) PROVE w[k + Len(name) + i] = post[i]
  <2> DEFINE n == k + Len(name) + i
  <2>1. n \in 1..Len(p) + Len(post) /\ ~(n <= Len(p)) /\ n - Len(p) = i
    BY <1>1, <1>2
  <2> HIDE DEF n
  <2>2. w[n] = post[i]
    BY <1>3, <2>1
  <2> QED
    BY <2>2 DEF n
<1> QED
  BY <1>1, <1>2, <1>3, <1>4, <1>5, <1>6 DEF p, w, k

(* A name of one part and a name of two.                                   *)
LEMMA OnePart == ASSUME NEW S, NEW a \in S
                 PROVE  <<a>> \in Seq(S) /\ Len(<<a>>) = 1 /\ <<a>>[1] = a
OBVIOUS
LEMMA TwoParts == ASSUME NEW S, NEW a \in S, NEW b \in S
                  PROVE  /\ <<a, b>> \in Seq(S) /\ Len(<<a, b>>) = 2
                         /\ <<a, b>>[1] = a /\ <<a, b>>[2] = b
OBVIOUS

(* The provers do not know that a literal is a string.                     *)
Parts == STRING \cup {"/", "steerspec-sync/", Update, To, legacyTitlePrefix, "fix"}

LEMMA PartsTyped ==
    /\ \A s \in Seq(STRING) : s \in Seq(Parts)
    /\ {"/", "steerspec-sync/", Update, To, legacyTitlePrefix, "fix"} \subseteq Parts
    /\ Version \in Parts /\ Prefix \in Parts
<1>1. STRING \subseteq Parts
  BY DEF Parts
<1>2. \A s \in Seq(STRING) : s \in Seq(Parts)
  BY <1>1, SeqMonotonic
<1> QED
  BY <1>1, <1>2, StalePRsAssumption DEF Parts, StalePRsAssumption

(* A branch of one template is no branch of another one, however one id    *)
(* extends the other (isSyncBranchForTemplate).                            *)
LEMMA BranchOfOne ==
    ASSUME NEW id \in Seq(Parts), NEW t \in Seq(Parts), NEW v \in Parts,
           isSyncBranchForTemplate(SyncBranch(id, v), t)
    PROVE  t = id
<1> DEFINE head == SyncBranch(id, v)
           start == <<"steerspec-sync/">> \o t \o <<"/">>
<1>1. Len(id) \in Nat /\ Len(t) \in Nat
  BY LenProperties
<1>2. /\ head \in Seq(Parts) /\ Len(head) = Len(id) + 3
      /\ head[1 + Len(id) + 1] = "/"
      /\ \A i \in 1..Len(id) : head[1 + i] = id[i]
  <2> DEFINE pre == <<"steerspec-sync/">>
             post == <<"/", v>>
  <2>0. pre \in Seq(Parts) /\ post \in Seq(Parts)
    BY PartsTyped, OnePart, TwoParts
  <2>1. Len(pre) = 1 /\ Len(post) = 2 /\ post[1] = "/"
    BY PartsTyped, OnePart, TwoParts
  <2> HIDE DEF pre, post, head
  <2>2. /\ pre \o id \o post \in Seq(Parts) /\ Len(pre \o id \o post) = Len(pre) + Len(id) + Len(post)
        /\ \A i \in 1..Len(pre) : (pre \o id \o post)[i] = pre[i]
        /\ \A i \in 1..Len(id) : (pre \o id \o post)[Len(pre) + i] = id[i]
        /\ \A i \in 1..Len(post) : (pre \o id \o post)[Len(pre) + Len(id) + i] = post[i]
    BY <2>0, Wrapped
  <2>3. /\ head \in Seq(Parts) /\ Len(head) = Len(pre) + Len(id) + Len(post)
        /\ \A i \in 1..Len(pre) : head[i] = pre[i]
        /\ \A i \in 1..Len(id) : head[Len(pre) + i] = id[i]
        /\ \A i \in 1..Len(post) : head[Len(pre) + Len(id) + i] = post[i]
    BY <2>2 DEF pre, post, head, SyncBranch
  <2> QED
    BY <1>1, <2>1, <2>3
<1>3. /\ start \in Seq(Parts) /\ Len(start) = Len(t) + 2
      /\ \A i \in 1..Len(t) : start[1 + i] = t[i]
  <2> DEFINE pre == <<"steerspec-sync/">>
             post == <<"/">>
  <2>0. pre \in Seq(Parts) /\ post \in Seq(Parts)
    BY PartsTyped, OnePart
  <2>1. Len(pre) = 1 /\ Len(post) = 1
    BY PartsTyped, OnePart
  <2> HIDE DEF pre, post, start
  <2>2. /\ pre \o t \o post \in Seq(Parts) /\ Len(pre \o t \o post) = Len(pre) + Len(t) + Len(post)
        /\ \A i \in 1..Len(pre) : (pre \o t \o post)[i] = pre[i]
        /\ \A i \in 1..Len(t) : (pre \o t \o post)[Len(pre) + i] = t[i]
        /\ \A i \in 1..Len(post) : (pre \o t \o post)[Len(pre) + Len(t) + i] = post[i]
    BY <2>0, Wrapped
  <2>3. /\ start \in Seq(Parts) /\ Len(start) = Len(pre) + Len(t) + Len(post)
        /\ \A i \in 1..Len(pre) : start[i] = pre[i]
        /\ \A i \in 1..Len(t) : start[Len(pre) + i] = t[i]
        /\ \A i \in 1..Len(post) : start[Len(pre) + Len(t) + i] = post[i]
    BY <2>2 DEF pre, post, start
  <2> QED
    BY <1>1, <2>1, <2>3
<1>4. /\ IsPrefix(start, head)
      /\ Rest(head, start) # <<>>
      /\ "/" \notin ToSet(Rest(head, start))
  BY DEF isSyncBranchForTemplate
<1> HIDE DEF head, start
<1>5. Len(start) <= Len(head) /\ \A i \in 1..Len(start) : start[i] = head[i]
  BY <1>2, <1>3, <1>4, PrefixParts
<1>6. /\ Len(Rest(head, start)) = Len(head) - Len(start)
      /\ Rest(head, start) \in Seq(Parts)
      /\ \A i \in 1..Len(head) - Len(start) : Rest(head, start)[i] = head[Len(start) + i]
  <2>1. \A i \in Len(start) + 1..Len(head) : head[i] \in Parts
    BY <1>1, <1>2, <1>3, ElementOfSeq
  <2> QED
    BY <1>1, <1>2, <1>3, <1>5, <2>1, SubSeqProperties DEF Rest
<1>7. Len(head) > Len(start)
  BY <1>1, <1>2, <1>3, <1>4, <1>5, <1>6, EmptySeq
<1>8. ASSUME Len(t) < Len(id) PROVE FALSE
  <2> DEFINE k == Len(id) - Len(t)
  <2>1. k \in 1..Len(head) - Len(start) /\ Len(start) + k = 1 + Len(id) + 1
    BY <1>1, <1>2, <1>3, <1>8
  <2>2. Rest(head, start)[k] = "/"
    BY <1>2, <1>6, <2>1
  <2>3. k \in DOMAIN Rest(head, start)
    BY <1>6, <2>1, LenProperties
  <2> QED
    BY <1>4, <2>2, <2>3 DEF ToSet
<1>9. Len(t) = Len(id)
  BY <1>1, <1>2, <1>3, <1>7, <1>8
<1>10. ASSUME NEW i \in 1..Len(t) PROVE t[i] = id[i]
  <2>1. 1 + i \in 1..Len(start) /\ i \in 1..Len(id)
    BY <1>1, <1>3, <1>9
  <2> QED
    BY <1>2, <1>3, <1>5, <2>1
<1> QED
  BY <1>9, <1>10, SeqEqual

(* A branch that is opened for a template is one of that template.         *)
LEMMA BranchIsOwn ==
    ASSUME NEW t \in Seq(Parts), NEW v \in Parts, v # "/"
    PROVE  isSyncBranchForTemplate(SyncBranch(t, v), t)
<1> DEFINE pre == <<"steerspec-sync/">> \o t
           start == pre \o <<"/">>
           head == SyncBranch(t, v)
<1>1. /\ pre \in Seq(Parts) /\ <<"/">> \in Seq(Parts) /\ <<v>> \in Seq(Parts)
      /\ Len(<<v>>) = 1 /\ <<v>>[1] = v
  BY PartsTyped, OnePart, ConcatProperties
<1>2. start \in Seq(Parts) /\ Len(start) \in Nat
  BY <1>1, ConcatProperties, LenProperties
<1>3. head = start \o <<v>>
  <2>1. <<"/">> \o <<v>> = <<"/", v>>
    <3>1. /\ <<"/", v>> \in Seq(Parts) /\ Len(<<"/", v>>) = 2
          /\ <<"/", v>>[1] = "/" /\ <<"/", v>>[2] = v
      BY PartsTyped, TwoParts
    <3> DEFINE a == <<"/">>
               b == <<v>>
    <3>2. a \in Seq(Parts) /\ b \in Seq(Parts) /\ Len(a) = 1 /\ Len(b) = 1 /\ a[1] = "/" /\ b[1] = v
      BY PartsTyped, OnePart
    <3> HIDE DEF a, b
    <3>3. /\ a \o b \in Seq(Parts) /\ Len(a \o b) = 2
          /\ (a \o b)[1] = "/" /\ (a \o b)[2] = v
      <4>1. /\ a \o b \in Seq(Parts) /\ Len(a \o b) = Len(a) + Len(b)
            /\ \A i \in 1..Len(a) + Len(b) : (a \o b)[i] =
                  IF i <= Len(a) THEN a[i] ELSE b[i - Len(a)]
        BY <3>2, ConcatProperties, Zenon
      <4> DEFINE c == a \o b
      <4> HIDE DEF c
      <4>2. /\ c \in Seq(Parts) /\ Len(c) = Len(a) + Len(b)
            /\ \A i \in 1..Len(a) + Len(b) : c[i] =
                  IF i <= Len(a) THEN a[i] ELSE b[i - Len(a)]
        BY <4>1 DEF c
      <4>3. c \in Seq(Parts) /\ Len(c) = 2 /\ c[1] = "/" /\ c[2] = v
        BY <3>2, <4>2
      <4> QED
        BY <4>3 DEF c
    <3>4. a \o b = <<"/", v>>
      <4>1. \A i \in 1..2 : (a \o b)[i] = <<"/", v>>[i]
        BY <3>1, <3>3
      <4> QED
        BY <3>1, <3>3, <4>1, SeqEqual
    <3> QED
      BY <3>4 DEF a, b
  <2>2. head = pre \o <<"/", v>>
    BY DEF SyncBranch
  <2> HIDE DEF pre, head
  <2> QED
    BY <1>1, <2>1, <2>2, ConcatAssociative
<1> HIDE DEF start, head
<1>4. IsPrefix(start, head)
  BY <1>1, <1>2, <1>3, PrefixOfConcat
<1>5. /\ Len(head) = Len(start) + 1 /\ head[Len(start) + 1] = v
  BY <1>1, <1>2, <1>3, ConcatProperties
<1>6. /\ Rest(head, start) \in Seq(Parts) /\ Len(Rest(head, start)) = 1
      /\ Rest(head, start)[1] = v
  BY <1>2, <1>5, SubSeqProperties DEF Rest
<1>7. DOMAIN Rest(head, start) = {1}
  BY <1>6, LenProperties
<1> QED
  BY <1>4, <1>6, <1>7, EmptySeq DEF isSyncBranchForTemplate, ToSet, start, head

(* A title of one template is no title of another one, if no id has a part To   *)
(* in it (isSyncPRForTemplate).                                            *)
LEMMA TitleOfOne ==
    ASSUME NEW id \in Seq(Parts), NEW t \in Seq(Parts), NEW p \in Parts, NEW v \in Parts,
           To \notin ToSet(id), To \notin ToSet(t), p # legacyTitlePrefix,
           isSyncPRForTemplate(updateMessage(p, id, v), t)
    PROVE  t = id
<1> DEFINE title == updateMessage(p, id, v)
           start == <<Prefix, Update>> \o t \o <<To>>
<1>1. Len(id) \in Nat /\ Len(t) \in Nat
  BY LenProperties
<1>2. /\ title \in Seq(Parts) /\ Len(title) = Len(id) + 4
      /\ title[1] = p /\ title[2 + Len(id) + 1] = To
      /\ \A i \in 1..Len(id) : title[2 + i] = id[i]
  <2> DEFINE pre == <<p, Update>>
             post == <<To, v>>
  <2>0. pre \in Seq(Parts) /\ post \in Seq(Parts)
    BY PartsTyped, TwoParts
  <2>1. Len(pre) = 2 /\ Len(post) = 2 /\ pre[1] = p /\ post[1] = To
    BY PartsTyped, TwoParts
  <2> HIDE DEF pre, post, title
  <2>2. /\ pre \o id \o post \in Seq(Parts) /\ Len(pre \o id \o post) = Len(pre) + Len(id) + Len(post)
        /\ \A i \in 1..Len(pre) : (pre \o id \o post)[i] = pre[i]
        /\ \A i \in 1..Len(id) : (pre \o id \o post)[Len(pre) + i] = id[i]
        /\ \A i \in 1..Len(post) : (pre \o id \o post)[Len(pre) + Len(id) + i] = post[i]
    BY <2>0, Wrapped
  <2>3. /\ title \in Seq(Parts) /\ Len(title) = Len(pre) + Len(id) + Len(post)
        /\ \A i \in 1..Len(pre) : title[i] = pre[i]
        /\ \A i \in 1..Len(id) : title[Len(pre) + i] = id[i]
        /\ \A i \in 1..Len(post) : title[Len(pre) + Len(id) + i] = post[i]
    BY <2>2 DEF pre, post, title, updateMessage
  <2> QED
    BY <1>1, <2>1, <2>3
<1>3. /\ start \in Seq(Parts) /\ Len(start) = Len(t) + 3 /\ start[2 + Len(t) + 1] = To
      /\ \A i \in 1..Len(t) : start[2 + i] = t[i]
  <2> DEFINE pre == <<Prefix, Update>>
             post == <<To>>
  <2>0. pre \in Seq(Parts) /\ post \in Seq(Parts)
    BY PartsTyped, OnePart, TwoParts
  <2>1. Len(pre) = 2 /\ Len(post) = 1 /\ post[1] = To
    BY PartsTyped, OnePart, TwoParts
  <2> HIDE DEF pre, post, start
  <2>2. /\ pre \o t \o post \in Seq(Parts) /\ Len(pre \o t \o post) = Len(pre) + Len(t) + Len(post)
        /\ \A i \in 1..Len(pre) : (pre \o t \o post)[i] = pre[i]
        /\ \A i \in 1..Len(t) : (pre \o t \o post)[Len(pre) + i] = t[i]
        /\ \A i \in 1..Len(post) : (pre \o t \o post)[Len(pre) + Len(t) + i] = post[i]
    BY <2>0, Wrapped
  <2>3. /\ start \in Seq(Parts) /\ Len(start) = Len(pre) + Len(t) + Len(post)
        /\ \A i \in 1..Len(pre) : start[i] = pre[i]
        /\ \A i \in 1..Len(t) : start[Len(pre) + i] = t[i]
        /\ \A i \in 1..Len(post) : start[Len(pre) + Len(t) + i] = post[i]
    BY <2>2 DEF pre, post, start
  <2> QED
    BY <1>1, <2>1, <2>3
<1>4. ASSUME IsPrefix(legacyTitle(t), title) PROVE FALSE
  <2> DEFINE old == <<legacyTitlePrefix>> \o t
  <2>1. /\ <<legacyTitlePrefix>> \in Seq(Parts) /\ Len(<<legacyTitlePrefix>>) = 1
        /\ <<legacyTitlePrefix>>[1] = legacyTitlePrefix
    BY PartsTyped, OnePart
  <2>2. old \in Seq(Parts) /\ Len(old) = 1 + Len(t) /\ old[1] = legacyTitlePrefix
    BY <1>1, <2>1, ConcatProperties
  <2>3. IsPrefix(old, title)
    BY <1>4 DEF legacyTitle
  <2> HIDE DEF old, title
  <2>4. old[1] = title[1]
    BY <1>1, <1>2, <2>2, <2>3, PrefixParts
  <2> QED
    BY <1>2, <2>2, <2>4
<1>5. IsPrefix(start, title)
  BY <1>4 DEF isSyncPRForTemplate
<1> HIDE DEF title, start
<1>6. Len(start) <= Len(title) /\ \A i \in 1..Len(start) : start[i] = title[i]
  BY <1>2, <1>3, <1>5, PrefixParts
<1>7. ASSUME Len(t) < Len(id) PROVE FALSE
  <2>1. Len(t) + 1 \in 1..Len(id) /\ 2 + Len(t) + 1 \in 1..Len(start) /\ 2 + (Len(t) + 1) = 2 + Len(t) + 1
    BY <1>1, <1>3, <1>7
  <2>2. id[Len(t) + 1] = To
    BY <1>2, <1>3, <1>6, <2>1
  <2> QED
    BY <2>1, <2>2, LenProperties DEF ToSet
<1>8. ASSUME Len(t) > Len(id) PROVE FALSE
  <2>1. Len(id) + 1 \in 1..Len(t) /\ 2 + Len(id) + 1 \in 1..Len(start) /\ 2 + (Len(id) + 1) = 2 + Len(id) + 1
    BY <1>1, <1>3, <1>8
  <2>2. t[Len(id) + 1] = To
    BY <1>2, <1>3, <1>6, <2>1
  <2> QED
    BY <2>1, <2>2, LenProperties DEF ToSet
<1>9. Len(t) = Len(id)
  BY <1>1, <1>7, <1>8
<1>10. ASSUME NEW i \in 1..Len(t) PROVE t[i] = id[i]
  <2>1. 2 + i \in 1..Len(start) /\ i \in 1..Len(id)
    BY <1>1, <1>3, <1>9
  <2> QED
    BY <1>2, <1>3, <1>6, <2>1
<1> QED
  BY <1>9, <1>10, SeqEqual

-----------------------------------------------------------------------------
(* Whose a pull request is.                                                *)

(* The branch or the title of k is one of template t, and of no other.     *)
Looks(t, k) == isSyncBranchForTemplate(k.head, t) \/ isSyncPRForTemplate(k.title, t)
Told(k) == \A t \in Templates : Looks(t, k) <=> k.template = t

(* k was opened under some title prefix for some version, as updateMessage *)
(* and the branch name are now.                                            *)
Named(k) == \E p \in Parts, v \in Parts :
    /\ p # legacyTitlePrefix /\ v # "/" /\ k.template \in Ids
    /\ k.head = SyncBranch(k.template, v) /\ k.title = updateMessage(p, k.template, v)

(* No id has a part To, and those that were opened otherwise, by an        *)
(* earlier release or by people, look like their template's and no other.  *)
Recognisable ==
    /\ \A id \in Ids : To \notin ToSet(id)
    /\ Version # "/" /\ Prefix # legacyTitlePrefix
    /\ \A k \in Kinds : Named(k) \/ Told(k)

-----------------------------------------------------------------------------
(* The invariants.                                                         *)

Newer(S, n) == {k \in S : k > n}
Rank(S, n) == Cardinality(Newer(S, n))

(* What a worker has found is its own business, and is on the pages it has *)
(* read.                                                                   *)
Sound(w, len) ==
    /\ w.found \cup w.older \subseteq (1..len) \ {w.own}
    /\ w.page <= len + 1
    /\ w.phase = "done" => w.found = {}
    /\ w.phase \in {"open", "label"} => w.page = 1 /\ w.found = {} /\ w.older = {}
    /\ w.phase = "label" => w.own \in 1..len

(* The pull requests, with parts the provers know of.                      *)
PR == [template : Ids \cup {Nobody}, head : Seq(Parts), title : Seq(Parts),
       labelled : BOOLEAN]
Typed ==
    /\ prs \in Seq(PR) /\ open \subseteq 1..Len(prs) /\ acts \in 0..MaxActs
    /\ worker \in [Templates -> Worker]
    /\ \A t \in Templates : Sound(worker[t], Len(prs))

(* What a worker has found, and what it should find, is its template's.    *)
Mine(t, w, ps) == /\ \A n \in w.found \cup w.older : ps[n].template = t
                  /\ \A n \in w.older : ps[n].labelled

(* An older pull request that is open has been found, or is on a page that *)
(* has not been read.                                                      *)
Behind(w, there) == ~w.left =>
    /\ w.phase = "list" => \A n \in w.older \cap there :
          n \in w.found \/ Rank(there, n) >= (w.page - 1) * PageSize
    /\ w.phase = "close" => w.older \cap there \subseteq w.found \cup w.refused

StaleInv == /\ \A n \in 1..Len(prs) : Told(prs[n])
            /\ \A t \in Templates : Mine(t, worker[t], prs) /\ Behind(worker[t], open)

-----------------------------------------------------------------------------
(* What a pull request looks like.                                         *)

LEMMA IdsTyped == /\ \A id \in Ids : id \in Seq(Parts)
                  /\ Templates \subseteq Ids /\ Nobody \notin Ids
BY PartsTyped, StalePRsAssumption DEF StalePRsAssumption

(* What is opened as now looks like its template's and no other's.         *)
LEMMA NamedIsTold == ASSUME Recognisable, NEW k, Named(k) PROVE Told(k)
<1>1. PICK p \in Parts, v \in Parts :
         /\ p # legacyTitlePrefix /\ v # "/" /\ k.template \in Ids
         /\ k.head = SyncBranch(k.template, v) /\ k.title = updateMessage(p, k.template, v)
  BY DEF Named
<1> DEFINE id == k.template
<1>2. id \in Seq(Parts) /\ To \notin ToSet(id)
  BY <1>1, IdsTyped DEF Recognisable
<1> SUFFICES ASSUME NEW t \in Templates PROVE Looks(t, k) <=> id = t
  BY DEF Told
<1>3. t \in Seq(Parts) /\ To \notin ToSet(t)
  BY IdsTyped DEF Recognisable
<1>4. ASSUME Looks(t, k) PROVE id = t
  <2>1. CASE isSyncBranchForTemplate(SyncBranch(id, v), t)
    BY <1>1, <1>2, <1>3, <2>1, BranchOfOne
  <2>2. CASE isSyncPRForTemplate(updateMessage(p, id, v), t)
    BY <1>1, <1>2, <1>3, <2>2, TitleOfOne
  <2> QED
    BY <1>1, <1>4, <2>1, <2>2 DEF Looks
<1>5. ASSUME id = t PROVE Looks(t, k)
  <2>1. isSyncBranchForTemplate(SyncBranch(t, v), t)
    BY <1>1, <1>3, BranchIsOwn
  <2> QED
    BY <1>1, <1>5, <2>1 DEF Looks
<1> QED
  BY <1>4, <1>5

(* A pull request of people's looks like nobody's.                         *)
LEMMA FixIsTold == ASSUME NEW k, k.template = Nobody, k.head = <<"fix">>, k.title = <<"fix">>
                   PROVE  Told(k)
<1> SUFFICES ASSUME NEW t \in Templates PROVE ~Looks(t, k)
  BY IdsTyped DEF Told
<1> DEFINE fix == <<"fix">>
           branch == <<"steerspec-sync/">> \o t \o <<"/">>
           title == <<Prefix, Update>> \o t \o <<To>>
           old == <<legacyTitlePrefix>> \o t
<1>1. t \in Seq(Parts) /\ Len(t) \in Nat
  BY IdsTyped, LenProperties
<1>2. fix \in Seq(Parts) /\ Len(fix) = 1 /\ fix[1] = "fix"
  BY PartsTyped, OnePart
<1>3. branch \in Seq(Parts) /\ Len(branch) = Len(t) + 2
  <2> DEFINE pre == <<"steerspec-sync/">>
             post == <<"/">>
  <2>0. pre \in Seq(Parts) /\ post \in Seq(Parts)
    BY PartsTyped, OnePart
  <2>1. Len(pre) = 1 /\ Len(post) = 1
    BY PartsTyped, OnePart
  <2> HIDE DEF pre, post, branch
  <2>2. pre \o t \o post \in Seq(Parts) /\ Len(pre \o t \o post) = Len(pre) + Len(t) + Len(post)
    BY <1>1, <2>0, Wrapped
  <2>3. branch \in Seq(Parts) /\ Len(branch) = Len(pre) + Len(t) + Len(post)
    BY <2>2 DEF pre, post, branch
  <2> QED
    BY <1>1, <2>1, <2>3
<1>4. title \in Seq(Parts) /\ Len(title) = Len(t) + 3
  <2> DEFINE pre == <<Prefix, Update>>
             post == <<To>>
  <2>0. pre \in Seq(Parts) /\ post \in Seq(Parts)
    BY PartsTyped, OnePart, TwoParts
  <2>1. Len(pre) = 2 /\ Len(post) = 1
    BY PartsTyped, OnePart, TwoParts
  <2> HIDE DEF pre, post, title
  <2>2. pre \o t \o post \in Seq(Parts) /\ Len(pre \o t \o post) = Len(pre) + Len(t) + Len(post)
    BY <1>1, <2>0, Wrapped
  <2>3. title \in Seq(Parts) /\ Len(title) = Len(pre) + Len(t) + Len(post)
    BY <2>2 DEF pre, post, title
  <2> QED
    BY <1>1, <2>1, <2>3
<1>5. old \in Seq(Parts) /\ Len(old) = 1 + Len(t) /\ old[1] = legacyTitlePrefix
  <2>1. /\ <<legacyTitlePrefix>> \in Seq(Parts) /\ Len(<<legacyTitlePrefix>>) = 1
        /\ <<legacyTitlePrefix>>[1] = legacyTitlePrefix
    BY PartsTyped, OnePart
  <2> QED
    BY <1>1, <2>1, ConcatProperties
<1> HIDE DEF fix, branch, title, old
<1>6. ~IsPrefix(branch, fix) /\ ~IsPrefix(title, fix)
  BY <1>1, <1>2, <1>3, <1>4, PrefixParts
<1>7. ~IsPrefix(old, fix)
  <2>1. "fix" # legacyTitlePrefix
    BY Zenon DEF legacyTitlePrefix
  <2> QED
    BY <1>1, <1>2, <1>5, <2>1, PrefixParts
<1>8. k.head = fix /\ k.title = fix
  BY DEF fix
<1>9. ~isSyncBranchForTemplate(fix, t)
  BY <1>6 DEF isSyncBranchForTemplate, branch
<1>10. ~isSyncPRForTemplate(fix, t)
  BY <1>6, <1>7 DEF isSyncPRForTemplate, title, old, legacyTitle
<1> QED
  BY <1>8, <1>9, <1>10 DEF Looks

-----------------------------------------------------------------------------
(* Pages.                                                                  *)

(* A set of numbers has a least one.                                       *)
LEMMA HasLeast ==
    ASSUME NEW T \in SUBSET Nat, T # {} PROVE \E m \in T : \A k \in T : m <= k
<1> DEFINE R == OpToRel(<, Nat)
<1>1. IsWellFoundedOn(R, Nat)
  BY NatLessThanWellFounded
<1>2. \A x, y \in Nat : y < x => <<y, x>> \in R
  BY DEF OpToRel
<1> HIDE DEF R
<1>3. PICK m \in T : \A k \in T : ~ (<<k, m>> \in R)
  BY <1>1, WFMin
<1>4. ASSUME NEW k \in T, ~(m <= k) PROVE FALSE
  <2>1. k \in Nat /\ m \in Nat /\ k < m
    BY <1>4
  <2> QED
    BY <1>2, <1>3, <2>1
<1> QED
  BY <1>4

LEMMA RankTyped ==
    ASSUME NEW S \in SUBSET Nat, IsFiniteSet(S), NEW n \in Nat
    PROVE  /\ Rank(S, n) \in Nat /\ IsFiniteSet(Newer(S, n))
           /\ n \in S => Rank(S, n) < Cardinality(S)
<1>1. Newer(S, n) \subseteq S
  BY DEF Newer
<1>2. IsFiniteSet(Newer(S, n)) /\ Rank(S, n) \in Nat
  BY <1>1, FS_Subset, FS_CardinalityType DEF Rank
<1>3. ASSUME n \in S PROVE Rank(S, n) < Cardinality(S)
  <2>1. Newer(S, n) \subseteq S \ {n}
    BY <1>3 DEF Newer
  <2>2. IsFiniteSet(S \ {n}) /\ Cardinality(S \ {n}) = Cardinality(S) - 1
    BY <1>3, FS_RemoveElement
  <2>3. Rank(S, n) <= Cardinality(S \ {n})
    BY <2>1, <2>2, FS_Subset DEF Rank
  <2>4. Cardinality(S) \in Nat
    BY FS_CardinalityType
  <2> QED
    BY <1>2, <2>2, <2>3, <2>4
<1> QED
  BY <1>2, <1>3

(* Pull requests that come push older ones back, and never forward.        *)
LEMMA RankGrows ==
    ASSUME NEW S, NEW M, IsFiniteSet(M), S \subseteq M, NEW n
    PROVE  Rank(S, n) <= Rank(M, n)
<1>1. Newer(S, n) \subseteq Newer(M, n) /\ Newer(M, n) \subseteq M
  BY DEF Newer
<1>2. IsFiniteSet(Newer(M, n))
  BY <1>1, FS_Subset
<1> QED
  BY <1>1, <1>2, FS_Subset DEF Rank

(* The next newer one is one place ahead.                                  *)
LEMMA OnePlaceAhead ==
    ASSUME NEW S \in SUBSET Nat, IsFiniteSet(S), NEW n \in S, Rank(S, n) # 0
    PROVE  \E s \in S : Rank(S, s) = Rank(S, n) - 1
<1>1. IsFiniteSet(Newer(S, n)) /\ Rank(S, n) \in Nat
  BY RankTyped
<1>2. Newer(S, n) # {} /\ Newer(S, n) \in SUBSET Nat
  BY FS_EmptySet DEF Rank, Newer
<1>3. PICK s \in Newer(S, n) : \A x \in Newer(S, n) : s <= x
  BY <1>2, HasLeast
<1>4. s \in S /\ s > n
  BY DEF Newer
<1>5. Newer(S, s) = Newer(S, n) \ {s}
  <2>1. \A x \in Newer(S, s) : x \in Newer(S, n) \ {s}
    BY <1>4 DEF Newer
  <2>2. ASSUME NEW x \in Newer(S, n), x # s PROVE x \in Newer(S, s)
    <3>1. x \in S /\ s <= x /\ x \in Nat /\ s \in Nat
      BY <1>3, <1>4 DEF Newer
    <3> QED
      BY <2>2, <3>1 DEF Newer
  <2> QED
    BY <2>1, <2>2
<1>6. Rank(S, s) = Rank(S, n) - 1
  <2>1. Cardinality(Newer(S, n) \ {s}) = Cardinality(Newer(S, n)) - 1
    BY <1>1, FS_RemoveElement
  <2> QED
    BY <1>5, <2>1 DEF Rank
<1> QED
  BY <1>4, <1>6

(* Every place ahead of n is taken.                                        *)
LEMMA PlacesTaken ==
    ASSUME NEW S \in SUBSET Nat, IsFiniteSet(S), NEW n \in S, NEW k \in Nat, k <= Rank(S, n)
    PROVE  \E s \in S : Rank(S, s) = k
<1> DEFINE T == {i \in Nat : i >= k /\ \E s \in S : Rank(S, s) = i}
<1>1. \A s \in S : Rank(S, s) \in Nat
  BY RankTyped
<1>2. Rank(S, n) \in T
  BY <1>1
<1>3. PICK m \in T : \A i \in T : m <= i
  <2> HIDE DEF T
  <2>1. T \subseteq Nat
    BY DEF T
  <2> QED
    BY <1>2, <2>1, HasLeast
<1>4. PICK s \in S : Rank(S, s) = m
  OBVIOUS
<1>5. ASSUME m # k PROVE FALSE
  <2>1. m - 1 \in Nat /\ m - 1 >= k /\ m # 0
    BY <1>5
  <2>2. \E x \in S : Rank(S, x) = m - 1
    BY <1>4, <2>1, OnePlaceAhead
  <2>3. m - 1 \in T
    BY <2>1, <2>2
  <2> QED
    BY <1>3, <2>3
<1> QED
  BY <1>4, <1>5

(* What page p holds.                                                      *)
LEMMA PageBounds ==
    ASSUME NEW n \in Nat, NEW size \in Nat \ {0}, NEW p \in Nat \ {0}
    PROVE  n \div size = p - 1 <=> (p - 1) * size <= n /\ n < p * size
OBVIOUS

LEMMA PageSizeTyped == PageSize \in Nat \ {0}
BY StalePRsAssumption DEF StalePRsAssumption

(* A page that is not the last one is full.                                *)
LEMMA PageIsFull ==
    ASSUME NEW S \in SUBSET Nat, IsFiniteSet(S), NEW n \in S, NEW p \in Nat \ {0},
           Rank(S, n) >= p * PageSize,
           NEW got, got = {s \in S : Rank(S, s) \div PageSize = p - 1}
    PROVE  AnotherPage(got)
<1> DEFINE I == (p - 1) * PageSize .. p * PageSize - 1
           f == [s \in got |-> Rank(S, s)]
<1>1. PageSize \in Nat \ {0}
  BY PageSizeTyped
<1>2. (p - 1) * PageSize \in Nat /\ p * PageSize \in Nat /\ p * PageSize = (p - 1) * PageSize + PageSize
  BY <1>1
<1>3. \A s \in S : Rank(S, s) \in Nat
  BY RankTyped
<1>4. \A s \in S : s \in got <=> Rank(S, s) \in I
  <2> SUFFICES ASSUME NEW s \in S PROVE s \in got <=> Rank(S, s) \in I
    OBVIOUS
  <2>1. Rank(S, s) \div PageSize = p - 1
          <=> (p - 1) * PageSize <= Rank(S, s) /\ Rank(S, s) < p * PageSize
    BY <1>1, <1>3, PageBounds
  <2> QED
    BY <1>2, <1>3, <2>1
<1>5. got \subseteq S /\ IsFiniteSet(got)
  BY FS_Subset
<1>6. \A k \in I : \E s \in got : Rank(S, s) = k
  <2> SUFFICES ASSUME NEW k \in I PROVE \E s \in got : Rank(S, s) = k
    OBVIOUS
  <2>1. k \in Nat /\ k <= Rank(S, n)
    BY <1>2, <1>3
  <2>2. PICK s \in S : Rank(S, s) = k
    BY <2>1, PlacesTaken
  <2> QED
    BY <1>4, <2>2
<1>7. f \in Surjection(got, I)
  <2>1. f \in [got -> I]
    BY <1>4, <1>5
  <2>2. \A k \in I : \E s \in got : f[s] = k
    BY <1>6
  <2> HIDE DEF f, I
  <2> QED
    BY <2>1, <2>2 DEF Surjection
<1>8. Cardinality(I) <= Cardinality(got)
  <2> HIDE DEF f, I
  <2> QED
    BY <1>5, <1>7, FS_Surjection
<1>9. Cardinality(I) = PageSize
  <2>1. PICK a \in Int, b \in Int : a = (p - 1) * PageSize /\ b = p * PageSize - 1
    BY <1>2
  <2>2. I = a..b
    BY <2>1
  <2>3. b = a + PageSize - 1 /\ a \in Int /\ b \in Int
    <3>1. PICK c \in Nat : c = p * PageSize
      BY <1>2
    <3>2. c = a + PageSize /\ b = c - 1
      BY <1>2, <2>1, <3>1
    <3> QED
      BY <1>1, <3>1, <3>2
  <2>4. Cardinality(a..b) = IF a > b THEN 0 ELSE b - a + 1
    BY FS_Interval
  <2> HIDE DEF I
  <2> QED
    BY <1>1, <2>2, <2>3, <2>4
<1>10. Cardinality(got) \in Nat
  BY <1>5, FS_CardinalityType
<1> QED
  BY <1>1, <1>8, <1>9, <1>10 DEF AnotherPage

-----------------------------------------------------------------------------
(* Types.                                                                  *)

LEMMA OpenIsFinite ==
    ASSUME NEW len \in Nat, NEW there, there \subseteq 1..len
    PROVE  there \in SUBSET Nat /\ IsFiniteSet(there) /\ Cardinality(there) <= len
<1>1. IsFiniteSet(1..len) /\ Cardinality(1..len) = len
  BY FS_Interval
<1>2. IsFiniteSet(there) /\ Cardinality(there) <= len
  BY <1>1, FS_Subset
<1> QED
  BY <1>2

(* A page is the open pull requests in its places.                         *)
LEMMA PageOf == ASSUME NEW p
                PROVE Page(p) = {n \in open : Rank(open, n) \div PageSize = p - 1}
BY DEF Page, Rank, Newer

(* A worker asks for no more pages than there are pull requests, and one.  *)
LEMMA PagesEnd ==
    ASSUME Typed, NEW p \in Nat \ {0}, AnotherPage(Page(p))
    PROVE  p + 1 <= Len(prs) + 1
<1>1. Len(prs) \in Nat /\ open \subseteq 1..Len(prs) /\ PageSize \in Nat \ {0}
  BY LenProperties, PageSizeTyped DEF Typed
<1>2. open \in SUBSET Nat /\ IsFiniteSet(open) /\ Cardinality(open) <= Len(prs)
  BY <1>1, OpenIsFinite
<1>3. PICK n \in Page(p) : TRUE
  <2>1. Page(p) # {}
    BY <1>1, FS_EmptySet DEF AnotherPage
  <2> QED
    BY <2>1
<1>4. n \in open /\ Rank(open, n) \div PageSize = p - 1
  BY PageOf
<1>5. /\ Rank(open, n) \in Nat /\ Rank(open, n) < Cardinality(open)
      /\ Cardinality(open) \in Nat
  BY <1>2, <1>4, RankTyped, FS_CardinalityType
<1>6. (p - 1) * PageSize <= Rank(open, n)
  BY <1>1, <1>4, <1>5, PageBounds
<1>7. p - 1 <= (p - 1) * PageSize /\ (p - 1) * PageSize \in Nat
  BY <1>1
<1> QED
  BY <1>1, <1>2, <1>5, <1>6, <1>7

LEMMA SoundGrows ==
    ASSUME NEW w \in Worker, NEW m \in Nat, NEW n \in Nat, m <= n, Sound(w, m)
    PROVE  Sound(w, n)
BY DEF Sound, Worker, Numbers

(* One more pull request.                                                  *)
LEMMA OneMore ==
    ASSUME NEW ps \in Seq(PR), NEW k \in PR
    PROVE  /\ Append(ps, k) \in Seq(PR) /\ Len(Append(ps, k)) = Len(ps) + 1
           /\ Len(ps) \in Nat
           /\ \A n \in 1..Len(ps) : Append(ps, k)[n] = ps[n]
           /\ Append(ps, k)[Len(ps) + 1] = k
BY AppendProperties, LenProperties

(* What leaves the listing is marked, and nothing else of a worker changes.*)
LEMMA LeavesTyped ==
    ASSUME NEW n, NEW ws \in [Templates -> Worker]
    PROVE  /\ Leaves(n, ws) \in [Templates -> Worker]
           /\ \A t \in Templates :
                 /\ Leaves(n, ws)[t] \in {ws[t], [ws[t] EXCEPT !.left = TRUE]}
                 /\ ~Leaves(n, ws)[t].left =>
                       Leaves(n, ws)[t] = ws[t] /\ ~(ws[t].phase = "list" /\ n \in open)
<1> SUFFICES ASSUME NEW t \in Templates
             PROVE  /\ Leaves(n, ws)[t] \in Worker
                    /\ Leaves(n, ws)[t] \in {ws[t], [ws[t] EXCEPT !.left = TRUE]}
                    /\ ~Leaves(n, ws)[t].left =>
                          Leaves(n, ws)[t] = ws[t] /\ ~(ws[t].phase = "list" /\ n \in open)
  BY DEF Leaves
<1>1. ws[t] \in Worker
  OBVIOUS
<1>2. [ws[t] EXCEPT !.left = TRUE] \in Worker /\ [ws[t] EXCEPT !.left = TRUE].left = TRUE
  BY <1>1 DEF Worker
<1>3. Leaves(n, ws)[t] = IF ws[t].phase = "list" /\ n \in open
                         THEN [ws[t] EXCEPT !.left = TRUE] ELSE ws[t]
  BY DEF Leaves
<1> QED
  BY <1>1, <1>2, <1>3

(* The mark alone changes nothing of the rest.                             *)
LEMMA MarkedIsSound ==
    ASSUME NEW w \in Worker, NEW len, Sound(w, len)
    PROVE  Sound([w EXCEPT !.left = TRUE], len)
BY DEF Sound, Worker

(* The pull request a worker opens.                                        *)
Opened(t, labelled) == [template |-> t, head |-> SyncBranch(t, Version),
                        title |-> updateMessage(Prefix, t, Version), labelled |-> labelled]

LEMMA OpenedTyped == ASSUME NEW t \in Templates, NEW labelled \in BOOLEAN
                     PROVE  Opened(t, labelled) \in PR
<1>1. t \in Seq(Parts) /\ t \in Ids
  BY IdsTyped
<1>2. SyncBranch(t, Version) \in Seq(Parts)
  <2> DEFINE pre == <<"steerspec-sync/">>
             post == <<"/", Version>>
  <2>1. pre \in Seq(Parts) /\ post \in Seq(Parts)
    BY PartsTyped, OnePart, TwoParts
  <2> HIDE DEF pre, post
  <2>2. pre \o t \o post \in Seq(Parts)
    BY <1>1, <2>1, Wrapped
  <2> QED
    BY <2>2 DEF pre, post, SyncBranch
<1>3. updateMessage(Prefix, t, Version) \in Seq(Parts)
  <2> DEFINE pre == <<Prefix, Update>>
             post == <<To, Version>>
  <2>1. pre \in Seq(Parts) /\ post \in Seq(Parts)
    BY PartsTyped, TwoParts
  <2> HIDE DEF pre, post
  <2>2. pre \o t \o post \in Seq(Parts)
    BY <1>1, <2>1, Wrapped
  <2> QED
    BY <2>2 DEF pre, post, updateMessage
<1> QED
  BY <1>1, <1>2, <1>3 DEF Opened, PR

(* A pull request people open.                                             *)
Fix == [template |-> Nobody, head |-> <<"fix">>, title |-> <<"fix">>, labelled |-> TRUE]

LEMMA FixTyped == Fix \in PR
<1>1. <<"fix">> \in Seq(Parts)
  BY PartsTyped, OnePart
<1> QED
  BY <1>1 DEF Fix, PR

LEMMA KindsTyped == Kinds \subseteq PR
<1> SUFFICES ASSUME NEW k \in PullRequest PROVE k \in PR
  BY StalePRsAssumption DEF StalePRsAssumption
<1>1. k.head \in Seq(Parts) /\ k.title \in Seq(Parts)
  BY PartsTyped DEF PullRequest
<1> QED
  BY <1>1 DEF PullRequest, PR

LEMMA TypedInit == Init => Typed
<1> SUFFICES ASSUME Init PROVE Typed
  OBVIOUS
<1>1. PICK k \in 0..MaxFirst : prs \in [1..k -> Kinds]
  BY DEF Init
<1>2. prs \in Seq(PR) /\ Len(prs) = k /\ k \in Nat
  <2>1. k \in Nat /\ prs \in [1..k -> PR]
    BY <1>1, KindsTyped, StalePRsAssumption DEF StalePRsAssumption
  <2>2. prs \in Seq(PR)
    BY <2>1, SeqDef
  <2>3. DOMAIN prs = 1..Len(prs) /\ DOMAIN prs = 1..k /\ Len(prs) \in Nat
    BY <2>1, <2>2, LenProperties
  <2> QED
    BY <2>1, <2>2, <2>3
<1>3. open \subseteq 1..Len(prs)
  BY <1>1, <1>2 DEF Init
<1>4. acts \in 0..MaxActs
  BY StalePRsAssumption DEF Init, StalePRsAssumption
<1>5. worker \in [Templates -> Worker]
  BY DEF Init, Worker, Numbers
<1>6. \A t \in Templates : Sound(worker[t], Len(prs))
  BY <1>2 DEF Init, Sound
<1> QED
  BY <1>2, <1>3, <1>4, <1>5, <1>6 DEF Typed

(* A worker, and the pull requests it works on, change; the others do not. *)
LEMMA OneWorker ==
    ASSUME Typed, NEW t \in Templates, NEW w \in Worker, Set(t, w),
           prs' \in Seq(PR), Len(prs) <= Len(prs'), open' \subseteq 1..Len(prs'),
           acts' \in 0..MaxActs, Sound(w, Len(prs'))
    PROVE  Typed'
<1>1. Len(prs) \in Nat /\ Len(prs') \in Nat
  BY LenProperties DEF Typed
<1>2. worker' \in [Templates -> Worker]
  BY DEF Set, Typed
<1>3. ASSUME NEW s \in Templates PROVE Sound(worker'[s], Len(prs'))
  <2>1. CASE s = t
    BY <2>1 DEF Set, Typed
  <2>2. CASE s # t
    <3>1. worker'[s] = worker[s] /\ worker[s] \in Worker /\ Sound(worker[s], Len(prs))
      BY <2>2 DEF Set, Typed
    <3> QED
      BY <1>1, <3>1, SoundGrows
  <2> QED
    BY <2>1, <2>2
<1> QED
  BY <1>2, <1>3 DEF Typed

LEMMA CreateTyped == ASSUME Typed, NEW t \in Templates, CreatePR(t) PROVE Typed'
<1> DEFINE own == Len(prs) + 1
           w == [worker[t] EXCEPT !.phase = "label", !.own = own]
<1>1. prs' = Append(prs, Opened(t, FALSE))
  BY DEF CreatePR, Opened
<1>2. /\ prs' \in Seq(PR) /\ Len(prs') = own /\ Len(prs) \in Nat
      /\ open \subseteq 1..Len(prs)
  BY <1>1, OpenedTyped, OneMore DEF Typed
<1>3. /\ worker[t] \in Worker /\ Sound(worker[t], Len(prs)) /\ worker[t].phase = "open"
      /\ open' = open \cup {own} /\ Set(t, w) /\ acts' \in 0..MaxActs
  BY DEF Typed, CreatePR
<1>4. own \in Nat /\ own \in 1..own
  BY <1>2
<1>5. Len(prs) <= Len(prs') /\ open' \subseteq 1..Len(prs')
  <2>1. \A i \in open' : i \in 1..own
    BY <1>2, <1>3, <1>4
  <2> QED
    BY <1>2, <2>1
<1> HIDE DEF own
<1>6. /\ w \in Worker /\ w.phase = "label" /\ w.own = own /\ w.older = worker[t].older
      /\ w.page = worker[t].page /\ w.found = worker[t].found
  BY <1>3, <1>4 DEF Worker
<1> HIDE DEF w
<1>7. w.older = {} /\ w.found = {} /\ w.page = 1
  BY <1>3, <1>6 DEF Sound
<1>8. Sound(w, own)
  BY <1>4, <1>6, <1>7 DEF Sound
<1> QED
  BY <1>2, <1>3, <1>5, <1>6, <1>8, OneWorker

(* A worker's pull request n gets another title or its label, and the      *)
(* worker starts to list.                                                  *)
Lists(t, w, n) == /\ w.phase = "list" /\ w.own = n /\ w.page = 1 /\ w.found = {}
                  /\ w.older = Of(t) \ {n}
Revised(t, w, n, k) ==
    /\ prs' = [prs EXCEPT ![n] = k] /\ open' = open /\ acts' = acts
    /\ Set(t, w) /\ Lists(t, w, n)
    /\ k.template = prs[n].template /\ (prs[n].labelled => k.labelled)

LEMMA Revision ==
    ASSUME Typed, NEW n \in 1..Len(prs), NEW k \in PR, prs' = [prs EXCEPT ![n] = k]
    PROVE  /\ prs' \in Seq(PR) /\ Len(prs') = Len(prs) /\ Len(prs) \in Nat
           /\ \A i \in 1..Len(prs) : prs'[i] = IF i = n THEN k ELSE prs[i]
<1>1. prs \in Seq(PR) /\ DOMAIN prs = 1..Len(prs) /\ Len(prs) \in Nat
  BY LenProperties DEF Typed
<1>2. prs' \in [1..Len(prs) -> PR]
  <2>1. \A i \in 1..Len(prs) : prs[i] \in PR
    BY <1>1, ElementOfSeq
  <2> QED
    BY <1>1, <2>1
<1>3. prs' \in Seq(PR) /\ Len(prs') = Len(prs)
  <2>1. prs' \in Seq(PR)
    BY <1>1, <1>2, SeqDef
  <2>2. DOMAIN prs' = 1..Len(prs') /\ DOMAIN prs' = 1..Len(prs) /\ Len(prs') \in Nat
    BY <1>2, <2>1, LenProperties
  <2> QED
    BY <1>1, <2>1, <2>2
<1> QED
  BY <1>1, <1>3

LEMMA UpdateRevises ==
    ASSUME Typed, NEW t \in Templates, UpdatePR(t)
    PROVE  \E n \in Existing(t), w \in Worker, k \in PR :
             /\ n \in 1..Len(prs) /\ Revised(t, w, n, k)
             /\ k.head = prs[n].head /\ k.title = updateMessage(Prefix, t, Version)
<1>1. PICK n \in Existing(t) :
         /\ prs' = [prs EXCEPT ![n].title = updateMessage(Prefix, t, Version)]
         /\ Set(t, [worker[t] EXCEPT !.phase = "list", !.own = n, !.older = Of(t) \ {n}])
  BY DEF UpdatePR
<1> DEFINE k == [prs[n] EXCEPT !.title = updateMessage(Prefix, t, Version)]
           older == Of(t) \ {n}
           w == [worker[t] EXCEPT !.phase = "list", !.own = n, !.older = older]
<1>2. /\ n \in 1..Len(prs) /\ n \in Nat /\ prs[n] \in PR
      /\ worker[t] \in Worker /\ Sound(worker[t], Len(prs)) /\ worker[t].phase = "open"
  BY ElementOfSeq DEF Typed, Existing, UpdatePR
<1>3. updateMessage(Prefix, t, Version) \in Seq(Parts)
  <2>1. Opened(t, FALSE) \in PR
    BY OpenedTyped
  <2>2. Opened(t, FALSE).title = updateMessage(Prefix, t, Version)
    BY DEF Opened
  <2> QED
    BY <2>1, <2>2 DEF PR
<1>4. /\ k \in PR /\ k.head = prs[n].head /\ k.template = prs[n].template
      /\ k.title = updateMessage(Prefix, t, Version) /\ k.labelled = prs[n].labelled
  BY <1>2, <1>3 DEF PR
<1>5. prs' = [prs EXCEPT ![n] = k]
  BY <1>1
<1>6. older \in SUBSET Numbers
  <2>1. Len(prs) \in Nat /\ open \subseteq 1..Len(prs)
    BY LenProperties DEF Typed
  <2>2. \A i \in open : i \in Numbers
    BY <2>1 DEF Numbers
  <2> QED
    BY <2>2 DEF Of
<1>7. Set(t, w)
  BY <1>1
<1> HIDE DEF older, k
<1>8. /\ w \in Worker /\ w.phase = "list" /\ w.own = n /\ w.older = older
      /\ w.page = worker[t].page /\ w.found = worker[t].found
  BY <1>2, <1>6 DEF Worker
<1> HIDE DEF w
<1>9. Lists(t, w, n)
  BY <1>2, <1>8 DEF Lists, Sound, older
<1>10. Revised(t, w, n, k)
  BY <1>4, <1>5, <1>7, <1>9 DEF Revised, UpdatePR
<1> QED
  BY <1>2, <1>4, <1>8, <1>10

LEMMA LabelRevises ==
    ASSUME Typed, NEW t \in Templates, LabelPR(t)
    PROVE  \E n \in 1..Len(prs), w \in Worker, k \in PR :
             Revised(t, w, n, k) /\ k.head = prs[n].head /\ k.title = prs[n].title
<1> DEFINE n == worker[t].own
           older == Of(t) \ {n}
           w == [worker[t] EXCEPT !.phase = "list", !.older = older]
<1>1. /\ worker[t] \in Worker /\ Sound(worker[t], Len(prs)) /\ worker[t].phase = "label"
      /\ Set(t, w)
  BY DEF Typed, LabelPR
<1>2. n \in 1..Len(prs) /\ prs[n] \in PR
  BY <1>1, ElementOfSeq DEF Typed, Sound
<1>3. PICK k \in {prs[n], [prs[n] EXCEPT !.labelled = TRUE]} : prs' = [prs EXCEPT ![n] = k]
  <2>1. prs = [prs EXCEPT ![n] = prs[n]]
    <3>1. prs \in [1..Len(prs) -> PR]
      BY LenProperties, ElementOfSeq, SeqDef DEF Typed
    <3> QED
      BY <3>1
  <2> QED
    BY <2>1 DEF LabelPR
<1>4. /\ k \in PR /\ k.head = prs[n].head /\ k.title = prs[n].title
      /\ k.template = prs[n].template /\ (prs[n].labelled => k.labelled)
  BY <1>2 DEF PR
<1>5. older \in SUBSET Numbers
  <2>1. Len(prs) \in Nat /\ open \subseteq 1..Len(prs)
    BY LenProperties DEF Typed
  <2>2. \A i \in open : i \in Numbers
    BY <2>1 DEF Numbers
  <2> QED
    BY <2>2 DEF Of
<1> HIDE DEF older, n
<1>6. /\ w \in Worker /\ w.phase = "list" /\ w.own = n /\ w.older = older
      /\ w.page = worker[t].page /\ w.found = worker[t].found
  BY <1>1, <1>5 DEF Worker, n
<1> HIDE DEF w
<1>7. Lists(t, w, n)
  BY <1>1, <1>6 DEF Lists, Sound, older
<1>8. Revised(t, w, n, k)
  BY <1>1, <1>3, <1>4, <1>7 DEF Revised, LabelPR
<1> QED
  BY <1>2, <1>4, <1>6, <1>8

LEMMA RevisedTyped ==
    ASSUME Typed, NEW t \in Templates, NEW n \in 1..Len(prs), NEW w \in Worker, NEW k \in PR,
           Revised(t, w, n, k)
    PROVE  Typed'
<1>1. /\ prs' \in Seq(PR) /\ Len(prs') = Len(prs) /\ Len(prs) \in Nat
      /\ open' \subseteq 1..Len(prs') /\ acts' \in 0..MaxActs /\ Set(t, w)
  BY Revision DEF Revised, Typed
<1>2. Sound(w, Len(prs'))
  <2>1. /\ w.phase = "list" /\ w.own = n /\ w.page = 1 /\ w.found = {}
        /\ w.older = Of(t) \ {n}
    BY DEF Revised, Lists
  <2>2. Of(t) \subseteq 1..Len(prs)
    BY DEF Of, Typed
  <2> QED
    BY <1>1, <2>1, <2>2 DEF Sound
<1> QED
  BY <1>1, <1>2, OneWorker

LEMMA ReadTyped == ASSUME Typed, NEW t \in Templates, ReadPage(t) PROVE Typed'
<1> DEFINE got == Page(worker[t].page)
           found == worker[t].found \cup {n \in got : stale(t, n)}
<1>1. /\ worker[t] \in Worker /\ Sound(worker[t], Len(prs)) /\ worker[t].phase = "list"
      /\ UNCHANGED <<prs, open, acts>> /\ prs \in Seq(PR) /\ Len(prs) \in Nat
      /\ open \subseteq 1..Len(prs) /\ acts \in 0..MaxActs
  BY LenProperties DEF Typed, ReadPage
<1>2. found \subseteq 1..Len(prs) /\ worker[t].own \notin found
  BY <1>1 DEF Page, stale, Sound
<1> HIDE DEF found
<1>3. found \in SUBSET Numbers /\ worker[t].page + 1 \in Numbers
  BY <1>1, <1>2 DEF Worker, Numbers
<1>4. \E w \in Worker : Set(t, w) /\ Sound(w, Len(prs))
  <2>1. CASE AnotherPage(got) /\ Set(t, [worker[t] EXCEPT !.page = @ + 1, !.found = found])
    <3> DEFINE w == [worker[t] EXCEPT !.page = @ + 1, !.found = found]
    <3>1. w \in Worker
      BY <1>1, <1>3 DEF Worker
    <3>2. worker[t].page \in Nat \ {0}
      BY <1>1 DEF Worker, Numbers
    <3>3. worker[t].page + 1 <= Len(prs) + 1
      BY <2>1, <3>2, PagesEnd
    <3>4. /\ w.phase = worker[t].phase /\ w.own = worker[t].own /\ w.older = worker[t].older
          /\ w.page = worker[t].page + 1 /\ w.found = found
      BY <1>1 DEF Worker
    <3>5. Sound(w, Len(prs))
      BY <1>1, <1>2, <3>3, <3>4 DEF Sound
    <3> QED
      BY <2>1, <3>1, <3>5
  <2>2. CASE Set(t, [worker[t] EXCEPT !.found = found,
                       !.phase = IF found = {} THEN "done" ELSE "close"])
    <3> DEFINE w == [worker[t] EXCEPT !.found = found,
                       !.phase = IF found = {} THEN "done" ELSE "close"]
    <3>1. w \in Worker
      BY <1>1, <1>3 DEF Worker
    <3>2. /\ w.phase = (IF found = {} THEN "done" ELSE "close") /\ w.own = worker[t].own
          /\ w.older = worker[t].older /\ w.page = worker[t].page /\ w.found = found
      BY <1>1 DEF Worker
    <3>3. Sound(w, Len(prs))
      BY <1>1, <1>2, <3>2 DEF Sound
    <3> QED
      BY <2>2, <3>1, <3>3
  <2>3. CASE Set(t, [worker[t] EXCEPT !.found = {}, !.phase = "unlisted"])
    <3> DEFINE w == [worker[t] EXCEPT !.found = {}, !.phase = "unlisted"]
    <3>1. w \in Worker
      BY <1>1 DEF Worker, Numbers
    <3>2. /\ w.phase = "unlisted" /\ w.own = worker[t].own
          /\ w.older = worker[t].older /\ w.page = worker[t].page /\ w.found = {}
      BY <1>1 DEF Worker
    <3>3. Sound(w, Len(prs))
      BY <1>1, <3>2 DEF Sound
    <3> QED
      BY <2>3, <3>1, <3>3
  <2> QED
    BY <2>1, <2>2, <2>3 DEF ReadPage, found
<1> QED
  BY <1>1, <1>4, OneWorker

(* What ClosePR makes of its worker when it has dealt with n.              *)
Dealt(w, n) == [w EXCEPT !.found = @ \ {n}, !.phase = IF w.found = {n} THEN "done" ELSE @]

LEMMA DealtTyped ==
    ASSUME NEW w \in Worker, NEW n
    PROVE  /\ Dealt(w, n) \in Worker
           /\ Dealt(w, n).found = w.found \ {n}
           /\ Dealt(w, n).phase = IF w.found = {n} THEN "done" ELSE w.phase
           /\ Dealt(w, n).own = w.own /\ Dealt(w, n).page = w.page
           /\ Dealt(w, n).older = w.older /\ Dealt(w, n).left = w.left
           /\ Dealt(w, n).refused = w.refused
BY DEF Dealt, Worker

(* The two ends of a request to close n: accepted, or refused.             *)
LEMMA CloseCases ==
    ASSUME Typed, NEW t \in Templates, ClosePR(t)
    PROVE  \E n \in worker[t].found :
              LET next == [worker EXCEPT ![t] = Dealt(worker[t], n)]
              IN  /\ next \in [Templates -> Worker] /\ UNCHANGED <<prs, acts>>
                  /\ worker[t].phase = "close"
                  /\ \/ open' = open \ {n} /\ worker' = Leaves(n, next)
                     \/ /\ open' = open
                        /\ Set(t, [Dealt(worker[t], n) EXCEPT !.refused = @ \cup {n}])
<1>1. worker \in [Templates -> Worker] /\ worker[t] \in Worker
  BY DEF Typed
<1>2. PICK n \in worker[t].found :
         LET next == [worker EXCEPT ![t].found = @ \ {n},
                        ![t].phase = IF worker[t].found = {n} THEN "done" ELSE @]
         IN  \/ open' = open \ {n} /\ worker' = Leaves(n, next)
             \/ /\ UNCHANGED open
                /\ worker' = [next EXCEPT ![t].refused = @ \cup {n}]
  BY DEF ClosePR
<1> DEFINE was == [worker EXCEPT ![t].found = @ \ {n},
                     ![t].phase = IF worker[t].found = {n} THEN "done" ELSE @]
           next == [worker EXCEPT ![t] = Dealt(worker[t], n)]
<1>3. was = next
  BY <1>1 DEF Dealt, Worker
<1>4. next \in [Templates -> Worker]
  BY <1>1, DealtTyped
<1>5. [next EXCEPT ![t].refused = @ \cup {n}]
        = [worker EXCEPT ![t] = [Dealt(worker[t], n) EXCEPT !.refused = @ \cup {n}]]
  BY <1>1
<1>6. \/ open' = open \ {n} /\ worker' = Leaves(n, was)
      \/ UNCHANGED open /\ worker' = [was EXCEPT ![t].refused = @ \cup {n}]
  BY <1>2
<1> HIDE DEF was, next
<1>7. \/ open' = open \ {n} /\ worker' = Leaves(n, next)
      \/ /\ open' = open
         /\ Set(t, [Dealt(worker[t], n) EXCEPT !.refused = @ \cup {n}])
  BY <1>3, <1>5, <1>6 DEF Set
<1> QED
  BY <1>4, <1>7 DEF ClosePR, next

(* Workers that are marked, and an act that is counted.                    *)
LEMMA MarkedTyped ==
    ASSUME Typed, NEW n, NEW ws \in [Templates -> Worker],
           \A s \in Templates : Sound(ws[s], Len(prs)),
           worker' = Leaves(n, ws), prs' = prs, open' \subseteq open, acts' \in 0..MaxActs
    PROVE  Typed'
<1>1. worker' \in [Templates -> Worker]
  BY LeavesTyped
<1>2. ASSUME NEW s \in Templates PROVE Sound(worker'[s], Len(prs))
  <2>1. worker'[s] \in {ws[s], [ws[s] EXCEPT !.left = TRUE]} /\ ws[s] \in Worker
    BY LeavesTyped
  <2> QED
    BY <2>1, MarkedIsSound
<1> QED
  BY <1>1, <1>2 DEF Typed

LEMMA CloseTyped == ASSUME Typed, NEW t \in Templates, ClosePR(t) PROVE Typed'
<1>1. PICK n \in worker[t].found :
         LET next == [worker EXCEPT ![t] = Dealt(worker[t], n)]
         IN  /\ next \in [Templates -> Worker] /\ UNCHANGED <<prs, acts>>
             /\ worker[t].phase = "close"
             /\ \/ open' = open \ {n} /\ worker' = Leaves(n, next)
                \/ /\ open' = open
                   /\ Set(t, [Dealt(worker[t], n) EXCEPT !.refused = @ \cup {n}])
  BY CloseCases
<1> DEFINE w == Dealt(worker[t], n)
           next == [worker EXCEPT ![t] = w]
<1>2. /\ worker \in [Templates -> Worker] /\ worker[t] \in Worker
      /\ \A s \in Templates : Sound(worker[s], Len(prs))
  BY DEF Typed
<1>3. /\ w \in Worker /\ w.found = worker[t].found \ {n}
      /\ w.phase = (IF worker[t].found = {n} THEN "done" ELSE "close")
      /\ w.own = worker[t].own /\ w.page = worker[t].page /\ w.older = worker[t].older
  BY <1>1, <1>2, DealtTyped
<1> HIDE DEF w
<1>4. Sound(w, Len(prs))
  BY <1>2, <1>3 DEF Sound
<1>5. CASE open' = open \ {n} /\ worker' = Leaves(n, next)
  <2>1. \A s \in Templates : Sound(next[s], Len(prs))
    BY <1>2, <1>4
  <2>2. next \in [Templates -> Worker] /\ prs' = prs /\ acts' \in 0..MaxActs
    BY <1>1, <1>2, <1>3 DEF Typed
  <2> HIDE DEF next
  <2> QED
    BY <1>5, <2>1, <2>2, MarkedTyped
<1>6. CASE open' = open /\ Set(t, [w EXCEPT !.refused = @ \cup {n}])
  <2> DEFINE v == [w EXCEPT !.refused = @ \cup {n}]
  <2>1. n \in Numbers
    BY <1>2 DEF Worker
  <2>2. /\ v \in Worker /\ v.found = w.found /\ v.phase = w.phase /\ v.own = w.own
        /\ v.page = w.page /\ v.older = w.older
    BY <1>3, <2>1 DEF Worker
  <2> HIDE DEF v
  <2>3. Sound(v, Len(prs))
    BY <1>4, <2>2 DEF Sound
  <2>4. prs' = prs /\ open \subseteq 1..Len(prs) /\ acts' \in 0..MaxActs /\ prs \in Seq(PR)
        /\ Len(prs) \in Nat
    BY <1>1, LenProperties DEF Typed
  <2>5. Set(t, v)
    BY <1>6 DEF v
  <2> QED
    BY <1>6, <2>2, <2>3, <2>4, <2>5, OneWorker
<1> QED
  BY <1>1, <1>5, <1>6 DEF w, next

(* What people do.                                                         *)
Finish(n) == n \in open /\ open' = open \ {n} /\ worker' = Leaves(n, worker) /\ prs' = prs
ReopenPR(n) ==
    /\ n \in DOMAIN prs \ open /\ open' = open \cup {n} /\ prs' = prs
    /\ worker' = [t \in Templates |-> [worker[t] EXCEPT !.older = @ \ {n}]]
OpenFix == /\ prs' = Append(prs, Fix) /\ open' = open \cup {Len(prs) + 1} /\ worker' = worker

LEMMA HumanCases ==
    ASSUME Human
    PROVE  /\ (\E n \in open : Finish(n)) \/ (\E n \in DOMAIN prs \ open : ReopenPR(n)) \/ OpenFix
           /\ acts < MaxActs /\ acts' = acts + 1
BY DEF Human, Finish, ReopenPR, OpenFix, Fix

LEMMA HumanTyped == ASSUME Typed, Human PROVE Typed'
<1>1. acts' \in 0..MaxActs
  BY HumanCases, StalePRsAssumption DEF Typed, StalePRsAssumption
<1>2. /\ prs \in Seq(PR) /\ Len(prs) \in Nat /\ DOMAIN prs = 1..Len(prs)
      /\ open \subseteq 1..Len(prs) /\ worker \in [Templates -> Worker]
      /\ \A s \in Templates : worker[s] \in Worker /\ Sound(worker[s], Len(prs))
  BY LenProperties DEF Typed
<1>3. ASSUME NEW n \in open, Finish(n) PROVE Typed'
  BY <1>1, <1>2, <1>3, MarkedTyped DEF Finish
<1>4. ASSUME NEW n \in DOMAIN prs \ open, ReopenPR(n) PROVE Typed'
  <2>1. ASSUME NEW s \in Templates PROVE worker'[s] \in Worker /\ Sound(worker'[s], Len(prs))
    <3> DEFINE v == [worker[s] EXCEPT !.older = @ \ {n}]
    <3>1. worker'[s] = v
      BY <1>4 DEF ReopenPR
    <3>2. /\ v \in Worker /\ v.found = worker[s].found /\ v.phase = worker[s].phase
          /\ v.own = worker[s].own /\ v.page = worker[s].page
          /\ v.older = worker[s].older \ {n}
      BY <1>2 DEF Worker
    <3> HIDE DEF v
    <3>3. Sound(v, Len(prs))
      BY <1>2, <3>2 DEF Sound
    <3> QED
      BY <3>1, <3>2, <3>3
  <2>2. worker' \in [Templates -> Worker]
    BY <1>4, <2>1 DEF ReopenPR
  <2>3. prs' = prs /\ open' \subseteq 1..Len(prs)
    BY <1>2, <1>4 DEF ReopenPR
  <2> QED
    BY <1>1, <1>2, <2>1, <2>2, <2>3 DEF Typed
<1>5. CASE OpenFix
  <2> DEFINE m == Len(prs)
             ps == Append(prs, Fix)
  <2>1. ps \in Seq(PR) /\ Len(ps) = m + 1 /\ m \in Nat
    BY <1>2, FixTyped, OneMore
  <2>2. /\ prs' = ps /\ worker' = worker /\ open' = open \cup {m + 1} /\ open \subseteq 1..m
        /\ worker \in [Templates -> Worker]
        /\ \A s \in Templates : worker[s] \in Worker /\ Sound(worker[s], m)
    BY <1>2, <1>5 DEF OpenFix
  <2> HIDE DEF m, ps
  <2>3. \A s \in Templates : Sound(worker[s], m + 1)
    BY <2>1, <2>2, SoundGrows
  <2>4. open' \subseteq 1..m + 1
    BY <2>1, <2>2
  <2> QED
    BY <1>1, <2>1, <2>2, <2>3, <2>4 DEF Typed
<1> QED
  BY <1>3, <1>4, <1>5, HumanCases

LEMMA TypedNext == Typed /\ [Next]_vars => Typed'
<1> SUFFICES ASSUME Typed, [Next]_vars PROVE Typed'
  OBVIOUS
<1>1. ASSUME NEW t \in Templates, Step(t) PROVE Typed'
  <2>1. CASE UpdatePR(t)
    BY <2>1, UpdateRevises, RevisedTyped
  <2>2. CASE LabelPR(t)
    BY <2>2, LabelRevises, RevisedTyped
  <2> QED
    BY <1>1, <2>1, <2>2, CreateTyped, ReadTyped, CloseTyped DEF Step
<1>2. CASE Human
  BY <1>2, HumanTyped
<1>3. CASE UNCHANGED vars
  BY <1>3 DEF vars, Typed
<1> QED
  BY <1>1, <1>2, <1>3 DEF Next

(* Types, and with them: a worker never takes its own pull request for an  *)
(* older one, and reads no more pages than there are pull requests, and    *)
(* one (closeStalePRs, List).                                              *)
THEOREM TypeHolds == Spec => []TypeOK
<1>1. Typed => TypeOK
  <2> SUFFICES ASSUME Typed PROVE TypeOK
    OBVIOUS
  <2>1. DOMAIN prs = 1..Len(prs) /\ \A n \in 1..Len(prs) : prs[n] \in PR
    BY LenProperties, ElementOfSeq DEF Typed
  <2>2. \A n \in DOMAIN prs : prs[n].template \in Ids \cup {Nobody}
    BY <2>1 DEF PR
  <2>3. \A t \in Templates : Sound(worker[t], Len(prs))
    BY DEF Typed
  <2> QED
    BY <2>1, <2>2, <2>3 DEF Typed, TypeOK, Sound
<1> QED
  BY <1>1, TypedInit, TypedNext, PTL DEF Spec

-----------------------------------------------------------------------------
(* What a worker has found, and what it still should find.                 *)

(* A pull request that comes changes nothing of the others.                *)
LEMMA MineGrows ==
    ASSUME NEW ps \in Seq(PR), NEW k \in PR, NEW t, NEW w \in Worker,
           Sound(w, Len(ps)), Mine(t, w, ps)
    PROVE  Mine(t, w, Append(ps, k))
<1>1. w.found \subseteq 1..Len(ps) /\ w.older \subseteq 1..Len(ps)
  BY DEF Sound
<1>2. \A n \in 1..Len(ps) : Append(ps, k)[n] = ps[n]
  BY OneMore
<1> QED
  BY <1>1, <1>2 DEF Mine

LEMMA ToldGrows ==
    ASSUME NEW ps \in Seq(PR), NEW k \in PR, Told(k), \A n \in 1..Len(ps) : Told(ps[n])
    PROVE  \A n \in 1..Len(Append(ps, k)) : Told(Append(ps, k)[n])
<1> DEFINE qs == Append(ps, k)
           m == Len(ps)
<1>1. /\ Len(qs) = m + 1 /\ m \in Nat /\ qs[m + 1] = k
      /\ \A n \in 1..m : qs[n] = ps[n]
  BY OneMore
<1>2. \A n \in 1..m : Told(ps[n])
  OBVIOUS
<1> HIDE DEF qs, m
<1> SUFFICES ASSUME NEW n \in 1..m + 1 PROVE Told(qs[n])
  BY <1>1 DEF qs
<1>3. n \in 1..m \/ n = m + 1
  BY <1>1
<1> QED
  BY <1>1, <1>2, <1>3

(* One that comes, or comes back, only pushes back what is to be found.    *)
LEMMA BehindGrows ==
    ASSUME NEW w \in Worker, NEW there \in SUBSET Nat, IsFiniteSet(there), NEW n \in Nat,
           n \notin w.older, Behind(w, there)
    PROVE  Behind(w, there \cup {n})
<1> DEFINE now == there \cup {n}
<1>1. IsFiniteSet(now) /\ now \in SUBSET Nat /\ there \subseteq now
  BY FS_AddElement
<1>2. w.older \cap now = w.older \cap there
  OBVIOUS
<1> HIDE DEF now
<1>3. ASSUME ~w.left, w.phase = "list", NEW k \in w.older \cap now, k \notin w.found
      PROVE  Rank(now, k) >= (w.page - 1) * PageSize
  <2>1. k \in there /\ k \in Nat /\ Rank(there, k) >= (w.page - 1) * PageSize
    BY <1>2, <1>3 DEF Behind
  <2>2. Rank(there, k) \in Nat /\ Rank(now, k) \in Nat /\ Rank(there, k) <= Rank(now, k)
    BY <1>1, <2>1, RankTyped, RankGrows
  <2>3. (w.page - 1) * PageSize \in Nat
    <3>1. w.page - 1 \in Nat
      BY DEF Worker, Numbers
    <3> QED
      BY <3>1, PageSizeTyped
  <2> QED
    BY <2>1, <2>2, <2>3
<1>4. ASSUME ~w.left, w.phase = "close" PROVE w.older \cap now \subseteq w.found \cup w.refused
  BY <1>2, <1>4 DEF Behind
<1>5. Behind(w, now)
  BY <1>3, <1>4 DEF Behind
<1> QED
  BY <1>5 DEF now

(* A worker that reads the listing and loses an entry is marked; the       *)
(* others only have less to close.                                         *)
LEMMA BehindLeaves ==
    ASSUME NEW ws \in [Templates -> Worker], NEW t \in Templates, NEW n,
           \/ ws[t].phase = "list" /\ Behind(ws[t], open)
           \/ ws[t].phase # "list" /\ Behind(ws[t], open \ {n})
    PROVE  Behind(Leaves(n, ws)[t], open \ {n})
<1> DEFINE w == Leaves(n, ws)[t]
<1>1. ~w.left => w = ws[t] /\ ~(ws[t].phase = "list" /\ n \in open)
  BY LeavesTyped
<1> HIDE DEF w
<1>2. CASE w.left
  <2>1. Behind(w, open \ {n})
    BY <1>2 DEF Behind
  <2> QED
    BY <2>1 DEF w
<1>3. CASE ~w.left
  <2>1. w = ws[t] /\ ~(ws[t].phase = "list" /\ n \in open)
    BY <1>1, <1>3
  <2>2. CASE ws[t].phase = "list"
    <3>1. open \ {n} = open /\ Behind(ws[t], open)
      BY <2>1, <2>2
    <3> QED
      BY <2>1, <3>1 DEF w
  <2>3. CASE ws[t].phase # "list"
    BY <2>1, <2>3 DEF w
  <2> QED
    BY <2>2, <2>3
<1> QED
  BY <1>2, <1>3

(* The mark says nothing of whose a pull request is.                       *)
LEMMA MineLeaves ==
    ASSUME NEW ws \in [Templates -> Worker], NEW t \in Templates, NEW n, NEW ps,
           Mine(t, ws[t], ps)
    PROVE  Mine(t, Leaves(n, ws)[t], ps)
<1> DEFINE w == Leaves(n, ws)[t]
<1>1. w \in {ws[t], [ws[t] EXCEPT !.left = TRUE]} /\ ws[t] \in Worker
  BY LeavesTyped
<1>2. w.found = ws[t].found /\ w.older = ws[t].older
  BY <1>1 DEF Worker
<1> HIDE DEF w
<1>3. Mine(t, w, ps)
  BY <1>2 DEF Mine
<1> QED
  BY <1>3 DEF w

(* Less is there: less is to be closed.                                    *)
LEMMA BehindShrinks ==
    ASSUME NEW w, NEW there, NEW n, w.phase # "list", Behind(w, there)
    PROVE  Behind(w, there \ {n})
BY DEF Behind

(* The invariant holds at first.                                           *)
LEMMA StaleInit == ASSUME Recognisable PROVE Init => StaleInv
<1> SUFFICES ASSUME Init PROVE StaleInv
  OBVIOUS
<1>1. PICK k \in 0..MaxFirst : prs \in [1..k -> Kinds]
  BY DEF Init
<1>2. Typed
  BY TypedInit
<1>3. DOMAIN prs = 1..Len(prs) /\ DOMAIN prs = 1..k
  BY <1>1, <1>2, LenProperties DEF Typed
<1>4. ASSUME NEW n \in 1..Len(prs) PROVE Told(prs[n])
  <2>1. prs[n] \in Kinds
    BY <1>1, <1>3
  <2> QED
    BY <2>1, NamedIsTold DEF Recognisable
<1>5. ASSUME NEW t \in Templates PROVE Mine(t, worker[t], prs) /\ Behind(worker[t], open)
  BY DEF Init, Mine, Behind
<1> QED
  BY <1>4, <1>5 DEF StaleInv

(* The pull request a worker opens looks like its template's.              *)
LEMMA OpenedIsTold ==
    ASSUME Recognisable, NEW t \in Templates, NEW labelled \in BOOLEAN
    PROVE  Told(Opened(t, labelled))
<1> DEFINE k == Opened(t, labelled)
<1>1. /\ k.template = t /\ k.head = SyncBranch(t, Version)
      /\ k.title = updateMessage(Prefix, t, Version)
  BY DEF Opened
<1> HIDE DEF k
<1>2. Prefix \in Parts /\ Version \in Parts
  BY PartsTyped
<1>3. t \in Ids /\ Version # "/" /\ Prefix # legacyTitlePrefix
  BY IdsTyped DEF Recognisable
<1>4. Named(k)
  BY <1>1, <1>2, <1>3 DEF Named
<1>5. Told(k)
  BY <1>4, NamedIsTold
<1> QED
  BY <1>5 DEF k

(* The workers that do not act, when a pull request is opened.             *)
LEMMA StaleGrows ==
    ASSUME Typed, StaleInv, NEW k \in PR, Told(k), NEW W \in SUBSET Templates,
           prs' = Append(prs, k), open' = open \cup {Len(prs) + 1}
    PROVE  /\ \A n \in 1..Len(prs') : Told(prs'[n])
           /\ \A t \in W : Mine(t, worker[t], prs') /\ Behind(worker[t], open')
<1>1. /\ prs \in Seq(PR) /\ Len(prs) \in Nat /\ open \subseteq 1..Len(prs)
      /\ open \in SUBSET Nat /\ IsFiniteSet(open)
  BY LenProperties, OpenIsFinite DEF Typed
<1>2. \A n \in 1..Len(prs) : Told(prs[n])
  BY DEF StaleInv
<1>3. \A n \in 1..Len(Append(prs, k)) : Told(Append(prs, k)[n])
  BY <1>1, <1>2, ToldGrows
<1>4. ASSUME NEW t \in W PROVE Mine(t, worker[t], prs') /\ Behind(worker[t], open')
  <2> DEFINE new == Len(prs) + 1
             w == worker[t]
  <2>1. w \in Worker /\ Sound(w, Len(prs)) /\ Mine(t, w, prs) /\ Behind(w, open)
    BY DEF Typed, StaleInv
  <2> HIDE DEF w
  <2>2. Mine(t, w, Append(prs, k))
    BY <1>1, <2>1, MineGrows
  <2>3. new \in Nat /\ new \notin w.older
    BY <1>1, <2>1 DEF Sound
  <2> HIDE DEF new
  <2>4. Behind(w, open \cup {new})
    BY <1>1, <2>1, <2>3, BehindGrows
  <2> QED
    BY <2>2, <2>4 DEF w, new
<1> QED
  BY <1>3, <1>4

LEMMA CreateKeeps ==
    ASSUME Recognisable, Typed, StaleInv, NEW t \in Templates, CreatePR(t) PROVE StaleInv'
<1> DEFINE new == Len(prs) + 1
           w == [worker[t] EXCEPT !.phase = "label", !.own = new]
           k == Opened(t, FALSE)
<1>1. prs' = Append(prs, k)
  BY DEF CreatePR, Opened
<1>2. k \in PR /\ Told(k)
  BY OpenedTyped, OpenedIsTold
<1> HIDE DEF k
<1>3. open' = open \cup {new} /\ Set(t, w) /\ worker[t].phase = "open"
  BY DEF CreatePR
<1>4. /\ \A n \in 1..Len(prs') : Told(prs'[n])
      /\ \A s \in Templates : Mine(s, worker[s], prs') /\ Behind(worker[s], open')
  BY <1>1, <1>2, <1>3, StaleGrows
<1>5. worker[t] \in Worker /\ Sound(worker[t], Len(prs)) /\ worker \in [Templates -> Worker]
  BY DEF Typed
<1>6. w.phase = "label" /\ w.older = {} /\ w.found = {}
  BY <1>3, <1>5 DEF Worker, Sound
<1>7. \A s \in Templates : worker'[s] = IF s = t THEN w ELSE worker[s]
  BY <1>3, <1>5 DEF Set
<1> HIDE DEF w
<1>8. Mine(t, w, prs') /\ Behind(w, open')
  BY <1>6 DEF Mine, Behind
<1> QED
  BY <1>4, <1>7, <1>8 DEF StaleInv

(* The pull request a worker updates is its template's, and looks so still.*)
LEMMA UpdatedIsTold ==
    ASSUME Recognisable, Typed, StaleInv, NEW t \in Templates, NEW n \in Existing(t),
           NEW k \in PR, k.head = prs[n].head, k.template = prs[n].template,
           k.title = updateMessage(Prefix, t, Version)
    PROVE  Told(k)
<1>1. n \in 1..Len(prs) /\ prs[n].head = SyncBranch(t, Version)
  BY DEF Existing, Typed
<1>2. t \in Ids /\ t \in Seq(Parts) /\ Version # "/" /\ Prefix # legacyTitlePrefix
  BY IdsTyped DEF Recognisable
<1>3. Prefix \in Parts /\ Version \in Parts
  BY PartsTyped
<1>4. Looks(t, prs[n])
  <2>1. isSyncBranchForTemplate(SyncBranch(t, Version), t)
    BY <1>2, <1>3, BranchIsOwn
  <2> QED
    BY <1>1, <2>1 DEF Looks
<1>5. k.template = t
  BY <1>1, <1>4 DEF StaleInv, Told
<1>6. Named(k)
  BY <1>1, <1>2, <1>3, <1>5 DEF Named
<1> QED
  BY <1>6, NamedIsTold

(* A worker that starts to list has everything still before it.            *)
LEMMA RevisedKeeps ==
    ASSUME Typed, StaleInv, NEW t \in Templates, NEW n \in 1..Len(prs), NEW w \in Worker,
           NEW k \in PR, Revised(t, w, n, k), Told(k)
    PROVE  StaleInv'
<1>1. /\ Len(prs') = Len(prs) /\ Len(prs) \in Nat /\ open' = open /\ Set(t, w)
      /\ \A i \in 1..Len(prs) : prs'[i] = IF i = n THEN k ELSE prs[i]
      /\ k.template = prs[n].template /\ (prs[n].labelled => k.labelled)
  BY Revision DEF Revised
<1>2. /\ w.phase = "list" /\ w.own = n /\ w.page = 1 /\ w.found = {}
      /\ w.older = Of(t) \ {n}
  BY DEF Revised, Lists
<1>3. /\ open \subseteq 1..Len(prs) /\ open \in SUBSET Nat /\ IsFiniteSet(open)
      /\ worker \in [Templates -> Worker]
  BY LenProperties, OpenIsFinite DEF Typed
<1>4. \A i \in 1..Len(prs') : Told(prs'[i])
  BY <1>1 DEF StaleInv
<1>5. ASSUME NEW s \in Templates PROVE Mine(s, worker[s], prs') /\ Behind(worker[s], open')
  <2>1. /\ Mine(s, worker[s], prs) /\ Behind(worker[s], open)
        /\ worker[s].found \cup worker[s].older \subseteq 1..Len(prs)
    BY DEF Typed, StaleInv, Sound
  <2>2. \A i \in 1..Len(prs) : /\ prs'[i].template = prs[i].template
                              /\ (prs[i].labelled => prs'[i].labelled)
    BY <1>1
  <2> QED
    BY <1>1, <2>1, <2>2 DEF Mine
<1>6. Mine(t, w, prs')
  <2>1. \A i \in w.older : i \in 1..Len(prs) /\ i # n /\ prs[i].template = t /\ prs[i].labelled
    BY <1>2, <1>3 DEF Of
  <2> QED
    BY <1>1, <1>2, <2>1 DEF Mine
<1>7. Behind(w, open')
  <2>1. \A i \in w.older : i \in Nat /\ i \in open
    BY <1>2, <1>3 DEF Of
  <2>2. \A i \in w.older : Rank(open, i) \in Nat
    BY <1>3, <2>1, RankTyped
  <2>3. (1 - 1) * PageSize = 0
    BY PageSizeTyped
  <2>4. \A i \in w.older : Rank(open, i) >= (1 - 1) * PageSize
    BY <2>2, <2>3
  <2> QED
    BY <1>1, <1>2, <2>4 DEF Behind
<1>8. \A s \in Templates : worker'[s] = IF s = t THEN w ELSE worker[s]
  BY <1>1, <1>3 DEF Set
<1> QED
  BY <1>4, <1>5, <1>6, <1>7, <1>8 DEF StaleInv

LEMMA UpdateKeeps ==
    ASSUME Recognisable, Typed, StaleInv, NEW t \in Templates, UpdatePR(t) PROVE StaleInv'
<1>1. PICK n \in Existing(t), w \in Worker, k \in PR :
        /\ n \in 1..Len(prs) /\ Revised(t, w, n, k)
        /\ k.head = prs[n].head /\ k.title = updateMessage(Prefix, t, Version)
  BY UpdateRevises
<1>2. Told(k)
  BY <1>1, UpdatedIsTold DEF Revised
<1> QED
  BY <1>1, <1>2, RevisedKeeps

LEMMA LabelKeeps ==
    ASSUME Typed, StaleInv, NEW t \in Templates, LabelPR(t) PROVE StaleInv'
<1>1. PICK n \in 1..Len(prs), w \in Worker, k \in PR :
        Revised(t, w, n, k) /\ k.head = prs[n].head /\ k.title = prs[n].title
  BY LabelRevises
<1>2. Told(k)
  BY <1>1 DEF Revised, StaleInv, Told, Looks
<1> QED
  BY <1>1, <1>2, RevisedKeeps

(* The page holds what is to be found in its places; a page that is not    *)
(* full is the last one.                                                   *)
LEMMA ReadFinds ==
    ASSUME Typed, StaleInv, NEW t \in Templates, worker[t].phase = "list", ~worker[t].left,
           NEW n \in worker[t].older \cap open,
           n \notin worker[t].found, ~(n \in Page(worker[t].page) /\ stale(t, n))
    PROVE  /\ Rank(open, n) >= worker[t].page * PageSize
           /\ AnotherPage(Page(worker[t].page))
<1> DEFINE p == worker[t].page
           got == Page(p)
<1>1. /\ worker[t] \in Worker /\ Sound(worker[t], Len(prs)) /\ prs \in Seq(PR)
      /\ Len(prs) \in Nat /\ open \subseteq 1..Len(prs)
  BY LenProperties DEF Typed
<1>2. p \in Nat \ {0} /\ n \in Nat /\ n \in open /\ n \in 1..Len(prs) /\ n # worker[t].own
  BY <1>1 DEF Worker, Numbers, Sound
<1>3. stale(t, n)
  <2>1. prs[n].template = t /\ prs[n].labelled /\ Told(prs[n])
    BY <1>2 DEF StaleInv, Mine
  <2>2. Looks(t, prs[n])
    BY <2>1 DEF Told
  <2> QED
    BY <1>2, <2>1, <2>2 DEF stale, Looks
<1>4. Rank(open, n) >= (p - 1) * PageSize
  BY DEF StaleInv, Behind
<1> HIDE DEF p
<1>5. open \in SUBSET Nat /\ IsFiniteSet(open) /\ Rank(open, n) \in Nat
  BY <1>1, <1>2, OpenIsFinite, RankTyped
<1>6. got = {s \in open : Rank(open, s) \div PageSize = p - 1}
  BY PageOf
<1> HIDE DEF got
<1>7. n \notin got
  BY <1>3 DEF got, p
<1>8. ~(Rank(open, n) \div PageSize = p - 1)
  BY <1>2, <1>6, <1>7
<1>9. ~(Rank(open, n) < p * PageSize)
  BY <1>2, <1>4, <1>5, <1>8, PageSizeTyped, PageBounds
<1>10. Rank(open, n) >= p * PageSize
  <2>1. PICK c \in Nat : c = p * PageSize
    BY <1>2, PageSizeTyped
  <2> QED
    BY <1>5, <1>9, <2>1
<1>11. AnotherPage(got)
  BY <1>2, <1>5, <1>6, <1>10, PageIsFull
<1> QED
  BY <1>10, <1>11 DEF got, p

LEMMA ReadKeeps ==
    ASSUME Typed, StaleInv, NEW t \in Templates, ReadPage(t) PROVE StaleInv'
<1> DEFINE got == Page(worker[t].page)
           found == worker[t].found \cup {n \in got : stale(t, n)}
<1>1. /\ worker[t] \in Worker /\ worker[t].phase = "list" /\ worker \in [Templates -> Worker]
      /\ prs' = prs /\ open' = open /\ open \subseteq 1..Len(prs)
      /\ Mine(t, worker[t], prs)
      /\ Sound(worker[t], Len(prs))
  BY DEF Typed, StaleInv, ReadPage
<1>0. Len(prs) \in Nat
  BY LenProperties DEF Typed
<1>2. \A n \in found : prs[n].template = t
  <2>1. ASSUME NEW n \in got, stale(t, n) PROVE prs[n].template = t
    <3>1. n \in 1..Len(prs) /\ Looks(t, prs[n])
      BY <1>1, <2>1 DEF Page, stale, Looks
    <3>2. Told(prs[n])
      BY <3>1 DEF StaleInv
    <3> QED
      BY <3>1, <3>2 DEF Told
  <2> QED
    BY <1>1, <2>1 DEF Mine
<1>3. ~worker[t].left => \A n \in worker[t].older \cap open :
         \/ n \in found
         \/ Rank(open, n) >= worker[t].page * PageSize /\ AnotherPage(got)
  BY <1>1, ReadFinds
<1>4. found \in SUBSET Numbers
  <2>1. worker[t].found \subseteq Numbers
    BY <1>1 DEF Worker
  <2>2. \A n \in got : n \in Numbers
    BY <1>1, <1>0 DEF Page, Numbers
  <2> QED
    BY <2>1, <2>2
<1> HIDE DEF found
<1>5. \E w \in Worker : Set(t, w) /\ Mine(t, w, prs) /\ Behind(w, open)
  <2>1. CASE AnotherPage(got) /\ Set(t, [worker[t] EXCEPT !.page = @ + 1, !.found = found])
    <3> DEFINE w == [worker[t] EXCEPT !.page = @ + 1, !.found = found]
    <3>1. worker[t].page \in Nat \ {0}
      BY <1>1 DEF Worker, Numbers
    <3>2. w \in Worker
      <4>1. worker[t].page + 1 \in Numbers
        BY <3>1 DEF Numbers
      <4> QED
        BY <1>1, <1>4, <4>1 DEF Worker
    <3>3. /\ w.phase = "list" /\ w.older = worker[t].older /\ w.found = found
          /\ w.page = worker[t].page + 1 /\ w.left = worker[t].left
      BY <1>1 DEF Worker
    <3> HIDE DEF w
    <3>4. Mine(t, w, prs)
      BY <1>1, <1>2, <3>3 DEF Mine
    <3>5. w.page - 1 = worker[t].page
      BY <3>1, <3>3
    <3>6. Behind(w, open)
      BY <1>3, <3>3, <3>5 DEF Behind
    <3> QED
      BY <2>1, <3>2, <3>4, <3>6 DEF w
  <2>2. CASE /\ ~AnotherPage(got)
             /\ Set(t, [worker[t] EXCEPT !.found = found,
                          !.phase = IF found = {} THEN "done" ELSE "close"])
    <3> DEFINE w == [worker[t] EXCEPT !.found = found,
                       !.phase = IF found = {} THEN "done" ELSE "close"]
    <3>1. w \in Worker
      BY <1>1, <1>4 DEF Worker
    <3>2. /\ w.phase # "list" /\ w.older = worker[t].older /\ w.found = found
          /\ w.left = worker[t].left
      BY <1>1 DEF Worker
    <3> HIDE DEF w
    <3>3. Mine(t, w, prs)
      BY <1>1, <1>2, <3>2 DEF Mine
    <3>4. Behind(w, open)
      BY <1>3, <2>2, <3>2 DEF Behind
    <3> QED
      BY <2>2, <3>1, <3>3, <3>4 DEF w
  <2>3. CASE Set(t, [worker[t] EXCEPT !.found = {}, !.phase = "unlisted"])
    <3> DEFINE w == [worker[t] EXCEPT !.found = {}, !.phase = "unlisted"]
    <3>1. w \in Worker
      BY <1>1 DEF Worker, Numbers
    <3>2. w.phase = "unlisted" /\ w.older = worker[t].older /\ w.found = {}
      BY <1>1 DEF Worker
    <3> HIDE DEF w
    <3>3. Mine(t, w, prs) /\ Behind(w, open)
      BY <1>1, <3>2 DEF Mine, Behind
    <3> QED
      BY <2>3, <3>1, <3>3 DEF w
  <2> QED
    BY <2>1, <2>2, <2>3 DEF ReadPage, found
<1> HIDE DEF got
<1>6. PICK w \in Worker : Set(t, w) /\ Mine(t, w, prs) /\ Behind(w, open)
  BY <1>5
<1>7. \A s \in Templates : worker'[s] = IF s = t THEN w ELSE worker[s]
  BY <1>1, <1>6 DEF Set
<1> QED
  BY <1>1, <1>6, <1>7 DEF StaleInv

LEMMA CloseKeeps ==
    ASSUME Typed, StaleInv, NEW t \in Templates, ClosePR(t) PROVE StaleInv'
<1>1. PICK n \in worker[t].found :
         LET next == [worker EXCEPT ![t] = Dealt(worker[t], n)]
         IN  /\ next \in [Templates -> Worker] /\ UNCHANGED <<prs, acts>>
             /\ worker[t].phase = "close"
             /\ \/ open' = open \ {n} /\ worker' = Leaves(n, next)
                \/ /\ open' = open
                   /\ Set(t, [Dealt(worker[t], n) EXCEPT !.refused = @ \cup {n}])
  BY CloseCases
<1> DEFINE w == Dealt(worker[t], n)
           next == [worker EXCEPT ![t] = w]
<1>2. /\ worker \in [Templates -> Worker] /\ worker[t] \in Worker
      /\ \A k \in 1..Len(prs) : Told(prs[k])
      /\ \A s \in Templates : Mine(s, worker[s], prs) /\ Behind(worker[s], open)
  BY DEF Typed, StaleInv
<1>3. /\ w \in Worker /\ w.found = worker[t].found \ {n} /\ w.phase # "list"
      /\ w.older = worker[t].older /\ w.left = worker[t].left /\ w.refused = worker[t].refused
      /\ w.phase = "close" => worker[t].phase = "close"
  BY <1>1, <1>2, DealtTyped
<1>4. next \in [Templates -> Worker] /\ prs' = prs
  BY <1>1
<1>5. \A s \in Templates : next[s] = IF s = t THEN w ELSE worker[s]
  BY <1>2
<1>6. \/ open' = open \ {n} /\ worker' = Leaves(n, next)
      \/ open' = open /\ Set(t, [w EXCEPT !.refused = @ \cup {n}])
  BY <1>1
<1> HIDE DEF w, next
<1>7. Mine(t, w, prs)
  BY <1>2, <1>3 DEF Mine
<1>8. CASE open' = open \ {n} /\ worker' = Leaves(n, next)
  <2>1. ASSUME NEW s \in Templates
        PROVE  Mine(s, Leaves(n, next)[s], prs) /\ Behind(Leaves(n, next)[s], open \ {n})
    <3>1. Mine(s, next[s], prs)
      BY <1>2, <1>5, <1>7
    <3>2. \/ next[s].phase = "list" /\ Behind(next[s], open)
          \/ next[s].phase # "list" /\ Behind(next[s], open \ {n})
      <4>1. CASE s = t
        <5>1. Behind(worker[t], open)
          BY <1>2
        <5>2. Behind(w, open \ {n})
          BY <1>3, <5>1 DEF Behind
        <5> QED
          BY <1>3, <1>5, <4>1, <5>2
      <4>2. CASE s # t
        <5>1. next[s] = worker[s] /\ Behind(worker[s], open)
          BY <1>2, <1>5, <4>2
        <5> QED
          BY <5>1, BehindShrinks
      <4> QED
        BY <4>1, <4>2
    <3> QED
      BY <1>4, <3>1, <3>2, BehindLeaves, MineLeaves
  <2> QED
    BY <1>2, <1>4, <1>8, <2>1 DEF StaleInv
<1>9. CASE open' = open /\ Set(t, [w EXCEPT !.refused = @ \cup {n}])
  <2> DEFINE v == [w EXCEPT !.refused = @ \cup {n}]
  <2>1. /\ v.found = w.found /\ v.older = w.older /\ v.phase = w.phase /\ v.left = w.left
        /\ v.refused = w.refused \cup {n}
    BY <1>3 DEF Worker
  <2>2. \A s \in Templates : worker'[s] = IF s = t THEN v ELSE worker[s]
    BY <1>2, <1>9 DEF Set
  <2> HIDE DEF v
  <2>3. Mine(t, v, prs)
    BY <1>7, <2>1 DEF Mine
  <2>4. Behind(v, open)
    <3>1. Behind(worker[t], open)
      BY <1>2
    <3> QED
      BY <1>3, <2>1, <3>1 DEF Behind
  <2> QED
    BY <1>2, <1>4, <1>9, <2>2, <2>3, <2>4 DEF StaleInv
<1> QED
  BY <1>6, <1>8, <1>9

LEMMA HumanKeeps == ASSUME Recognisable, Typed, StaleInv, Human PROVE StaleInv'
<1>1. /\ worker \in [Templates -> Worker]
      /\ \A k \in 1..Len(prs) : Told(prs[k])
      /\ \A s \in Templates : /\ worker[s] \in Worker
                              /\ Mine(s, worker[s], prs) /\ Behind(worker[s], open)
  BY DEF Typed, StaleInv
<1>2. ASSUME NEW n \in open, Finish(n) PROVE StaleInv'
  <2>1. ASSUME NEW s \in Templates
        PROVE  Mine(s, Leaves(n, worker)[s], prs) /\ Behind(Leaves(n, worker)[s], open \ {n})
    BY <1>1, BehindShrinks, BehindLeaves, MineLeaves
  <2>2. open' = open \ {n} /\ worker' = Leaves(n, worker) /\ prs' = prs
    BY <1>2 DEF Finish
  <2> QED
    BY <1>1, <2>1, <2>2 DEF StaleInv
<1>3. ASSUME NEW n \in DOMAIN prs \ open, ReopenPR(n) PROVE StaleInv'
  <2>1. /\ n \in Nat /\ open \in SUBSET Nat /\ IsFiniteSet(open)
    BY LenProperties, OpenIsFinite DEF Typed
  <2>2. prs' = prs /\ open' = open \cup {n}
    BY <1>3 DEF ReopenPR
  <2>3. ASSUME NEW s \in Templates PROVE Mine(s, worker'[s], prs) /\ Behind(worker'[s], open \cup {n})
    <3> DEFINE v == [worker[s] EXCEPT !.older = @ \ {n}]
    <3>1. worker'[s] = v
      BY <1>3 DEF ReopenPR
    <3>2. /\ v \in Worker /\ v.found = worker[s].found /\ v.phase = worker[s].phase
          /\ v.page = worker[s].page /\ v.left = worker[s].left /\ v.refused = worker[s].refused
          /\ v.older = worker[s].older \ {n}
      BY <1>1 DEF Worker
    <3> HIDE DEF v
    <3>3. Mine(s, v, prs)
      <4>1. Mine(s, worker[s], prs)
        BY <1>1
      <4> QED
        BY <3>2, <4>1 DEF Mine
    <3>4. Behind(v, open)
      <4>1. Behind(worker[s], open)
        BY <1>1
      <4>2. v.older \cap open \subseteq worker[s].older \cap open
        BY <3>2
      <4> QED
        BY <3>2, <4>1, <4>2 DEF Behind
    <3>5. Behind(v, open \cup {n})
      BY <2>1, <3>2, <3>4, BehindGrows
    <3> QED
      BY <3>1, <3>3, <3>5
  <2> QED
    BY <1>1, <2>2, <2>3 DEF StaleInv
<1>4. CASE OpenFix
  <2>1. Fix \in PR /\ Told(Fix)
    <3>1. Fix.template = Nobody /\ Fix.head = <<"fix">> /\ Fix.title = <<"fix">>
      BY DEF Fix
    <3> QED
      BY <3>1, FixTyped, FixIsTold
  <2>2. prs' = Append(prs, Fix) /\ open' = open \cup {Len(prs) + 1} /\ worker' = worker
    BY <1>4 DEF OpenFix
  <2>3. /\ \A n \in 1..Len(prs') : Told(prs'[n])
        /\ \A s \in Templates : Mine(s, worker[s], prs') /\ Behind(worker[s], open')
    BY <2>1, <2>2, StaleGrows
  <2> QED
    BY <2>2, <2>3 DEF StaleInv
<1> QED
  BY <1>2, <1>3, <1>4, HumanCases

LEMMA StaleNext == ASSUME Recognisable PROVE Typed /\ StaleInv /\ [Next]_vars => StaleInv'
<1> SUFFICES ASSUME Typed, StaleInv, [Next]_vars PROVE StaleInv'
  OBVIOUS
<1>1. ASSUME NEW t \in Templates, Step(t) PROVE StaleInv'
  BY <1>1, UpdateKeeps, CreateKeeps, LabelKeeps, ReadKeeps, CloseKeeps DEF Step
<1>2. CASE Human
  BY <1>2, HumanKeeps
<1>3. CASE UNCHANGED vars
  BY <1>3 DEF vars, StaleInv
<1> QED
  BY <1>1, <1>2, <1>3 DEF Next

(* A worker closes only pull requests of its own template, and never the   *)
(* one it has opened or updated, whatever people and the other workers do  *)
(* (isSyncBranchForTemplate, isSyncPRForTemplate).                         *)
THEOREM ClosesItsOwnHolds == ASSUME Recognisable PROVE Spec => ClosesItsOwn
<1> DEFINE Own == \A t \in Templates : \A n \in worker[t].found \ worker'[t].found :
                     n \notin open' => prs[n].template = t /\ n # worker[t].own
<1>1. Typed /\ StaleInv => Own
  BY DEF Typed, StaleInv, Sound, Mine
<1> HIDE DEF Own
<1>2. Typed /\ StaleInv /\ [Next]_vars => [Own]_vars
  BY <1>1
<1>3. Spec => [][Own]_vars
  BY <1>2, TypedInit, TypedNext, StaleInit, StaleNext, PTL DEF Spec
<1> QED
  BY <1>3 DEF ClosesItsOwn, Own

(* A worker that reads the last page, or has closed the last one found,    *)
(* has closed all it should.                                               *)
AllClosed(t) == worker[t].phase \in {"list", "close"} /\ worker'[t].phase = "done"
                /\ ~worker'[t].left
                => worker[t].older \cap open' \subseteq worker'[t].refused

LEMMA ReadCloses ==
    ASSUME Typed, StaleInv, NEW t \in Templates, ReadPage(t), ~worker[t].left,
           worker'[t].phase = "done"
    PROVE  worker[t].older \cap open' = {}
<1> DEFINE got == Page(worker[t].page)
           found == worker[t].found \cup {n \in got : stale(t, n)}
<1>1. /\ worker[t] \in Worker /\ worker \in [Templates -> Worker]
      /\ worker[t].phase = "list" /\ open' = open
  BY DEF Typed, ReadPage
<1>2. \A n \in worker[t].older \cap open : n \in found \/ AnotherPage(got)
  BY <1>1, ReadFinds
<1> HIDE DEF found, got
<1>3. ~AnotherPage(got) /\ found = {}
  <2>1. CASE AnotherPage(got) /\ Set(t, [worker[t] EXCEPT !.page = @ + 1, !.found = found])
    BY <1>1, <2>1 DEF Set, Worker
  <2>2. CASE /\ ~AnotherPage(got)
             /\ Set(t, [worker[t] EXCEPT !.found = found,
                          !.phase = IF found = {} THEN "done" ELSE "close"])
    BY <1>1, <2>2 DEF Set, Worker
  <2>3. CASE Set(t, [worker[t] EXCEPT !.found = {}, !.phase = "unlisted"])
    BY <1>1, <2>3 DEF Set, Worker
  <2> QED
    BY <2>1, <2>2, <2>3 DEF ReadPage, found, got
<1> QED
  BY <1>1, <1>2, <1>3

(* Reading does not mark.                                                  *)
LEMMA ReadMarksNothing ==
    ASSUME Typed, NEW t \in Templates, ReadPage(t) PROVE worker'[t].left = worker[t].left
<1> DEFINE got == Page(worker[t].page)
           found == worker[t].found \cup {n \in got : stale(t, n)}
<1>1. worker[t] \in Worker /\ worker \in [Templates -> Worker]
  BY DEF Typed
<1> HIDE DEF found, got
<1>2. CASE Set(t, [worker[t] EXCEPT !.page = @ + 1, !.found = found])
  BY <1>1, <1>2 DEF Set, Worker
<1>3. CASE Set(t, [worker[t] EXCEPT !.found = found,
                     !.phase = IF found = {} THEN "done" ELSE "close"])
  BY <1>1, <1>3 DEF Set, Worker
<1>4. CASE Set(t, [worker[t] EXCEPT !.found = {}, !.phase = "unlisted"])
  BY <1>1, <1>4 DEF Set, Worker
<1> QED
  BY <1>2, <1>3, <1>4 DEF ReadPage, found, got

LEMMA CloseCloses ==
    ASSUME Typed, StaleInv, NEW t \in Templates, NEW s \in Templates, ClosePR(s)
    PROVE  AllClosed(t)
<1> SUFFICES ASSUME worker[t].phase \in {"list", "close"}, worker'[t].phase = "done",
                    ~worker'[t].left
             PROVE  worker[t].older \cap open' \subseteq worker'[t].refused
  BY DEF AllClosed
<1>1. PICK n \in worker[s].found :
         LET next == [worker EXCEPT ![s] = Dealt(worker[s], n)]
         IN  /\ next \in [Templates -> Worker] /\ UNCHANGED <<prs, acts>>
             /\ worker[s].phase = "close"
             /\ \/ open' = open \ {n} /\ worker' = Leaves(n, next)
                \/ /\ open' = open
                   /\ Set(s, [Dealt(worker[s], n) EXCEPT !.refused = @ \cup {n}])
  BY CloseCases
<1> DEFINE w == Dealt(worker[s], n)
           next == [worker EXCEPT ![s] = w]
           v == [w EXCEPT !.refused = @ \cup {n}]
<1>2. worker \in [Templates -> Worker] /\ worker[s] \in Worker /\ Behind(worker[t], open)
  BY DEF Typed, StaleInv
<1>3. /\ w \in Worker /\ w.phase = (IF worker[s].found = {n} THEN "done" ELSE "close")
      /\ w.left = worker[s].left /\ w.refused = worker[s].refused
  BY <1>1, <1>2, DealtTyped
<1>4. /\ v.phase = w.phase /\ v.left = w.left /\ v.refused = w.refused \cup {n}
  BY <1>3 DEF Worker
<1>5. next \in [Templates -> Worker]
  BY <1>1
<1>6. \A r \in Templates : next[r] = IF r = s THEN w ELSE worker[r]
  BY <1>2
<1>7. \/ open' = open \ {n} /\ worker' = Leaves(n, next)
      \/ open' = open /\ Set(s, v)
  BY <1>1
<1> HIDE DEF w, next, v
<1>8. /\ t = s
      /\ \/ open' = open \ {n} /\ worker'[s] = w
         \/ open' = open /\ worker'[s] = v
  <2>1. CASE open' = open \ {n} /\ worker' = Leaves(n, next)
    <3>1. worker'[t] = next[t]
      BY <1>5, <2>1, LeavesTyped
    <3>2. t = s
      BY <1>6, <3>1
    <3> QED
      BY <1>6, <2>1, <3>1, <3>2
  <2>2. CASE open' = open /\ Set(s, v)
    BY <1>2, <2>2 DEF Set
  <2> QED
    BY <1>7, <2>1, <2>2
<1>9. worker[s].found = {n} /\ ~worker[s].left
  BY <1>3, <1>4, <1>8
<1>10. worker[s].older \cap open \subseteq {n} \cup worker[s].refused
  BY <1>1, <1>2, <1>8, <1>9 DEF Behind
<1> QED
  BY <1>3, <1>4, <1>8, <1>10

(* What people and the other workers do ends no worker.                    *)
LEMMA OthersEndNothing ==
    ASSUME Typed, NEW t \in Templates,
           \/ Human
           \/ \E s \in Templates \ {t} : UpdatePR(s) \/ CreatePR(s) \/ LabelPR(s) \/ ReadPage(s)
           \/ UNCHANGED vars
    PROVE  worker'[t].phase = worker[t].phase
<1>1. worker \in [Templates -> Worker] /\ worker[t] \in Worker
  BY DEF Typed
<1>2. ASSUME NEW n \in open, Finish(n) PROVE worker'[t].phase = worker[t].phase
  <2>1. worker'[t] \in {worker[t], [worker[t] EXCEPT !.left = TRUE]}
    BY <1>1, <1>2, LeavesTyped DEF Finish
  <2> QED
    BY <1>1, <2>1 DEF Worker
<1>3. ASSUME NEW n \in DOMAIN prs \ open, ReopenPR(n)
      PROVE  worker'[t].phase = worker[t].phase
  BY <1>1, <1>3 DEF ReopenPR, Worker
<1>4. ASSUME OpenFix PROVE worker'[t].phase = worker[t].phase
  BY <1>4 DEF OpenFix
<1>5. ASSUME Human PROVE worker'[t].phase = worker[t].phase
  BY <1>2, <1>3, <1>4, <1>5, HumanCases
<1>6. ASSUME NEW s \in Templates \ {t},
             UpdatePR(s) \/ CreatePR(s) \/ LabelPR(s) \/ ReadPage(s)
      PROVE  worker'[t].phase = worker[t].phase
  <2>1. \E w : Set(s, w)
    BY <1>6 DEF UpdatePR, CreatePR, LabelPR, ReadPage
  <2> QED
    BY <1>1, <2>1 DEF Set
<1> QED
  BY <1>5, <1>6 DEF vars

LEMMA StaleStep ==
    ASSUME Typed, StaleInv, [Next]_vars, NEW t \in Templates PROVE AllClosed(t)
<1>1. CASE UpdatePR(t) \/ CreatePR(t) \/ LabelPR(t)
  BY <1>1 DEF UpdatePR, CreatePR, LabelPR, AllClosed
<1>2. CASE ReadPage(t)
  <2>1. worker'[t].left = worker[t].left
    BY <1>2, ReadMarksNothing
  <2> QED
    BY <1>2, <2>1, ReadCloses DEF AllClosed
<1>3. ASSUME NEW s \in Templates, ClosePR(s) PROVE AllClosed(t)
  BY <1>3, CloseCloses
<1>4. CASE \/ Human
           \/ \E s \in Templates \ {t} : UpdatePR(s) \/ CreatePR(s) \/ LabelPR(s) \/ ReadPage(s)
           \/ UNCHANGED vars
  <2>1. worker'[t].phase = worker[t].phase
    BY <1>4, OthersEndNothing
  <2> QED
    BY <2>1 DEF AllClosed
<1> QED
  BY <1>1, <1>2, <1>3, <1>4 DEF Next, Step

(* When a worker is done, no older labelled pull request of its template   *)
(* is open any more, except one it failed to close, if none left the       *)
(* listing while it was read and nobody reopened it, however many pages    *)
(* there are and whatever is opened meanwhile (closeStalePRs, List).       *)
THEOREM StaleAreClosedHolds == ASSUME Recognisable PROVE Spec => StaleAreClosed
<1> DEFINE All == \A t \in Templates : AllClosed(t)
<1>1. Typed /\ StaleInv /\ [Next]_vars => All
  BY StaleStep
<1> HIDE DEF All
<1>2. Typed /\ StaleInv /\ [Next]_vars => [All]_vars
  BY <1>1
<1>3. Spec => [][All]_vars
  BY <1>2, TypedInit, TypedNext, StaleInit, StaleNext, PTL DEF Spec
<1> QED
  BY <1>3 DEF StaleAreClosed, All, AllClosed
=============================================================================
