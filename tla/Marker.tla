-------------------------------- MODULE Marker --------------------------------
(***************************************************************************)
(* The marker strategy (internal/template/marker.go): the sections of a    *)
(* template replace the sections of the same name in a target's file, the  *)
(* missing ones are appended, and the rest belongs to the owners.  A file  *)
(* is a sequence of pieces: markers, text and line ends.  Syncs, new       *)
(* versions of the template and edits of the owners follow each other.     *)
(***************************************************************************)
EXTENDS Integers, Sequences, SequencesExt

CONSTANTS
    Names,          \* names of sections
    Words,          \* texts
    Files,          \* files before the first sync
    Templates,      \* contents the template has over time
    MaxEdits        \* bound on edits of the owners

Begin(n) == [kind |-> "begin", of |-> n]
End(n) == [kind |-> "end", of |-> n]
Text(w) == [kind |-> "text", of |-> w]
LF == [kind |-> "eol", of |-> "lf"]
CRLF == [kind |-> "eol", of |-> "crlf"]
Pieces == {Begin(n) : n \in Names} \cup {End(n) : n \in Names}
          \cup {Text(w) : w \in Words} \cup {LF, CRLF}

ASSUME FileAssumption ==
    /\ MaxEdits \in Nat
    /\ \A f \in Files \cup Templates : f \in Seq(Pieces)

VARIABLES template, file, edits
vars == <<template, file, edits>>

-----------------------------------------------------------------------------
Count(d, piece) == Cardinality({i \in DOMAIN d : d[i] = piece})
detectEOL(d) == IF Count(d, CRLF) > Count(d, LF) THEN CRLF ELSE LF
normalizeEOL(d, eol) == [i \in DOMAIN d |-> IF d[i].kind = "eol" THEN eol ELSE d[i]]

(* One marker of the ordered scan: sections do not nest, and each ends     *)
(* under its own name.  A section goes from its BEGIN through its END.     *)
upToEnd(d, from, to) == SubSeq(d, from, to - 1)         \* mutant: END is left out
content(d, from, to) == SubSeq(d, from, to)
scan(d, s, i) ==
    CASE d[i].kind = "begin" /\ s.open = 0 -> [s EXCEPT !.open = i]
      [] d[i].kind = "begin" /\ s.open # 0 -> [s EXCEPT !.ok = FALSE]
      [] d[i].kind = "end" /\ s.open # 0 /\ d[s.open].of = d[i].of ->
            [s EXCEPT !.open = 0,
               !.found = Append(@, [name |-> d[i].of, content |-> content(d, s.open, i)])]
      [] d[i].kind = "end" /\ (s.open = 0 \/ d[s.open].of # d[i].of) -> [s EXCEPT !.ok = FALSE]
      [] OTHER -> s
extractSections(d) ==
    LET step(s, i) == IF s.ok THEN scan(d, s, i) ELSE s
        all == FoldLeftDomain(step, [ok |-> TRUE, open |-> 0, found |-> <<>>], d)
    IN  [ok |-> all.ok /\ all.open = 0, found |-> all.found]

(* bytes.Replace with a count of one.                                      *)
replaceFirst(d, old, new) ==
    LET here(i) == SubSeq(d, i, i + Len(old) - 1) = old
        at == CHOOSE i \in 1..(Len(d) - Len(old) + 1) : here(i) /\ \A j \in 1..(i - 1) : ~here(j)
    IN  SubSeq(d, 1, at - 1) \o new \o SubSeq(d, at + Len(old), Len(d))

(* One section of the template: the first of its name is replaced; a new   *)
(* one is appended after a line end.                                       *)
anySection(existing, name) == DOMAIN existing           \* mutant: whatever its name
noSection(existing, name) == {}                         \* mutant: always appended
sameName(existing, name) == {i \in DOMAIN existing : existing[i].name = name}
Failed == [ok |-> FALSE, out |-> <<>>]
place(eol, r, s) ==
    LET existing == extractSections(r.out)
        same == sameName(existing.found, s.name)
        first == CHOOSE i \in same : \A j \in same : i <= j
    IN  CASE ~r.ok \/ ~existing.ok -> Failed
          [] r.ok /\ existing.ok /\ same = {} -> [r EXCEPT !.out = @ \o <<eol>> \o s.content]
          [] OTHER -> [r EXCEPT !.out = replaceFirst(@, existing.found[first].content, s.content)]

(* A new file gets the template as it is, unparsed; a template without     *)
(* sections replaces the file.                                             *)
renderMarker(t, d) ==
    LET eol == detectEOL(d)
        normal == normalizeEOL(t, eol)
        parsed == extractSections(normal)
        step(r, s) == place(eol, r, s)
    IN  CASE d = <<>> -> [ok |-> TRUE, out |-> t]
          [] d # <<>> /\ ~parsed.ok -> Failed
          [] d # <<>> /\ parsed.ok /\ parsed.found = <<>> -> [ok |-> TRUE, out |-> normal]
          [] OTHER -> FoldLeft(step, [ok |-> TRUE, out |-> d], parsed.found)

-----------------------------------------------------------------------------
Init == template \in Templates /\ file \in Files /\ edits = 0

(* A sync whose pull request is merged; one that fails changes nothing.    *)
Sync == /\ renderMarker(template, file).ok
        /\ file' = renderMarker(template, file).out
        /\ UNCHANGED <<template, edits>>

Bump == template' \in Templates \ {template} /\ UNCHANGED <<file, edits>>

(* The owners delete a piece, anywhere.                                    *)
Edit == /\ edits < MaxEdits /\ edits' = edits + 1
        /\ \E i \in DOMAIN file : file' = RemoveAt(file, i)
        /\ UNCHANGED template

Next == Sync \/ Bump \/ Edit
Spec == Init /\ [][Next]_vars

-----------------------------------------------------------------------------
(* The reference: sections as the reader of a file sees them, without the  *)
(* scan of the code.                                                       *)
Marks(d) == {i \in DOMAIN d : d[i].kind \in {"begin", "end"}}
Pairs(d) == {p \in Marks(d) \X Marks(d) :
    /\ p[1] < p[2] /\ ~ \E m \in Marks(d) : p[1] < m /\ m < p[2]
    /\ d[p[1]].kind = "begin" /\ d[p[2]] = End(d[p[1]].of)}
WellFormed(d) == \A m \in Marks(d) : \E p \in Pairs(d) : m \in {p[1], p[2]}
Named(d, n) == {p \in Pairs(d) : d[p[1]].of = n}
FirstOf(d, n) == CHOOSE p \in Named(d, n) : \A q \in Named(d, n) : p[1] <= q[1]
LastOf(d, n) == CHOOSE p \in Named(d, n) : \A q \in Named(d, n) : q[1] <= p[1]
Body(d, p) == SubSeq(d, p[1], p[2])
Managed(t) == {n \in Names : Named(t, n) # {}}
Unique(t) == \A n \in Names : Cardinality(Named(t, n)) <= 1
OneEOL(d) == Count(d, LF) = 0 \/ Count(d, CRLF) = 0

(* What the owners have: all but the first section of each managed name.   *)
Owned(t, d) ==
    LET mine == {i \in DOMAIN d : \A n \in Managed(t) : Named(d, n) # {}
                    => ~ (FirstOf(d, n)[1] <= i /\ i <= FirstOf(d, n)[2])}
        take(s, i) == IF i \in mine THEN Append(s, d[i]) ELSE s
    IN  FoldLeftDomain(take, <<>>, d)
Synced == template' = template /\ edits' = edits /\ file' # file

(* "unmanaged content should be preserved" (render_test.go:60): a sync     *)
(* leaves what the owners have, in order, and adds one line end for each   *)
(* section it appends (renderMarker, for a template with sections).        *)
OwnedIsKept ==
    [][Synced /\ file # <<>> /\ Managed(template) # {} =>
         LET new == {n \in Managed(template) : Named(file, n) = {}}
         IN  Owned(template, file') =
                Owned(template, file) \o [k \in 1..Cardinality(new) |-> detectEOL(file)]]_vars

(* TMPLT: the first section of each managed name becomes the template's,   *)
(* in the line ends of the file (renderMarker).                            *)
ManagedIsCurrent ==
    [][Synced /\ file # <<>> => \A n \in Managed(template) :
         /\ Named(file', n) # {}
         /\ Body(file', FirstOf(file', n)) =
               normalizeEOL(Body(template, LastOf(template, n)), detectEOL(file))]_vars

(* A sync of a well-formed template never leaves a file whose sections     *)
(* cannot be parsed, which every later sync would refuse (extractSections). *)
NeverLockedOut ==
    [][Synced /\ WellFormed(template) /\ WellFormed(file) => WellFormed(file')]_vars

(* A second sync changes nothing: no pull request after the pull request   *)
(* (renderMarker, for a well-formed template with unique names and a file  *)
(* with one kind of line end).                                             *)
SettlesAtOnce ==
    [][Synced /\ WellFormed(template) /\ Unique(template) /\ OneEOL(file)
         => renderMarker(template, file') = [ok |-> TRUE, out |-> file']]_vars

(* ... whatever the line ends: "doesn't introduce spurious CRLF/LF churn"  *)
(* (marker.go:135-137) .                                                    *)
NoChurn ==
    [][Synced /\ WellFormed(template) /\ Unique(template)
         => renderMarker(template, file') = [ok |-> TRUE, out |-> file']]_vars
=============================================================================
