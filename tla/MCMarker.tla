------------------------------- MODULE MCMarker -------------------------------
(* Every file of at most MaxLines lines, with LF or CRLF ends, and a few   *)
(* templates, one of them malformed and one without sections.              *)
EXTENDS Marker

CONSTANTS MaxLines, a, b, x, y

Lines == {<<p, e>> : p \in {Begin(a), End(a), Begin(b), End(b), Text(x)}, e \in {LF, CRLF}}
MCFiles == {FlattenSeq(s) : s \in BoundedSeq(Lines, MaxLines)}

Section(n) == <<Begin(n), LF, Text(y), LF, End(n)>>
Short(n) == <<Begin(n), LF, End(n)>>
MCTemplates == {Section(a), Short(a), Section(a) \o <<LF>> \o Short(b), Short(a) \o <<LF>> \o Section(a),
                <<Text(y), LF>> \o Section(b), <<Text(y), LF>>, <<Begin(a)>>}
=============================================================================
