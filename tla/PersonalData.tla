---------------------------- MODULE PersonalData --------------------------------
(***************************************************************************)
(* Finding and redacting personal data in a text (core/src/privacy):       *)
(* detectors report spans, a composite keeps those that overlap none kept  *)
(* before (composite-detector.ts), the redactor replaces the spans from    *)
(* the last to the first (pii-redactor.ts). A text is a sequence of cells: *)
(* a character is its place, a replacement is Width cells.  The token      *)
(* vault (core/src/privacy/pii-vault.ts) on the way through the gateway:   *)
(* values in a text become tokens, tokens become values again where a tool *)
(* may see them. A text is a sequence of words: data of a class, or a      *)
(* token, or plain.                                                        *)
(***************************************************************************)
EXTENDS Naturals, Sequences, FiniteSets, SequencesExt

CONSTANTS
  Size,       \* characters of the text
  Types, Spans,   \* the types of data and the spans that a detector may report
  Width,      \* how long a replacement is
  Modes       \* the modes of the redactor that are considered

VARIABLES
  found,      \* what the two detectors reported, in their order
  options,    \* [mode, allowed, blocked, fail]
  composite,  \* the two are one composite detector, or only the first is used
  result      \* what became of the text: [text, findings, blocked], or <<>>
redactionVars == <<found, options, composite, result>>

Text == [i \in 1 .. Size |-> i]
Overlap(a, b) == a.start < b.end /\ a.end > b.start

\* A match is kept unless it overlaps one that was kept.
Merged(first, second) ==
  FoldLeft(LAMBDA kept, m : IF \E i \in DOMAIN kept : Overlap(m, kept[i]) THEN kept ELSE Append(kept, m),
           <<>>, first \o second)

Detect == IF composite THEN Merged(found[1], found[2]) ELSE found[1]

\* Replaced as it is unless its class is allowed, and not blocked as well.
Spared(m) == options.mode = "detect-only" \/ (m.type \in options.allowed \ options.blocked)
Reported(m) == options.mode = "detect-only" /\ m.type \in options.blocked /\ options.fail
               /\ m.type \notin options.allowed \ options.blocked

\* substring(0, start) + replacement + substring(end); whose end is past the text is
\* the text's end.
Splice(t, m) ==
  SubSeq(t, 1, m.start) \o [i \in 1 .. Width |-> 0]
    \o SubSeq(t, m.end + 1, Len(t))

\* By start from the last to the first, in the order of detection where two agree.
\* (Matches carry their place, which keeps the order of equal starts.)
LastFirst(matches) ==
  [i \in DOMAIN matches |-> matches[
     SortSeq([j \in DOMAIN matches |-> j],
             LAMBDA a, b : matches[a].start > matches[b].start
                             \/ (matches[a].start = matches[b].start /\ a < b))[i]]]

Redact(matches) ==
  [text |-> FoldLeft(LAMBDA t, m : IF Spared(m) THEN t ELSE Splice(t, m),
                     Text, LastFirst(matches)),
   findings |-> matches,
   blocked |-> \E i \in DOMAIN matches : Reported(matches[i])]

RedactionInit ==
  /\ found \in {<<a, b>> : a \in SeqOf(Spans, 2), b \in SeqOf(Spans, 1)}
  /\ options \in [mode : Modes, allowed : SUBSET Types, blocked : SUBSET Types, fail : BOOLEAN]
  /\ composite \in BOOLEAN
  /\ result = <<>>

\* The stage of the compiler redacts a concept; a text that is blocked ends the build.
RedactConcept ==
  /\ result = <<>>
  /\ result' = <<Redact(Detect)>>
  /\ UNCHANGED <<found, options, composite>>

-----------------------------------------------------------------------------
(* Properties *)

Kept(i) == \E k \in DOMAIN result[1].text : result[1].text[k] = i
In(i, m) == m.start < i /\ i <= m.end
Disjoint(matches) ==
  \A i, j \in DOMAIN matches : i # j => ~Overlap(matches[i], matches[j])

\* What a detector finds that reports no overlapping spans is gone from the text, and
\* everything else stays as it was: the places do not shift.  The composite detector is
\* such a one, whatever its detectors report.
FoundIsGone ==
  result # <<>> /\ options.mode # "detect-only"
      /\ (composite \/ Disjoint(result[1].findings)) =>
    \A i \in 1 .. Size :
      Kept(i) = \A k \in DOMAIN result[1].findings :
                  LET m == result[1].findings[k]
                  IN In(i, m) => m.type \in options.allowed \ options.blocked

-----------------------------------------------------------------------------
CONSTANTS Classes, Values, Secrets, MaxWords, MaxOps   \* the last two are bounds

VARIABLES
  secret, entries,  \* the vault: its secret and [token, data] of what it stored
  text, origin,     \* the text on its way, and what it said at first
  ops, lastOp         \* how many operations, and the last: [op, classes, before]
vaultVars == <<secret, entries, text, origin, ops, lastOp>>

\* A word is its kind, its class and what stands there.
Data == [kind : {"data"}, class : Classes, is : {<<v>> : v \in Values}]
Plain == [kind |-> "plain", class |-> "none", is |-> <<>>]

TypeOK ==
  /\ secret \in Secrets /\ ops \in 0 .. MaxOps
  /\ \A e \in entries : e.token.kind = "token" /\ e.data \in Data
  /\ Len(text) = Len(origin)

\* The mistake of numbering the tokens of a vault.
CountedToken(w, place) == [w EXCEPT !.kind = "token", !.is = <<place>>]

\* The token of a value: an HMAC of class and value under the secret of the vault; it
\* does not depend on what the vault has stored.
DeterministicToken(w, place) == [w EXCEPT !.kind = "token", !.is = <<w.class, w.is[1], secret>>]

\* An entry that is there stays.
Stored(new) == entries \cup {e \in new : \A f \in entries : f.token # e.token}

VaultInit ==
  /\ secret \in Secrets /\ entries = {}
  /\ text \in SeqOf(Data \cup {Plain}, MaxWords) /\ origin = text
  /\ ops = 0 /\ lastOp = [op |-> "none", classes |-> {}, before |-> <<>>]

Does(op, classes) ==
  /\ ops < MaxOps /\ ops' = ops + 1
  /\ lastOp' = [op |-> op, classes |-> classes, before |-> text]
  /\ UNCHANGED origin

\* A token in the text is none of the data that the patterns find.
TokenizeText ==
  LET there == {i \in DOMAIN text : text[i].kind = "data"}
      token == [i \in there |-> DeterministicToken(text[i], Cardinality(entries) + i)]
  IN /\ Does("tokenize", Classes)
     /\ text' = [i \in DOMAIN text |-> IF i \in there THEN token[i] ELSE text[i]]
     /\ entries' = Stored({[token |-> token[i], data |-> text[i]] : i \in there})
     /\ UNCHANGED secret

DetokenizeText(classes) ==
  /\ Does("detokenize", classes)
  /\ text' = [i \in DOMAIN text |->
                LET is == {e \in entries : e.token = text[i] /\ e.data.class \in classes}
                IN IF is = {} THEN text[i] ELSE (CHOOSE e \in is : TRUE).data]
  /\ UNCHANGED <<secret, entries>>

\* Another text goes through the vault.
TokenizeOther(w) ==
  /\ Does("other", {})
  /\ entries' = Stored({[token |-> DeterministicToken(w, Cardinality(entries) + 1), data |-> w]})
  /\ UNCHANGED <<secret, text>>

\* The process ends: the entries were in memory.  The next one may have another secret.
Restart ==
  /\ Does("restart", {})
  /\ secret' \in Secrets /\ entries' = {}
  /\ UNCHANGED text

VaultNext ==
  \/ TokenizeText
  \/ Restart
  \/ \E w \in Data : TokenizeOther(w)
  \/ \E classes \in SUBSET Classes : DetokenizeText(classes)

-----------------------------------------------------------------------------
(* Properties *)

\* Whatever happened, restarts and other texts included, a word that is data is the data
\* it was: a token of this vault is never resolved to another value.
NothingIsMistaken ==
  \A i \in DOMAIN text : text[i].class = origin[i].class /\ (text[i].kind # "token" => text[i] = origin[i])

\* A class that a tool may not see stays hidden, and what is hidden comes back by a
\* detokenization that allows its class.
HiddenStaysHidden ==
  [][\A i \in DOMAIN text : text[i].kind = "token" /\ text'[i].kind = "data" =>
       lastOp'.op = "detokenize" /\ text[i].class \in lastOp'.classes]_vaultVars

=================================================================================
