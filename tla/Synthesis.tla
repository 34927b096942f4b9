-------------------------------- MODULE Synthesis --------------------------------
(***************************************************************************)
(* Plain documents become governed ones (core/src/synthesis/               *)
(* okf-synthesizer.ts): front matter is inferred, sensitivity is raised by *)
(* what is found in the text, and mentions of other documents become       *)
(* links; again and again, in place or into another directory, while       *)
(* people edit.  A text, an id and a title are sequences of tokens, among  *)
(* them the brackets and the bar of links.  At the end, the factory that   *)
(* makes new documents of a form.                                          *)
(***************************************************************************)
EXTENDS Naturals, Sequences, FiniteSets, FiniteSetsExt, SequencesExt

CONSTANTS
  Paths,         \* of name and extension, in the order in which they are read
  Slugs, Titles, \* of a name, the id and the title that are made of it
  Drafts,        \* of a path, what people write there
  Signals,       \* of a token, the type that it is a sign of
  Secrets, Personal,   \* tokens that the patterns find
  Short,         \* titles of less than four characters
  MaxOps         \* a bound

VARIABLES
  disk,     \* of the two directories, the contents of the files
  source,   \* the first directory before the last run
  ran,      \* the last run, if nothing happened since
  ops
vars == <<disk, source, ran, ops>>

Dirs == {"in", "out"}
Absent == [there |-> FALSE]
None == <<>>   \* a key that is not there
Blank == [id |-> None, title |-> None, type |-> None, sensitivity |-> None,
          dependsOn |-> {}, mitigates |-> {}, references |-> {}]
\* parseRawMarkdown: front matter that does not parse is text.
Frontmatter(c) == IF c.parses THEN c.fm ELSE Blank
Text(c) == IF c.parses THEN c.body ELSE <<"front">> \o c.body

Rank(s) == CASE s = "public" -> 0 [] s = "internal" -> 1 [] s = "confidential" -> 2 [] OTHER -> 3
Types == <<"Incident", "Runbook", "Policy", "Service", "Architecture", "Skill">>
NotRun == [to |-> "none", autoLink |-> FALSE]

Init ==
  /\ disk = [d \in Dirs |-> [p \in Range(Paths) |-> Absent]]
  /\ source = disk["in"] /\ ran = NotRun /\ ops = 0

Known(key, default) == IF key = None THEN default ELSE key[1]

\* Signs of the path and the title come before those of the text.
InferConceptType(fm, title, path, body) ==
  LET Signs(text) == {Signals[t] : t \in Range(text) \cap DOMAIN Signals}
      header == Signs(title \o Titles[path[1]])
      found == {i \in DOMAIN Types : Types[i] \in Signs(title \o Titles[path[1]] \o body)}
  IN CASE fm.type # None -> fm.type[1]
       [] fm.type = None /\ "Runbook" \in header -> "Runbook"
       [] fm.type = None /\ "Runbook" \notin header /\ found # {} -> Types[Min(found)]
       [] OTHER -> "Concept"

\* The higher of what is declared and what is found in the text.
InferSensitivity(fm, body) ==
  LET base == Known(fm.sensitivity, "internal")
      needed == IF Range(body) \cap Secrets # {} THEN "restricted"
                ELSE IF Range(body) \cap Personal # {} THEN "confidential" ELSE base
  IN IF Rank(needed) > Rank(base) THEN needed ELSE base

Draft(path, c) ==
  LET fm == Frontmatter(c)
      title == Known(fm.title, Titles[path[1]])
  IN [path |-> <<path[1], "md">>, id |-> Known(fm.id, Slugs[path[1]]), title |-> title,
      type |-> InferConceptType(fm, title, path, Text(c)),
      sensitivity |-> InferSensitivity(fm, Text(c)), fm |-> fm, body |-> Text(c)]

At(text, term, p) ==
  p + Len(term) - 1 <= Len(text) /\ SubSeq(text, p, p + Len(term) - 1) = term
\* [[id]] or [[id|...]]
Linked(text, id) ==
  \E p \in DOMAIN text :
    LET rest == p + Len(id) + 1
        closed == {q \in rest .. Len(text) : text[q] = "]]"}
    IN text[p] = "[[" /\ At(text, id, p + 1) /\ closed # {}
       /\ (Min(closed) = rest \/ (text[rest] = "|" /\ Min(closed) > rest + 1))
\* Where the term stands and is not next to a bracket.
Mentions(text, term) ==
  {p \in DOMAIN text :
     /\ At(text, term, p)
     /\ p > 1 => text[p - 1] # "[["
     /\ p + Len(term) <= Len(text) => text[p + Len(term)] # "]]"}

\* The text with a link to d in the place of the first mention of one of its names.
Put(text, d, term) ==
  LET p == Min(Mentions(text, term))
  IN SubSeq(text, 1, p - 1) \o <<"[[">> \o d.id \o (IF term = d.id THEN <<>> ELSE <<"|">> \o term)
       \o <<"]]">> \o SubSeq(text, p + Len(term), Len(text))

\* A mistaken Link: a text that links to d already is given another link.
LinkNext(text, d) ==
  IF Mentions(text, d.id) # {} THEN Put(text, d, d.id)
  ELSE IF d.title \notin Short /\ Mentions(text, d.title) # {} THEN Put(text, d, d.title)
  ELSE text

\* The first mention by id, or else the first by title, becomes a link.
Link(text, d) ==
  IF Linked(text, d.id) THEN text
  ELSE IF Mentions(text, d.id) # {} THEN Put(text, d, d.id)
  ELSE IF d.title \notin Short /\ Mentions(text, d.title) # {} THEN Put(text, d, d.title)
  ELSE text

\* The second pass: links, and the relations that follow from the types of both ends.
AutoLink(drafts, d) ==
  LET others == SelectSeq(drafts, LAMBDA e : e.id # d.id)
      body == FoldLeft(Link, d.body, others)
      \* linked before its turn, or by it
      linked == {others[i] : i \in {i \in DOMAIN others :
                  Linked(FoldLeft(Link, d.body, SubSeq(others, 1, i)), others[i].id)}}
      First(id) == SelectSeq(drafts, LAMBDA e : e.id = id)[1]
      To(e) == CASE d.type = "Runbook" /\ First(e.id).type = "Incident" -> "mitigates"
                 [] d.type \in {"Runbook", "Incident"} /\ First(e.id).type = "Service" -> "dependsOn"
                 [] OTHER -> "references"
      Relations(r) == d.fm[r] \cup {e.id : e \in {e \in linked : To(e) = r}}
  IN [d EXCEPT !.body = body, !.fm.dependsOn = Relations("dependsOn"),
               !.fm.mitigates = Relations("mitigates"), !.fm.references = Relations("references")]

Serialized(d) ==
  [there |-> TRUE, parses |-> TRUE, body |-> d.body,
   fm |-> [d.fm EXCEPT !.id = <<d.id>>, !.title = <<d.title>>, !.type = <<d.type>>, !.sensitivity = <<d.sensitivity>>]]

DraftsOf(files) ==
  LET there == SelectSeq(Paths, LAMBDA p : files[p].there)
  IN [i \in DOMAIN there |-> Draft(there[i], files[there[i]])]

\* What a run writes; of two documents of one name the last stays.
Written(files, autoLink) ==
  LET drafts == DraftsOf(files)
      done == IF autoLink THEN [i \in DOMAIN drafts |-> AutoLink(drafts, drafts[i])] ELSE drafts
      To(p) == {i \in DOMAIN done : done[i].path = p}
  IN [p \in {d.path : d \in Range(done)} |-> Serialized(done[Max(To(p))])]

\* synthesizeOkfBundle; a dry run writes nothing.
SynthesizeOkfBundle(to, autoLink) ==
  /\ ops < MaxOps /\ ops' = ops + 1
  /\ LET new == Written(disk["in"], autoLink)
     IN disk' = [disk EXCEPT ![to] = [p \in DOMAIN @ |-> IF p \in DOMAIN new THEN new[p] ELSE @[p]]]
  /\ source' = disk["in"] /\ ran' = [to |-> to, autoLink |-> autoLink]

\* People write, rewrite and delete documents.
Write(path) ==
  /\ ops < MaxOps /\ ops' = ops + 1
  /\ disk' \in {[disk EXCEPT !["in"][path] = c] : c \in Drafts[path] \cup {Absent}} /\ disk' # disk
  /\ ran' = NotRun /\ UNCHANGED source

Next ==
  \/ \E to \in Dirs, autoLink \in BOOLEAN : SynthesizeOkfBundle(to, autoLink)
  \/ \E p \in Range(Paths) : Write(p)

-----------------------------------------------------------------------------
(* Properties *)

\* The file that what a run wrote was made of, which is the .txt if there are both.
MadeOf(path) ==
  LET candidates == {p \in Range(Paths) : p[1] = path[1] /\ source[p].there}
  IN source[IF <<path[1], "txt">> \in candidates THEN <<path[1], "txt">> ELSE path]
Output == {p \in Range(Paths) : ran.to # "none" /\ p[2] = "md" /\ \E q \in Range(Paths) : q[1] = p[1] /\ source[q].there}

\* A run lowers the sensitivity of nothing whose front matter parses, and takes no relation
\* from it; what a secret or a personal datum stands in is restricted or at least
\* confidential.
SensitivityHolds ==
  \A p \in Output :
    LET c == disk[ran.to][p]
        has == Range(c.body)
    IN /\ Rank(c.fm.sensitivity[1]) >= Rank(Known(Frontmatter(MadeOf(p)).sensitivity, "internal"))
       /\ \A r \in {"dependsOn", "mitigates", "references"} : Frontmatter(MadeOf(p))[r] \subseteq c.fm[r]
       /\ has \cap Secrets # {} => c.fm.sensitivity[1] = "restricted"
       /\ has \cap Personal # {} => Rank(c.fm.sensitivity[1]) >= 2

\* No name of a document is mentioned in a name of another one.
Distinct(files) ==
  LET drafts == Range(DraftsOf(files))
      Names(d) == {d.id, d.title}
  IN \A d, e \in drafts : d.id # e.id =>
       \A m \in Names(d), n \in Names(e) : \A p \in DOMAIN m : ~At(m, n, p)
Brackets(text) == SelectSeq(text, LAMBDA t : t \in {"[[", "]]"})
\* A text without what makes links of it.
Bare(text) ==
  LET After(p) == {q \in p + 1 .. Len(text) : text[q] \in {"|", "]]"}}
      Before(p) == {q \in 1 .. p - 1 : text[q] \in {"[[", "]]"}}
      Target(p) == Before(p) # {} /\ text[Max(Before(p))] = "[[" /\ After(p) # {} /\ text[Min(After(p))] = "|"
      kept == {p \in DOMAIN text : text[p] \notin {"[[", "|", "]]"} /\ ~Target(p)}
      places == SetToSortSeq(kept, <)
  IN [k \in DOMAIN places |-> text[places[k]]]
\* A run changes no word of a text that people wrote, and the links that it makes are whole,
\* if no name of a document is part of another's.
LinksAreWhole ==
  Distinct(source) =>
    \A p \in Output :
      LET body == disk[ran.to][p].body
      IN /\ Bare(body) = Bare(Text(MadeOf(p)))
         /\ \A i \in DOMAIN Brackets(body) : Brackets(body)[i] = IF i % 2 = 1 THEN "[[" ELSE "]]"

\* A second run changes nothing, unless names are parts of others or a text and a document
\* of one name stood side by side before the first.
SecondRunIsIdle ==
  [][ran # NotRun /\ ran' = ran /\ ops' # ops /\ Distinct(source)
       /\ (\A p, q \in Range(Paths) : p[1] = q[1] /\ source[p].there /\ source[q].there => p = q)
     => disk' = disk]_vars

-----------------------------------------------------------------------------
(* OKFDocumentFactory (core/src/factories/okf-document-factory.ts): which  *)
(* concept a new document is, by its kind and the names it is made of, and *)
(* which keys its frontmatter has.  A name is a sequence of characters, as *)
(* the identity of a document is what slugify makes of it.                 *)

CONSTANTS Days, NameLength   \* NameLength bounds the names

Lower == [c \in {"A", "B"} |-> IF c = "A" THEN "a" ELSE "b"]
Letters == {"a", "b"}
Chars == Letters \cup DOMAIN Lower \cup {" ", "-", "+"}
Options == {"level", "description", "tags", "url", "location"}

LowerCase(s) == [i \in DOMAIN s |-> IF s[i] \in DOMAIN Lower THEN Lower[s[i]] ELSE s[i]]

\* Runs of hyphens become one.
Collapse(s) ==
  FoldLeft(LAMBDA acc, c : IF c = "-" /\ acc # <<>> /\ Last(acc) = "-" THEN acc ELSE Append(acc, c),
           <<>>, s)

\* One hyphen goes at each end.
StripEnds(s) ==
  LET from == IF s # <<>> /\ s[1] = "-" THEN 2 ELSE 1
      to == IF Len(s) >= from /\ Last(s) = "-" THEN Len(s) - 1 ELSE Len(s)
  IN SubSeq(s, from, to)

Hyphens(s) == [i \in DOMAIN s |-> IF s[i] = " " THEN "-" ELSE s[i]]
Plain(s) == SelectSeq(s, LAMBDA c : c \in Letters \cup {" ", "-"})

\* slugify (its trim is subsumed: blanks at the ends end as hyphens there).
Slugify(name) == StripEnds(Collapse(Hyphens(Plain(LowerCase(name)))))

\* The options given are kept and no other key is set.
Doc(type, dir, id, own, given) ==
  [type |-> type, dir |-> dir, id |-> id, keys |-> own \cup given \cup {"type", "title", "timestamp"}]

CreateSkill(name, given) ==
  Doc("Skill", "skills", <<Slugify(name)>>, {}, given \cap {"level", "tags", "description"})
CreateExperience(company, role, given) ==
  Doc("Experience", "experiences", <<Slugify(company \o <<" ">> \o role)>>, {"company", "role"},
      given \cap {"location", "tags", "description"})
\* The position and the posting are no part of the name of an application.
CreateApplication(company, day, given) ==
  Doc("Application", "applications", <<day, Slugify(company)>>,
      {"company", "position", "url", "applicationStatus"}, given \cap {"location", "tags"})
CreateEducation(institution, given) ==
  Doc("Education", "education", <<Slugify(institution)>>, {"institution", "degree"},
      given \cap {"location", "tags", "description"})
CreateCertificate(name, given) ==
  Doc("Certificate", "certificates", <<Slugify(name)>>, {"issuer"},
      given \cap {"url", "tags", "description"})
CreateProject(name, given) ==
  Doc("Project", "projects", <<Slugify(name)>>, {}, given \cap {"url", "tags", "description"})
CreatePreference(given) ==
  Doc("Preference", "preferences", <<<<"job-search">>>>, {}, given \cap {"location", "tags", "description"})

\* What the factory makes of two names on one day.
Made(name, second, day, given) ==
  {CreateSkill(name, given), CreateExperience(name, second, given),
   CreateApplication(name, day, given), CreateEducation(name, given),
   CreateCertificate(name, given), CreateProject(name, given), CreatePreference(given)}

VARIABLES name, second, day, given
factoryVars == <<name, second, day, given>>

FactoryInit ==
  /\ name = <<>> /\ second = <<>>
  /\ day \in Days
  /\ given \in {{}, Options}

\* The names are typed, a character at a time.
Type ==
  /\ \E c \in Chars :
       \/ Len(name) < NameLength /\ name' = Append(name, c) /\ UNCHANGED second
       \/ Len(second) < 1 /\ second' = Append(second, c) /\ UNCHANGED name
  /\ UNCHANGED <<day, given>>

FactorySpec == FactoryInit /\ [][Type]_vars

-----------------------------------------------------------------------------
(* Properties *)

\* A slug is one: slugify changes it no more, it has no blank, no two hyphens in
\* a row and none at an end.
SlugIsClean ==
  \A d \in Made(name, second, day, given) :
    d.type \in {"Skill", "Experience", "Education", "Certificate", "Project"} =>
      LET slug == d.id[1] IN
        /\ Slugify(slug) = slug
        /\ \A i \in DOMAIN slug : slug[i] = "-" => i \notin {1, Len(slug)} /\ slug[i + 1] # "-"

\* Two names have one slug only when they have the same letters in the same
\* order: what is lost is case, punctuation and the kind of blank.
SlugKeepsLetters ==
  LET LettersOf(s) == SelectSeq(LowerCase(s), LAMBDA c : c \in Letters)
  IN \A d \in Made(name, second, day, given) :
       /\ d.type = "Skill" => LettersOf(d.id[1]) = LettersOf(name)
       /\ d.type = "Experience" => LettersOf(d.id[1]) = LettersOf(name \o second)
       /\ d.type = "Application" => LettersOf(d.id[2]) = LettersOf(name)
=================================================================================
