--------------------------- MODULE ContentProofs ---------------------------
(***************************************************************************)
(* What the public copy keeps for every set of keys, texts and overlapping *)
(* calls, wherever they stop: what is published is not blank as long as    *)
(* nothing empties the key meanwhile, and the portal is told of it; and,   *)
(* one call at a time, what the history keeps.                             *)
(***************************************************************************)
EXTENDS ContentProperties, TLAPS

\* The texts a call carries: none is blank if it publishes.
Texts(c) ==
    /\ c.key \in Key
    /\ c.text \in [Locale -> Text \cup {Blank}]
    /\ c.publish \in BOOLEAN
    /\ c.publish => \A l \in Locale : c.text[l] # Blank
    /\ c.todo \in {<<"en", "es">>, <<"es">>}

\* The row a call saves has the text and the status it carries.
Saves(c) ==
    /\ c.row \in ContentRow
    /\ c.row.text = c.text[Head(c.todo)]
    /\ c.row.published = c.publish
    /\ c.stored \in ContentRow \cup {None}

\* The rows a change of status carries: none is blank if it publishes.
Rows(c) ==
    /\ c.key \in Key
    /\ c.publish \in BOOLEAN
    /\ \E locales \in SUBSET Locale : c.rows \in [locales -> ContentRow]
    /\ c.publish => \A l \in DOMAIN c.rows : c.rows[l].text # Blank

Carries(c) ==
    /\ c.pc \in {"find", "save", "write", "log"} => Texts(c)
    /\ c.pc \in {"save", "write"} => Saves(c)
    /\ c.pc \in {"status", "flag"} => Rows(c)
    /\ c.pc = "flag" => c.locale \in DOMAIN c.rows /\ c.stored \in ContentRow \cup {None}

CopyPc == {"find", "save", "write", "log", "status", "flag"}

\* What the rows and the calls that handle them are made of.
CopyInv ==
    /\ content \in [Key \X Locale -> ContentRow \cup {None}]
    /\ DOMAIN call = Proc
    /\ \A p \in Proc : Carries(call[p])

-----------------------------------------------------------------------------
(* A save by columns *)

LEMMA WrittenRow ==
    ASSUME NEW now \in ContentRow \cup {None}, NEW stored \in ContentRow \cup {None}, NEW row \in ContentRow
    PROVE  /\ Written(now, stored, row) \in ContentRow
           /\ \/ Written(now, stored, row).text = row.text
              \/ /\ now # None /\ stored # None /\ stored.text = row.text
                 /\ Written(now, stored, row).text = now.text
           /\ \/ Written(now, stored, row).published = row.published
              \/ /\ now # None /\ stored # None /\ stored.published = row.published
                 /\ Written(now, stored, row).published = now.published
  BY ContentAssumption DEF Written, ContentRow

\* Of a row that is as it was read, the whole of it.
LEMMA WrittenSame ==
    ASSUME NEW now \in ContentRow \cup {None}, NEW row \in ContentRow
    PROVE  Written(now, now, row) = row
  <1>1. CASE now = None
      BY <1>1 DEF Written
  <1>2. CASE now # None
      BY <1>2 DEF Written, ContentRow
  <1> QED  BY <1>1, <1>2

\* Another status leaves the text and the version of a row.
LEMMA StatusRow ==
    ASSUME NEW r \in ContentRow, NEW b \in BOOLEAN
    PROVE  /\ [r EXCEPT !.published = b] \in ContentRow
           /\ [r EXCEPT !.published = b].text = r.text
           /\ [r EXCEPT !.published = b].published = b
           /\ [r EXCEPT !.published = b].version = r.version
  BY DEF ContentRow

-----------------------------------------------------------------------------

LEMMA GotoCarries ==
    ASSUME CopyInv, NEW p \in Proc, NEW c, Carries(c), Goto(p, c)
    PROVE  DOMAIN call' = Proc /\ \A q \in Proc : Carries(call'[q])
  BY DEF CopyInv, Goto

\* Calls that have nothing to do with the copy carry no text.
LEMMA OthersCarry ==
    ASSUME NEW c, c.pc \notin CopyPc
    PROVE  Carries(c)
  BY DEF Carries, CopyPc

\* A call that leaves the copy alone keeps the invariant.
LEMMA CopyUntouched ==
    ASSUME CopyInv, NEW p \in Proc, NEW c, Carries(c), Goto(p, c), content' = content
    PROVE  CopyInv'
  <1>1. DOMAIN call' = Proc /\ \A q \in Proc : Carries(call'[q])
      BY GotoCarries
  <1> QED  BY <1>1 DEF CopyInv

LEMMA CopySaved ==
    ASSUME CopyInv, NEW p \in Proc, NEW c, Carries(c), Goto(p, c),
           NEW key \in Key, NEW l \in Locale, NEW row \in ContentRow,
           content' = [content EXCEPT ![<<key, l>>] = row]
    PROVE  CopyInv'
  <1>1. DOMAIN call' = Proc /\ \A q \in Proc : Carries(call'[q])
      BY GotoCarries
  <1>2. content' \in [Key \X Locale -> ContentRow \cup {None}]
      BY DEF CopyInv
  <1> QED  BY <1>1, <1>2 DEF CopyInv

\* What comes after a locale carries the texts on.
LEMMA AfterCarries ==
    ASSUME NEW c, Texts(c)
    PROVE  Carries(After(c))
  <1>1. CASE c.todo = <<"en", "es">>
    <2>1. Len(c.todo) > 1 /\ Tail(c.todo) = <<"es">>
        BY <1>1
    <2> DEFINE d == [pc |-> "find", key |-> c.key, text |-> c.text, publish |-> c.publish,
                     todo |-> <<"es">>]
    <2>2. After(c) = d
        BY <2>1 DEF After
    <2>3. Texts(d)
        BY DEF Texts
    <2> QED  BY <2>2, <2>3 DEF Carries
  <1>2. CASE c.todo = <<"es">>
    <2>1. ~(Len(c.todo) > 1)
        BY <1>2
    <2>2. After(c) \in {Telling({"content"}), Idle}
        BY <2>1 DEF After
    <2>3. After(c).pc \notin CopyPc
        BY <2>2 DEF Telling, Idle, CopyPc
    <2> QED  BY <2>3, OthersCarry
  <1> QED  BY <1>1, <1>2 DEF Texts

-----------------------------------------------------------------------------
(* One lemma per statement that handles copy *)

LEMMA PutKeeps ==
    ASSUME CopyInv, NEW p \in Proc, Put(p)
    PROVE  CopyInv'
  <1>1. PICK key \in Key, typed \in [Locale -> Text \cup {Blank}], publish \in BOOLEAN :
            PutContent(p, key, typed, publish)
      BY DEF Put
  <1> DEFINE text == [l \in Locale |-> Clean(typed[l])]
             c == [pc |-> "find", key |-> key, text |-> text, publish |-> publish,
                   todo |-> <<"en", "es">>]
  <1>2. text \in [Locale -> Text \cup {Blank}]
      BY DEF Clean
  <1>3. publish => \A l \in Locale : text[l] # Blank
      BY <1>1 DEF PutContent
  <1>4. Goto(p, c) /\ content' = content
      BY <1>1 DEF PutContent, Begin, copy
  <1> HIDE DEF text
  <1>5. Texts(c)
      BY <1>2, <1>3 DEF Texts
  <1>6. Carries(c)
      BY <1>5 DEF Carries
  <1> QED  BY <1>4, <1>6, CopyUntouched

\* The row that a save is to write.
LEMMA NewRow ==
    ASSUME CopyInv, NEW b, Texts(b)
    PROVE  LET l == Head(b.todo)
               seen == content[<<b.key, l>>]
           IN  /\ l \in Locale /\ <<b.key, l>> \in Key \X Locale
               /\ seen \in ContentRow \cup {None}
               /\ [text |-> b.text[l], published |-> b.publish,
                   version |-> NextVersion(seen, b.publish)] \in ContentRow
               /\ seen # None => /\ seen.version \in Nat
                                 /\ seen.version <= NextVersion(seen, b.publish)
                                 /\ b.publish => seen.version < NextVersion(seen, b.publish)
  <1> DEFINE l == Head(b.todo)
             seen == content[<<b.key, l>>]
             version == NextVersion(seen, b.publish)
  <1>1. l \in Locale /\ <<b.key, l>> \in Key \X Locale
      BY DEF Texts, Locale
  <1>2. seen \in ContentRow \cup {None}
      BY <1>1 DEF CopyInv
  <1>3. /\ version \in Nat \ {0}
        /\ seen # None => /\ seen.version \in Nat
                          /\ seen.version <= version
                          /\ b.publish => seen.version < version
      BY <1>2 DEF NextVersion, ContentRow
  <1> HIDE DEF version
  <1>4. [text |-> b.text[l], published |-> b.publish, version |-> version] \in ContentRow
      BY <1>1, <1>3 DEF Texts, ContentRow
  <1> QED  BY <1>1, <1>2, <1>3, <1>4 DEF version

LEMMA FindKeeps ==
    ASSUME CopyInv, NEW p \in Proc, FindRow(p)
    PROVE  CopyInv'
  <1> DEFINE b == call[p]
             l == Head(b.todo)
             seen == content[<<b.key, l>>]
             row == [text |-> b.text[l], published |-> b.publish,
                     version |-> NextVersion(seen, b.publish)]
             c == [pc |-> IF seen = None THEN "write" ELSE "save", key |-> b.key, text |-> b.text,
                   publish |-> b.publish, todo |-> b.todo, row |-> row, stored |-> None]
  <1>1. Texts(b)
      BY DEF FindRow, CopyInv, Carries
  <1>2. row \in ContentRow
      BY <1>1, NewRow
  <1>3. Goto(p, c) /\ content' = content
      BY DEF FindRow, copy
  <1>4. row.text = b.text[l] /\ row.published = b.publish
      OBVIOUS
  <1> HIDE DEF row
  <1>5. Texts(c) /\ Saves(c) /\ c.pc \in {"save", "write"}
      BY <1>1, <1>2, <1>4 DEF Texts, Saves
  <1>6. Carries(c)
      BY <1>5 DEF Carries
  <1> HIDE DEF c
  <1> QED  BY <1>3, <1>6, CopyUntouched

LEMMA RereadKeeps ==
    ASSUME CopyInv, NEW p \in Proc, RereadRow(p)
    PROVE  CopyInv'
  <1> DEFINE b == call[p]
             stored == content[<<b.key, Head(b.todo)>>]
             c == [pc |-> "write", key |-> b.key, text |-> b.text, publish |-> b.publish,
                   todo |-> b.todo, row |-> b.row, stored |-> stored]
  <1>1. Texts(b) /\ Saves(b)
      BY DEF RereadRow, CopyInv, Carries
  <1>2. stored \in ContentRow \cup {None}
      BY <1>1, NewRow
  <1>3. Goto(p, c) /\ content' = content
      BY DEF RereadRow, copy
  <1> HIDE DEF stored
  <1>4. Texts(c) /\ Saves(c)
      BY <1>1, <1>2 DEF Texts, Saves
  <1>5. Carries(c)
      BY <1>4 DEF Carries
  <1> HIDE DEF c
  <1> QED  BY <1>3, <1>5, CopyUntouched

LEMMA SaveKeeps ==
    ASSUME CopyInv, NEW p \in Proc, SaveRow(p)
    PROVE  CopyInv'
  <1> DEFINE b == call[p]
             l == Head(b.todo)
             r == <<b.key, l>>
             row == Written(content[r], b.stored, b.row)
             logging == [pc |-> "log", key |-> b.key, text |-> b.text, publish |-> TRUE,
                         todo |-> b.todo, version |-> b.row.version]
             c == IF b.publish THEN logging ELSE After(b)
  <1>1. Texts(b) /\ Saves(b)
      BY DEF SaveRow, CopyInv, Carries
  <1>2. l \in Locale /\ b.key \in Key /\ content[r] \in ContentRow \cup {None}
      BY <1>1, NewRow DEF Texts
  <1>3. row \in ContentRow
      BY <1>1, <1>2, WrittenRow DEF Saves
  <1>4. content' = [content EXCEPT ![<<b.key, l>>] = row] /\ Goto(p, c)
      BY DEF SaveRow
  <1>5. b.publish => Texts(logging)
      BY <1>1 DEF Texts
  <1>6. b.publish => Carries(logging)
      BY <1>5 DEF Carries
  <1>7. Carries(c)
      BY <1>1, <1>6, AfterCarries
  <1> HIDE DEF row, c, l
  <1> QED  BY <1>2, <1>3, <1>4, <1>7, CopySaved

LEMMA LogKeeps ==
    ASSUME CopyInv, NEW p \in Proc, LogVersion(p)
    PROVE  CopyInv'
  <1>1. Texts(call[p])
      BY DEF LogVersion, CopyInv, Carries
  <1>2. Goto(p, After(call[p])) /\ content' = content
      BY DEF LogVersion
  <1> QED  BY <1>1, <1>2, AfterCarries, CopyUntouched

LEMMA SetPublishedKeeps ==
    ASSUME CopyInv, NEW p \in Proc, NEW key \in Key, NEW publish \in BOOLEAN,
           SetPublished(p, key, publish)
    PROVE  CopyInv'
  <1> DEFINE rows == [l \in RowsOf(key) |-> content[<<key, l>>]]
             c == [pc |-> "status", key |-> key, publish |-> publish, rows |-> rows]
  <1>1. RowsOf(key) \subseteq Locale
      BY DEF RowsOf
  <1>2. rows \in [RowsOf(key) -> ContentRow]
      BY DEF RowsOf, CopyInv
  <1>3. publish => \A l \in DOMAIN rows : rows[l].text # Blank
      BY DEF SetPublished
  <1>4. Goto(p, c) /\ content' = content
      BY DEF SetPublished, Begin, copy
  <1> HIDE DEF rows
  <1>5. Rows(c)
      BY <1>1, <1>2, <1>3 DEF Rows
  <1>6. Carries(c)
      BY <1>5 DEF Carries
  <1> QED  BY <1>4, <1>6, CopyUntouched

LEMMA RereadStatusKeeps ==
    ASSUME CopyInv, NEW p \in Proc, RereadStatus(p)
    PROVE  CopyInv'
  <1> DEFINE b == call[p]
  <1>1. Rows(b) /\ content' = content
      BY DEF RereadStatus, CopyInv, Carries, copy
  <1>2. PICK l \in DOMAIN b.rows :
            Goto(p, [pc |-> "flag", key |-> b.key, publish |-> b.publish, rows |-> b.rows,
                     locale |-> l, stored |-> content[<<b.key, l>>]])
      BY DEF RereadStatus
  <1> DEFINE stored == content[<<b.key, l>>]
             c == [pc |-> "flag", key |-> b.key, publish |-> b.publish, rows |-> b.rows,
                   locale |-> l, stored |-> stored]
  <1>3. b.key \in Key /\ l \in Locale
      BY <1>1, <1>2 DEF Rows
  <1>4. stored \in ContentRow \cup {None}
      BY <1>3 DEF CopyInv
  <1>5. Goto(p, c)
      BY <1>2
  <1> HIDE DEF stored
  <1>6. Rows(c)
      BY <1>1 DEF Rows
  <1>7. Carries(c)
      BY <1>2, <1>4, <1>6 DEF Carries
  <1> HIDE DEF c
  <1> QED  BY <1>1, <1>5, <1>7, CopyUntouched

\* What a change of status writes, and what it has left to do.
LEMMA StatusSaved ==
    ASSUME CopyInv, NEW p \in Proc, SaveStatus(p)
    PROVE  LET b == call[p]
               r == <<b.key, b.locale>>
               row == [b.rows[b.locale] EXCEPT !.published = b.publish]
               rest == DOMAIN b.rows \ {b.locale}
               more == [pc |-> "status", key |-> b.key, publish |-> b.publish,
                        rows |-> [l \in rest |-> b.rows[l]]]
           IN  /\ b.pc = "flag" /\ Rows(b) /\ b.key \in Key /\ b.locale \in Locale
               /\ b.locale \in DOMAIN b.rows /\ DOMAIN b.rows \subseteq Locale
               /\ content[r] \in ContentRow \cup {None} /\ b.stored \in ContentRow \cup {None}
               /\ b.rows[b.locale] \in ContentRow /\ row \in ContentRow
               /\ row.text = b.rows[b.locale].text /\ row.published = b.publish
               /\ row.version = b.rows[b.locale].version
               /\ Written(content[r], b.stored, row) \in ContentRow
               /\ content' = [content EXCEPT ![r] = Written(content[r], b.stored, row)]
               /\ Rows(more)
               /\ Goto(p, IF rest = {} THEN Telling({"content"}) ELSE more)
  <1> DEFINE b == call[p]
             r == <<b.key, b.locale>>
             row == [b.rows[b.locale] EXCEPT !.published = b.publish]
             rest == DOMAIN b.rows \ {b.locale}
             left == [l \in rest |-> b.rows[l]]
             more == [pc |-> "status", key |-> b.key, publish |-> b.publish, rows |-> left]
  <1>1. /\ b.pc = "flag" /\ Rows(b) /\ b.locale \in DOMAIN b.rows
        /\ b.stored \in ContentRow \cup {None}
      BY DEF SaveStatus, CopyInv, Carries
  <1>2. PICK locales \in SUBSET Locale : b.rows \in [locales -> ContentRow]
      BY <1>1 DEF Rows
  <1>3. /\ b.key \in Key /\ b.locale \in Locale /\ b.publish \in BOOLEAN
        /\ b.rows[b.locale] \in ContentRow /\ DOMAIN b.rows = locales
      BY <1>1, <1>2 DEF Rows
  <1>4. content[r] \in ContentRow \cup {None}
      BY <1>3 DEF CopyInv
  <1>5. /\ row \in ContentRow /\ row.text = b.rows[b.locale].text
        /\ row.published = b.publish /\ row.version = b.rows[b.locale].version
      BY <1>3, StatusRow
  <1>6. /\ content' = [content EXCEPT ![r] = Written(content[r], b.stored, row)]
        /\ Goto(p, IF rest = {} THEN Telling({"content"}) ELSE more)
      BY DEF SaveStatus
  <1>7. left \in [rest -> ContentRow] /\ rest \in SUBSET Locale
      BY <1>2
  <1>8. b.publish => \A l \in DOMAIN left : left[l].text # Blank
      BY <1>1, <1>2 DEF Rows
  <1> HIDE DEF row
  <1>9. Written(content[r], b.stored, row) \in ContentRow
      BY <1>1, <1>4, <1>5, WrittenRow
  <1>10. Rows(more)
    <2> HIDE DEF left, rest
    <2> QED  BY <1>3, <1>7, <1>8 DEF Rows
  <1> QED  BY <1>1, <1>2, <1>3, <1>4, <1>5, <1>6, <1>9, <1>10 DEF row

LEMMA SaveStatusKeeps ==
    ASSUME CopyInv, NEW p \in Proc, SaveStatus(p)
    PROVE  CopyInv'
  <1> DEFINE b == call[p]
             r == <<b.key, b.locale>>
             row == Written(content[r], b.stored, [b.rows[b.locale] EXCEPT !.published = b.publish])
             rest == DOMAIN b.rows \ {b.locale}
             more == [pc |-> "status", key |-> b.key, publish |-> b.publish,
                      rows |-> [l \in rest |-> b.rows[l]]]
             c == IF rest = {} THEN Telling({"content"}) ELSE more
  <1>1. /\ b.key \in Key /\ b.locale \in Locale /\ row \in ContentRow /\ Rows(more)
        /\ content' = [content EXCEPT ![<<b.key, b.locale>>] = row] /\ Goto(p, c)
      BY StatusSaved
  <1>2. Carries(c)
    <2>1. Carries(more)
        BY <1>1 DEF Carries
    <2>2. Carries(Telling({"content"}))
        BY OthersCarry DEF Telling, CopyPc
    <2> QED  BY <2>1, <2>2
  <1> HIDE DEF c, row
  <1> QED  BY <1>1, <1>2, CopySaved

-----------------------------------------------------------------------------

\* The labels of the statements that handle no copy.
HeroStep(p) ==
    \/ \E s \in Slide, active \in BOOLEAN : CreateSlide(p, s, active)
    \/ PutImage(p) \/ CountSlides(p)
    \/ \E s \in Slide, active \in BOOLEAN : UpdateSlide(p, s, active)
    \/ SaveSlide(p)
    \/ \E s \in Slide : DeleteSlide(p, s)
    \/ UnlinkImage(p) \/ RemoveSlide(p)
    \/ \E ids \in Order : ReorderSlides(p, ids)
    \/ CommitOrder(p)
    \/ \E fields \in SUBSET Field \ {{}} : \E patch \in [fields -> Value] : UpdateSettings(p, patch)
    \/ WriteSetting(p)
    \/ Tell(p)

OtherStep(p) == HeroStep(p) \/ Fault(p)

\* What does not handle copy leaves it alone, and goes on to what does not either.
LEMMA OtherGoes ==
    ASSUME NEW p \in Proc, OtherStep(p)
    PROVE  UNCHANGED copy /\ \E c : Goto(p, c) /\ c.pc \notin CopyPc
  <1>1. UNCHANGED copy
      BY DEF OtherStep, HeroStep, CreateSlide, PutImage, CountSlides, UpdateSlide, SaveSlide, DeleteSlide,
             UnlinkImage, RemoveSlide, ReorderSlides, CommitOrder, UpdateSettings, WriteSetting,
             Tell, Fault, TellFails, UnlinkFails, Fail, Begin, copy
  <1>2. ASSUME NEW c, Goto(p, c), c.pc \notin CopyPc
        PROVE  \E x : Goto(p, x) /\ x.pc \notin CopyPc
      BY <1>2
  <1>3. CASE \/ \E s \in Slide, active \in BOOLEAN : CreateSlide(p, s, active)
             \/ \E s \in Slide, active \in BOOLEAN : UpdateSlide(p, s, active)
             \/ \E s \in Slide : DeleteSlide(p, s)
      BY <1>1, <1>2, <1>3 DEF CreateSlide, UpdateSlide, DeleteSlide, Begin, CopyPc
  <1>4. CASE \/ \E ids \in Order : ReorderSlides(p, ids)
             \/ \E fields \in SUBSET Field \ {{}} : \E patch \in [fields -> Value] : UpdateSettings(p, patch)
      BY <1>1, <1>2, <1>4 DEF ReorderSlides, UpdateSettings, Begin, CopyPc
  <1>5. CASE PutImage(p) \/ CountSlides(p) \/ SaveSlide(p) \/ UnlinkImage(p) \/ RemoveSlide(p) \/ CommitOrder(p)
      BY <1>1, <1>2, <1>5 DEF PutImage, CountSlides, SaveSlide, UnlinkImage, RemoveSlide, CommitOrder, Telling, CopyPc
  <1>6. CASE Tell(p) \/ Fault(p)
      BY <1>1, <1>2, <1>6 DEF Tell, Fault, TellFails, UnlinkFails, Fail, Idle, CopyPc
  <1>7. CASE WriteSetting(p)
    <2>1. PICK f \in DOMAIN call[p].patch :
              Goto(p, IF DOMAIN call[p].patch = {f} THEN Telling({"hero", "content"})
                      ELSE [pc |-> "settings",
                            patch |-> [g \in DOMAIN call[p].patch \ {f} |-> call[p].patch[g]]])
        BY <1>7 DEF WriteSetting
    <2> QED  BY <1>1, <1>2, <2>1 DEF Telling, CopyPc
  <1> QED  BY <1>3, <1>4, <1>5, <1>6, <1>7 DEF OtherStep, HeroStep

LEMMA OtherKeeps ==
    ASSUME CopyInv, NEW p \in Proc, OtherStep(p)
    PROVE  CopyInv'
  <1>1. PICK c : Goto(p, c) /\ c.pc \notin CopyPc
      BY OtherGoes
  <1>2. content' = content
      BY OtherGoes DEF copy
  <1> QED  BY <1>1, <1>2, OthersCarry, CopyUntouched

LEMMA CopyStart == ContentInit => CopyInv
  BY DEF ContentInit, Init, CopyInv, Carries, Idle

LEMMA CopyStep ==
    ASSUME CopyInv, [ContentNext]_allVars
    PROVE  CopyInv'
  <1>1. CASE UNCHANGED allVars
      BY <1>1 DEF allVars, vars, copy, CopyInv
  <1>2. CASE ContentNext
    <2>1. PICK p \in Proc : Work(p) \/ Fault(p)
        BY <1>2 DEF ContentNext
    <2>2. CASE Put(p) \/ FindRow(p) \/ RereadRow(p) \/ SaveRow(p) \/ LogVersion(p)
        BY <2>2, PutKeeps, FindKeeps, RereadKeeps, SaveKeeps, LogKeeps
    <2>3. CASE \E key \in Key, publish \in BOOLEAN : SetPublished(p, key, publish)
        BY <2>3, SetPublishedKeeps
    <2>4. CASE RereadStatus(p) \/ SaveStatus(p)
        BY <2>4, RereadStatusKeeps, SaveStatusKeeps
    <2>5. CASE OtherStep(p)
        BY <2>5, OtherKeeps
    <2> QED  BY <2>1, <2>2, <2>3, <2>4, <2>5 DEF Work, OtherStep, HeroStep
  <1> QED  BY <1>1, <1>2

-----------------------------------------------------------------------------
(* Nothing published is empty *)

LEMMA GotoCall ==
    ASSUME CopyInv, NEW p \in Proc, NEW c, Goto(p, c)
    PROVE  call'[p] = c /\ \A q \in Proc \ {p} : call'[q] = call[q]
  BY DEF CopyInv, Goto

\* The row that a save is at.
Place(c) == <<c.key, IF c.pc = "flag" THEN c.locale ELSE Head(c.todo)>>

\* What a save has read is not undone: no text is lost for a call that publishes, and no
\* row published for one that empties it.
Stands(c, now) ==
    /\ Publishes(c) /\ c.stored.text # Blank => now.text # Blank
    /\ Empties(c) /\ ~c.stored.published => ~now.published

Sound(c, C) == c.pc \in {"write", "flag"} /\ c.stored # None => Stands(c, C[Place(c)])

Shown(row) == row # None /\ row.published => row.text # Blank

NoEmpty(C, D) ==
    /\ \A r \in Key \X Locale : Shown(C[r])
    /\ \A p \in Proc : Sound(D[p], C)

\* Why NoBlankPublished holds: the columns a save leaves alone are as it has read them, or
\* were changed by a call that, apart, cannot both empty and publish the row.
BlankInv ==
    /\ CopyInv
    /\ apart \in BOOLEAN
    /\ apart => Apart /\ NoEmpty(content, call)

\* What a save makes of a row.
LEMMA MergedRow ==
    ASSUME NEW now \in ContentRow \cup {None}, NEW row \in ContentRow, NEW b,
           b.stored \in ContentRow \cup {None}, b.publish \in BOOLEAN, row.published = b.publish,
           b.publish => row.text # Blank /\ Publishes(b),
           ~b.publish /\ row.text = Blank => Empties(b),
           b.stored # None => Stands(b, now),
           Shown(now)
    PROVE  LET new == Written(now, b.stored, row)
           IN  /\ new.text = Blank => Empties(b) \/ (now # None /\ now.text = Blank)
               /\ new.published => Publishes(b) \/ (now # None /\ now.published)
               /\ Shown(new)
  <1> DEFINE new == Written(now, b.stored, row)
  <1>1. /\ new \in ContentRow
        /\ \/ new.text = row.text
           \/ /\ now # None /\ b.stored # None /\ b.stored.text = row.text
              /\ new.text = now.text
        /\ \/ new.published = row.published
           \/ /\ now # None /\ b.stored # None /\ b.stored.published = row.published
              /\ new.published = now.published
      BY WrittenRow, Zenon
  <1> HIDE DEF new
  <1>2. new.text = Blank => Empties(b) \/ (now # None /\ now.text = Blank)
      BY <1>1
  <1>3. new.published => Publishes(b) \/ (now # None /\ now.published)
      BY <1>1
  <1>4. ASSUME new.published, new.text = Blank
        PROVE  FALSE
    <2>1. CASE b.publish
        BY <1>1, <1>4, <2>1 DEF Stands
    <2>2. CASE ~b.publish
      <3>1. /\ now # None /\ b.stored # None /\ ~b.stored.published /\ now.published
          BY <1>1, <1>4, <2>2
      <3>2. CASE row.text = Blank
          BY <2>2, <3>1, <3>2 DEF Stands
      <3>3. CASE row.text # Blank
          BY <1>1, <1>4, <3>1, <3>3 DEF Shown
      <3> QED  BY <3>2, <3>3
    <2> QED  BY <2>1, <2>2
  <1> QED  BY <1>2, <1>3, <1>4 DEF new, Shown

LEMMA PlaceRow ==
    ASSUME NEW c, Carries(c), c.pc \in {"write", "flag"}
    PROVE  Place(c) \in Key \X Locale
  <1>1. CASE c.pc = "write"
      BY <1>1 DEF Carries, Texts, Place, Locale
  <1>2. CASE c.pc = "flag"
      BY <1>2 DEF Carries, Rows, Place
  <1> QED  BY <1>1, <1>2

\* A call goes on and leaves the rows alone.
LEMMA GoneSound ==
    ASSUME CopyInv, NoEmpty(content, call), NEW p \in Proc, NEW c, Goto(p, c), Sound(c, content),
           content' = content
    PROVE  NoEmpty(content', call')
  BY GotoCall DEF NoEmpty

LEMMA OthersSound ==
    ASSUME NEW c, NEW C, c.pc \notin {"write", "flag"}
    PROVE  Sound(c, C)
  BY DEF Sound

\* A call saves a row, and the saves of the others still stand.
LEMMA SavedSound ==
    ASSUME CopyInv, Apart, NoEmpty(content, call), NEW p \in Proc, NEW c, Goto(p, c),
           c.pc \notin {"write", "flag"},
           NEW r \in Key \X Locale, r[1] = call[p].key, NEW new \in ContentRow,
           content' = [content EXCEPT ![r] = new],
           new.text = Blank => Empties(call[p]) \/ (content[r] # None /\ content[r].text = Blank),
           new.published => Publishes(call[p]) \/ (content[r] # None /\ content[r].published),
           Shown(new)
    PROVE  NoEmpty(content', call')
  <1>1. content'[r] = new /\ \A x \in Key \X Locale : x # r => content'[x] = content[x]
      BY DEF CopyInv
  <1>2. \A x \in Key \X Locale : Shown(content'[x])
      BY <1>1 DEF NoEmpty
  <1>3. ASSUME NEW q \in Proc
        PROVE  Sound(call'[q], content')
    <2>1. CASE q = p
        BY <2>1, GotoCall, OthersSound
    <2>2. CASE q # p
      <3> DEFINE d == call[q]
      <3>1. call'[q] = d /\ Sound(d, content) /\ Carries(d)
          BY <2>2, GotoCall DEF NoEmpty, CopyInv
      <3> SUFFICES ASSUME d.pc \in {"write", "flag"}, d.stored # None
                   PROVE  Stands(d, content'[Place(d)])
          BY <3>1 DEF Sound
      <3>2. Stands(d, content[Place(d)]) /\ Place(d) \in Key \X Locale
          BY <3>1, PlaceRow DEF Sound
      <3>3. CASE Place(d) # r
          BY <1>1, <3>2, <3>3
      <3>4. CASE Place(d) = r
        <4>1. d.key = call[p].key
            BY <3>4 DEF Place
        <4>2. /\ Publishes(d) => ~Empties(call[p])
              /\ Empties(d) => ~Publishes(call[p])
            BY <4>1 DEF Apart
        <4> QED  BY <1>1, <3>2, <3>4, <4>2 DEF Stands
      <3> QED  BY <3>3, <3>4
    <2> QED  BY <2>1, <2>2
  <1> QED  BY <1>2, <1>3 DEF NoEmpty

LEMMA ReadSound ==
    ASSUME CopyInv, NoEmpty(content, call), NEW p \in Proc,
           \/ Put(p) \/ FindRow(p) \/ RereadRow(p) \/ LogVersion(p)
           \/ \E key \in Key, publish \in BOOLEAN : SetPublished(p, key, publish)
           \/ RereadStatus(p) \/ OtherStep(p)
    PROVE  NoEmpty(content', call')
  <1> DEFINE b == call[p]
  <1>1. CASE Put(p)
      BY <1>1, OthersSound, GoneSound DEF Put, PutContent, Begin, copy
  <1>2. CASE FindRow(p)
    <2> DEFINE seen == content[<<b.key, Head(b.todo)>>]
               row == [text |-> b.text[Head(b.todo)], published |-> b.publish,
                       version |-> NextVersion(seen, b.publish)]
               c == [pc |-> IF seen = None THEN "write" ELSE "save", key |-> b.key, text |-> b.text,
                     publish |-> b.publish, todo |-> b.todo, row |-> row, stored |-> None]
    <2>1. Goto(p, c) /\ content' = content
        BY <1>2 DEF FindRow, copy
    <2>2. Sound(c, content)
        BY DEF Sound
    <2> HIDE DEF c
    <2> QED  BY <2>1, <2>2, GoneSound
  <1>3. CASE RereadRow(p)
    <2> DEFINE c == [pc |-> "write", key |-> b.key, text |-> b.text, publish |-> b.publish,
                     todo |-> b.todo, row |-> b.row, stored |-> content[<<b.key, Head(b.todo)>>]]
    <2>1. Goto(p, c) /\ content' = content
        BY <1>3 DEF RereadRow, copy
    <2>2. c.stored = content[Place(c)]
        BY DEF Place
    <2> HIDE DEF c
    <2> QED  BY <2>1, <2>2, GoneSound DEF Sound, Stands
  <1>4. CASE LogVersion(p)
    <2>1. Goto(p, After(b)) /\ content' = content
        BY <1>4 DEF LogVersion
    <2>2. After(b).pc \in {"find", "tell", "idle"}
        BY DEF After, Telling, Idle
    <2> QED  BY <2>1, <2>2, OthersSound, GoneSound
  <1>5. CASE \E key \in Key, publish \in BOOLEAN : SetPublished(p, key, publish)
      BY <1>5, OthersSound, GoneSound DEF SetPublished, Begin, copy
  <1>6. CASE RereadStatus(p)
    <2>1. PICK l \in DOMAIN b.rows :
              Goto(p, [pc |-> "flag", key |-> b.key, publish |-> b.publish, rows |-> b.rows,
                       locale |-> l, stored |-> content[<<b.key, l>>]])
        BY <1>6 DEF RereadStatus
    <2> DEFINE c == [pc |-> "flag", key |-> b.key, publish |-> b.publish, rows |-> b.rows,
                     locale |-> l, stored |-> content[<<b.key, l>>]]
    <2>2. Goto(p, c) /\ content' = content
        BY <1>6, <2>1 DEF RereadStatus, copy
    <2>3. c.stored = content[Place(c)]
        BY DEF Place
    <2> HIDE DEF c
    <2> QED  BY <2>2, <2>3, GoneSound DEF Sound, Stands
  <1>7. CASE OtherStep(p)
    <2>1. PICK c : Goto(p, c) /\ c.pc \notin CopyPc
        BY <1>7, OtherGoes
    <2>2. content' = content
        BY <1>7, OtherGoes DEF copy
    <2> QED  BY <2>1, <2>2, OthersSound, GoneSound DEF CopyPc
  <1> QED  BY <1>1, <1>2, <1>3, <1>4, <1>5, <1>6, <1>7

LEMMA RowSound ==
    ASSUME CopyInv, Apart, NoEmpty(content, call), NEW p \in Proc, SaveRow(p)
    PROVE  NoEmpty(content', call')
  <1> DEFINE b == call[p]
             l == Head(b.todo)
             r == <<b.key, l>>
             new == Written(content[r], b.stored, b.row)
             logging == [pc |-> "log", key |-> b.key, text |-> b.text, publish |-> TRUE,
                         todo |-> b.todo, version |-> b.row.version]
             c == IF b.publish THEN logging ELSE After(b)
  <1>1. b.pc = "write" /\ Texts(b) /\ Saves(b)
      BY DEF SaveRow, CopyInv, Carries
  <1>2. l \in Locale /\ r \in Key \X Locale /\ content[r] \in ContentRow \cup {None}
      BY <1>1, NewRow
  <1>3. b.publish => b.row.text # Blank /\ Publishes(b)
      BY <1>1, <1>2 DEF Texts, Saves, Publishes
  <1>4. ~b.publish /\ b.row.text = Blank => Empties(b)
      BY <1>1, <1>2 DEF Saves, Empties
  <1>5. b.stored # None => Stands(b, content[r])
    <2>1. Place(b) = r
        BY <1>1 DEF Place
    <2>2. Sound(b, content)
        BY DEF NoEmpty
    <2> QED  BY <1>1, <2>1, <2>2 DEF Sound
  <1>6. Shown(content[r])
      BY <1>2 DEF NoEmpty
  <1>7. new \in ContentRow
      BY <1>1, <1>2, WrittenRow DEF Saves
  <1>8. /\ new.text = Blank => Empties(b) \/ (content[r] # None /\ content[r].text = Blank)
        /\ new.published => Publishes(b) \/ (content[r] # None /\ content[r].published)
        /\ Shown(new)
      BY <1>1, <1>2, <1>3, <1>4, <1>5, <1>6, MergedRow DEF Saves, Texts
  <1>9. content' = [content EXCEPT ![r] = new] /\ Goto(p, c)
      BY DEF SaveRow
  <1>10. c.pc \notin {"write", "flag"}
      BY DEF After, Telling, Idle
  <1>11. r[1] = b.key
      OBVIOUS
  <1> HIDE DEF new, c, r
  <1> QED  BY <1>2, <1>7, <1>8, <1>9, <1>10, <1>11, SavedSound

LEMMA FlagSound ==
    ASSUME CopyInv, Apart, NoEmpty(content, call), NEW p \in Proc, SaveStatus(p)
    PROVE  NoEmpty(content', call')
  <1> DEFINE b == call[p]
             r == <<b.key, b.locale>>
             row == [b.rows[b.locale] EXCEPT !.published = b.publish]
             rest == DOMAIN b.rows \ {b.locale}
             more == [pc |-> "status", key |-> b.key, publish |-> b.publish,
                      rows |-> [l \in rest |-> b.rows[l]]]
             c == IF rest = {} THEN Telling({"content"}) ELSE more
             new == Written(content[r], b.stored, row)
  <1>1. /\ b.pc = "flag" /\ Rows(b) /\ r \in Key \X Locale /\ b.locale \in DOMAIN b.rows
        /\ content[r] \in ContentRow \cup {None} /\ b.stored \in ContentRow \cup {None}
        /\ row \in ContentRow /\ row.text = b.rows[b.locale].text /\ row.published = b.publish
        /\ new \in ContentRow /\ content' = [content EXCEPT ![r] = new] /\ Goto(p, c)
      BY StatusSaved
  <1>2. b.publish \in BOOLEAN
      BY <1>1 DEF Rows
  <1>3. b.publish => row.text # Blank /\ Publishes(b)
      BY <1>1 DEF Rows, Publishes
  <1>4. ~b.publish /\ row.text = Blank => Empties(b)
      BY <1>1 DEF Empties
  <1>5. b.stored # None => Stands(b, content[r])
    <2>1. Place(b) = r
        BY <1>1 DEF Place
    <2>2. Sound(b, content)
        BY DEF NoEmpty
    <2> QED  BY <1>1, <2>1, <2>2 DEF Sound
  <1>6. Shown(content[r])
      BY <1>1 DEF NoEmpty
  <1>7. c.pc \notin {"write", "flag"} /\ r[1] = b.key
      BY DEF Telling
  <1> HIDE DEF c, r, row
  <1>8. /\ new.text = Blank => Empties(b) \/ (content[r] # None /\ content[r].text = Blank)
        /\ new.published => Publishes(b) \/ (content[r] # None /\ content[r].published)
        /\ Shown(new)
      BY <1>1, <1>2, <1>3, <1>4, <1>5, <1>6, MergedRow
  <1> HIDE DEF new
  <1> QED  BY <1>1, <1>7, <1>8, SavedSound

LEMMA ApartBefore ==
    ASSUME apart \in BOOLEAN, ContentNext
    PROVE  apart' \in BOOLEAN /\ (apart' => apart /\ Apart')
  <1>1. CASE apart /\ Apart'
      BY <1>1 DEF ContentNext
  <1>2. CASE ~(apart /\ Apart')
      <2>1. apart' = FALSE
          BY <1>2 DEF ContentNext
      <2> QED  BY <2>1
  <1> QED  BY <1>1, <1>2

\* Whatever publications, drafts and withdrawals overlap and wherever they stop, copy the
\* public sees is not empty unless a call empties a key while another publishes it
\* (putContent and setPublished, cms.service.ts).
THEOREM NoBlankTheorem == ContentSpec => []NoBlankPublished
  <1>1. ContentInit => BlankInv
    <2> SUFFICES ASSUME ContentInit
                 PROVE  BlankInv
        OBVIOUS
    <2>1. apart = TRUE /\ \A p \in Proc : call[p] = Idle
        BY DEF ContentInit, Init
    <2>2. Apart
        BY <2>1 DEF Apart, Publishes, Idle
    <2>3. \A r \in Key \X Locale : Shown(content[r])
        BY DEF ContentInit, Init, Shown
    <2>4. NoEmpty(content, call)
        BY <2>1, <2>3 DEF NoEmpty, Sound, Idle
    <2> QED  BY <2>1, <2>2, <2>4, CopyStart DEF BlankInv
  <1>2. ASSUME BlankInv, [ContentNext]_allVars
        PROVE  BlankInv'
    <2>1. CopyInv'
        BY <1>2, CopyStep DEF BlankInv
    <2>2. CASE UNCHANGED allVars
        BY <1>2, <2>1, <2>2 DEF allVars, vars, copy, BlankInv, Apart
    <2>3. CASE ContentNext
      <3>1. apart' \in BOOLEAN /\ (apart' => apart /\ Apart')
          BY <1>2, <2>3, ApartBefore DEF BlankInv
      <3>2. ASSUME apart'
            PROVE  NoEmpty(content', call')
        <4>1. PICK p \in Proc : Work(p) \/ Fault(p)
            BY <2>3 DEF ContentNext
        <4>2. CopyInv /\ Apart /\ NoEmpty(content, call)
            BY <1>2, <3>1, <3>2 DEF BlankInv
        <4>3. CASE SaveRow(p)
            BY <4>2, <4>3, RowSound
        <4>4. CASE SaveStatus(p)
            BY <4>2, <4>4, FlagSound
        <4>5. CASE \/ Put(p) \/ FindRow(p) \/ RereadRow(p) \/ LogVersion(p)
                   \/ \E key \in Key, publish \in BOOLEAN : SetPublished(p, key, publish)
                   \/ RereadStatus(p) \/ OtherStep(p)
            BY <4>2, <4>5, ReadSound
        <4> QED  BY <4>1, <4>3, <4>4, <4>5 DEF Work, OtherStep, HeroStep
      <3> QED  BY <2>1, <3>1, <3>2 DEF BlankInv
    <2> QED  BY <1>2, <2>2, <2>3
  <1>3. BlankInv => NoBlankPublished
      BY DEF BlankInv, CopyInv, NoEmpty, Shown, NoBlankPublished
  <1> QED  BY <1>1, <1>2, <1>3, PTL DEF ContentSpec

-----------------------------------------------------------------------------
(* Everything served: somebody still owes the portal what it was not told *)

Owes(c, tag) ==
    \/ c.pc = "tell" /\ tag \in c.tags
    \/ c.pc = "settings"
    \/ c.pc \in {"status", "flag"} /\ tag = "content"
    \/ c.pc \in {"find", "save", "write", "log"} /\ c.publish /\ tag = "content"

Tags == {"content", "hero"}

\* Why PortalTold holds: whoever changes what the public sees goes on to tell the portal,
\* and no call that still has to is forgotten, but by a failure or a draft.
ToldInv ==
    /\ CopyInv
    /\ served \in BOOLEAN
    /\ served => /\ DOMAIN told = Tags
                 /\ \A tag \in Tags : told[tag] \/ \E p \in Proc : Owes(call[p], tag)

\* What a step of p does: it goes on to owe what it owed and did not tell, and what it
\* made old.
Due(p) ==
    /\ DOMAIN told' = Tags
    /\ \A q \in Proc \ {p} : call'[q] = call[q]
    /\ \A tag \in Tags :
          \/ Owes(call'[p], tag)
          \/ told'[tag]
          \/ ~told[tag] /\ ~Owes(call[p], tag)

\* A step that tells nothing and changes nothing the public sees.
LEMMA SilentDue ==
    ASSUME ToldInv, served, NEW p \in Proc, NEW c, Goto(p, c), told' = told,
           \A tag \in Tags : Owes(call[p], tag) => Owes(c, tag)
    PROVE  Due(p)
  <1>1. call'[p] = c /\ \A q \in Proc \ {p} : call'[q] = call[q]
      BY GotoCall DEF ToldInv
  <1> QED  BY <1>1 DEF ToldInv, Due

LEMMA BeginDue ==
    ASSUME ToldInv, served, NEW p \in Proc, NEW c, Begin(p, c)
    PROVE  Due(p)
  <1>1. \A tag \in Tags : ~Owes(call[p], tag)
      BY DEF Begin, Owes, Idle
  <1> QED  BY <1>1, SilentDue DEF Begin

\* A step that ages what it goes on to owe.
LEMMA AgedDue ==
    ASSUME ToldInv, served, NEW p \in Proc, NEW c, Goto(p, c), Aged,
           \/ Owes(c, "content")
           \/ ~Owes(call[p], "content") /\ PublicContent(content') = PublicContent(content),
           \/ Owes(c, "hero")
           \/ ~Owes(call[p], "hero") /\ PublicHero(slides', settings') = PublicHero(slides, settings)
    PROVE  Due(p)
  <1>1. call'[p] = c /\ \A q \in Proc \ {p} : call'[q] = call[q]
      BY GotoCall DEF ToldInv
  <1>2. DOMAIN told' = Tags
      BY DEF Aged, Tags
  <1>3. PublicContent(content') = PublicContent(content) => (told["content"] => told'["content"])
      BY DEF Aged
  <1>4. PublicHero(slides', settings') = PublicHero(slides, settings) => (told["hero"] => told'["hero"])
      BY DEF Aged
  <1> QED  BY <1>1, <1>2, <1>3, <1>4 DEF Due, Tags

LEMMA CopyDue ==
    ASSUME ToldInv, served, NEW p \in Proc, ~DraftOver(p),
           \/ Put(p) \/ FindRow(p) \/ RereadRow(p) \/ SaveRow(p) \/ LogVersion(p)
           \/ \E key \in Key, publish \in BOOLEAN : SetPublished(p, key, publish)
           \/ RereadStatus(p) \/ SaveStatus(p)
    PROVE  Due(p)
  <1> DEFINE b == call[p]
  <1>7. ASSUME b.pc \in {"write", "log"}
        PROVE  b.publish => Owes(After(b), "content")
      BY <1>7 DEF After, Owes, Telling
  <1>1. CASE Put(p)
      BY <1>1, BeginDue DEF Put, PutContent
  <1>2. CASE \E key \in Key, publish \in BOOLEAN : SetPublished(p, key, publish)
      BY <1>2, BeginDue DEF SetPublished
  <1>3. CASE FindRow(p)
    <2> DEFINE seen == content[<<b.key, Head(b.todo)>>]
               row == [text |-> b.text[Head(b.todo)], published |-> b.publish,
                       version |-> NextVersion(seen, b.publish)]
               c == [pc |-> IF seen = None THEN "write" ELSE "save", key |-> b.key, text |-> b.text,
                     publish |-> b.publish, todo |-> b.todo, row |-> row, stored |-> None]
    <2>1. b.pc = "find" /\ Goto(p, c) /\ told' = told
        BY <1>3 DEF FindRow
    <2>2. \A tag \in Tags : Owes(b, tag) => Owes(c, tag)
      <3> HIDE DEF row, seen
      <3> QED  BY <2>1 DEF Owes
    <2> HIDE DEF c
    <2> QED  BY <2>1, <2>2, SilentDue
  <1>8. CASE RereadRow(p)
    <2> DEFINE c == [pc |-> "write", key |-> b.key, text |-> b.text, publish |-> b.publish,
                     todo |-> b.todo, row |-> b.row, stored |-> content[<<b.key, Head(b.todo)>>]]
    <2>1. b.pc = "save" /\ Goto(p, c) /\ told' = told
        BY <1>8 DEF RereadRow
    <2>2. \A tag \in Tags : Owes(b, tag) => Owes(c, tag)
        BY <2>1 DEF Owes
    <2> HIDE DEF c
    <2> QED  BY <2>1, <2>2, SilentDue
  <1>4. CASE SaveRow(p)
    <2> DEFINE logging == [pc |-> "log", key |-> b.key, text |-> b.text, publish |-> TRUE,
                           todo |-> b.todo, version |-> b.row.version]
               c == IF b.publish THEN logging ELSE After(b)
    <2>1. b.pc = "write" /\ Goto(p, c) /\ Aged /\ UNCHANGED <<slides, settings>>
        BY <1>4 DEF SaveRow, hero
    <2>2. Owes(logging, "content")
        BY DEF Owes
    <2>3. b.publish \/ (~Owes(b, "content") /\ PublicContent(content') = PublicContent(content))
        BY <2>1 DEF Owes, DraftOver
    <2>4. ~Owes(b, "hero") /\ PublicHero(slides', settings') = PublicHero(slides, settings)
        BY <2>1 DEF Owes
    <2>5. Owes(c, "content") \/ (~Owes(b, "content") /\ PublicContent(content') = PublicContent(content))
        BY <2>2, <2>3
    <2> HIDE DEF c
    <2> QED  BY <2>1, <2>4, <2>5, AgedDue
  <1>5. CASE LogVersion(p)
    <2>1. b.pc = "log" /\ Goto(p, After(b)) /\ told' = told
        BY <1>5 DEF LogVersion
    <2>2. \A tag \in Tags : Owes(b, tag) => Owes(After(b), tag)
        BY <1>7, <2>1 DEF Owes
    <2> QED  BY <2>1, <2>2, SilentDue
  <1>9. CASE RereadStatus(p)
    <2>1. PICK l \in DOMAIN b.rows :
              Goto(p, [pc |-> "flag", key |-> b.key, publish |-> b.publish, rows |-> b.rows,
                       locale |-> l, stored |-> content[<<b.key, l>>]])
        BY <1>9 DEF RereadStatus
    <2> DEFINE c == [pc |-> "flag", key |-> b.key, publish |-> b.publish, rows |-> b.rows,
                     locale |-> l, stored |-> content[<<b.key, l>>]]
    <2>2. b.pc = "status" /\ Goto(p, c) /\ told' = told
        BY <1>9, <2>1 DEF RereadStatus
    <2>3. \A tag \in Tags : Owes(b, tag) => Owes(c, tag)
        BY <2>2 DEF Owes
    <2> HIDE DEF c
    <2> QED  BY <2>2, <2>3, SilentDue
  <1>6. CASE SaveStatus(p)
    <2> DEFINE rest == DOMAIN b.rows \ {b.locale}
               more == [pc |-> "status", key |-> b.key, publish |-> b.publish,
                        rows |-> [l \in rest |-> b.rows[l]]]
               c == IF rest = {} THEN Telling({"content"}) ELSE more
    <2>2. b.pc = "flag" /\ Goto(p, c) /\ Aged /\ UNCHANGED <<slides, settings>>
        BY <1>6 DEF SaveStatus, hero
    <2>3. Owes(Telling({"content"}), "content") /\ Owes(more, "content")
      <3>1. Telling({"content"}).pc = "tell" /\ "content" \in Telling({"content"}).tags
          BY DEF Telling
      <3>2. more.pc = "status"
          OBVIOUS
      <3> HIDE DEF more
      <3>3. Owes(Telling({"content"}), "content")
          BY <3>1 DEF Owes
      <3>4. Owes(more, "content")
          BY <3>2 DEF Owes
      <3> QED  BY <3>3, <3>4
    <2>4. Owes(c, "content")
        BY <2>3
    <2>5. ~Owes(b, "hero") /\ PublicHero(slides', settings') = PublicHero(slides, settings)
        BY <2>2 DEF Owes
    <2> HIDE DEF c
    <2> QED  BY <2>2, <2>4, <2>5, AgedDue
  <1> QED  BY <1>1, <1>2, <1>3, <1>4, <1>5, <1>6, <1>8, <1>9

LEMMA HeroDue ==
    ASSUME ToldInv, served, NEW p \in Proc, HeroStep(p)
    PROVE  Due(p)
  <1> DEFINE b == call[p]
  <1>1. CASE \/ \E s \in Slide, active \in BOOLEAN : CreateSlide(p, s, active)
             \/ \E s \in Slide, active \in BOOLEAN : UpdateSlide(p, s, active)
             \/ \E s \in Slide : DeleteSlide(p, s)
      BY <1>1, BeginDue DEF CreateSlide, UpdateSlide, DeleteSlide
  <1>2. CASE \/ \E ids \in Order : ReorderSlides(p, ids)
             \/ \E fields \in SUBSET Field \ {{}} : \E patch \in [fields -> Value] : UpdateSettings(p, patch)
      BY <1>2, BeginDue DEF ReorderSlides, UpdateSettings
  <1>3. CASE PutImage(p) \/ CountSlides(p) \/ UnlinkImage(p)
    <2>1. PICK c : Goto(p, c)
        BY <1>3 DEF PutImage, CountSlides, UnlinkImage
    <2>2. b.pc \in {"put", "count", "unlink"} /\ told' = told
        BY <1>3 DEF PutImage, CountSlides, UnlinkImage, hero
    <2>3. \A tag \in Tags : ~Owes(b, tag)
        BY <2>2 DEF Owes
    <2> QED  BY <2>1, <2>2, <2>3, SilentDue
  <1>4. CASE SaveSlide(p) \/ RemoveSlide(p) \/ CommitOrder(p)
    <2>1. /\ b.pc \in {"slide", "remove", "reorder"} /\ Goto(p, Telling({"hero"}))
          /\ Aged /\ content' = content
        BY <1>4 DEF SaveSlide, RemoveSlide, CommitOrder, copy
    <2>2. Owes(Telling({"hero"}), "hero") /\ ~Owes(b, "content")
        BY <2>1 DEF Owes, Telling
    <2> QED  BY <2>1, <2>2, AgedDue
  <1>5. CASE WriteSetting(p)
    <2>1. PICK f \in DOMAIN b.patch :
              Goto(p, IF DOMAIN b.patch = {f} THEN Telling({"hero", "content"})
                      ELSE [pc |-> "settings", patch |-> [g \in DOMAIN b.patch \ {f} |-> b.patch[g]]])
        BY <1>5 DEF WriteSetting
    <2> DEFINE more == [pc |-> "settings", patch |-> [g \in DOMAIN b.patch \ {f} |-> b.patch[g]]]
               c == IF DOMAIN b.patch = {f} THEN Telling({"hero", "content"}) ELSE more
    <2>2. Goto(p, c) /\ Aged
        BY <1>5, <2>1 DEF WriteSetting
    <2>3. \A tag \in Tags : Owes(Telling({"hero", "content"}), tag) /\ Owes(more, tag)
        BY DEF Owes, Telling, Tags
    <2>4. Owes(c, "content") /\ Owes(c, "hero")
        BY <2>3 DEF Tags
    <2> HIDE DEF c
    <2> QED  BY <2>2, <2>4, AgedDue
  <1>6. CASE Tell(p)
    <2>1. b.pc = "tell" /\ told' = [tag \in DOMAIN told |-> told[tag] \/ tag \in b.tags] /\ Goto(p, Idle)
        BY <1>6 DEF Tell
    <2>2. DOMAIN told' = Tags /\ \A tag \in Tags : told'[tag] = (told[tag] \/ tag \in b.tags)
        BY <2>1 DEF ToldInv
    <2>3. \A tag \in Tags : Owes(b, tag) => tag \in b.tags
        BY <2>1 DEF Owes
    <2>4. \A q \in Proc \ {p} : call'[q] = call[q]
        BY <2>1, GotoCall DEF ToldInv
    <2> QED  BY <2>2, <2>3, <2>4 DEF Due
  <1> QED  BY <1>1, <1>2, <1>3, <1>4, <1>5, <1>6 DEF HeroStep

\* However calls overlapped, once everyone is served the portal was told of the last change
\* the public sees, if no call failed and no draft withdrew what was published.
THEOREM PortalToldTheorem == ContentSpec => []PortalTold
  <1>1. ContentInit => ToldInv
      BY CopyStart DEF ContentInit, Init, ToldInv, Tags
  <1>2. ASSUME ToldInv, [ContentNext]_allVars
        PROVE  ToldInv'
    <2>1. CopyInv'
        BY <1>2, CopyStep DEF ToldInv
    <2>2. CASE UNCHANGED allVars
        BY <1>2, <2>1, <2>2 DEF allVars, vars, ToldInv
    <2>3. CASE ContentNext
      <3>1. PICK p \in Proc : \/ Work(p) /\ served' = (served /\ ~DraftOver(p))
                              \/ Fault(p) /\ served' = FALSE
          BY <2>3 DEF ContentNext
      <3>2. CASE served /\ Work(p) /\ ~DraftOver(p) /\ served' = TRUE
        <4>1. Due(p)
            BY <1>2, <3>2, CopyDue, HeroDue DEF Work, OtherStep, HeroStep
        <4>2. \A tag \in Tags : told[tag] \/ \E q \in Proc : Owes(call[q], tag)
            BY <1>2, <3>2 DEF ToldInv
        <4>3. ASSUME NEW tag \in Tags, ~told'[tag]
              PROVE  \E q \in Proc : Owes(call'[q], tag)
            BY <4>1, <4>2, <4>3 DEF Due
        <4> QED  BY <2>1, <3>1, <3>2, <4>1, <4>3 DEF Due, ToldInv
      <3>3. CASE served' = FALSE
          BY <2>1, <3>3 DEF ToldInv
      <3>4. served \in BOOLEAN
          BY <1>2 DEF ToldInv
      <3>5. (served /\ Work(p) /\ ~DraftOver(p) /\ served' = TRUE) \/ served' = FALSE
          BY <3>1, <3>4
      <3> QED  BY <3>2, <3>3, <3>5
    <2> QED  BY <1>2, <2>2, <2>3
  <1>3. ToldInv => PortalTold
      BY DEF ToldInv, PortalTold, AllIdle, Owes, Idle, Tags
  <1> QED  BY <1>1, <1>2, <1>3, PTL DEF ContentSpec

-----------------------------------------------------------------------------
(* One call at a time: the history of a row *)

Quiet == \A p, q \in Proc : p # q => Idle \in {call[p], call[q]}

\* History H has one entry a version, and none ahead of the row C.
Numbered(C, H) ==
    /\ DOMAIN H = Key \X Locale
    /\ \A r \in Key \X Locale :
          /\ \A e \in DOMAIN H[r] :
                e.version \in Nat /\ H[r][e] = 1 /\ C[r] # None /\ e.version <= C[r].version
          /\ \A e, f \in DOMAIN H[r] : e.version = f.version => e = f

\* What a call read or saved is still so, the version it saves is no less than the row's,
\* and what it saved is not in the history yet.
Fresh(c, C, H) ==
    /\ c.pc \in {"save", "write"} /\ C[Place(c)] # None =>
          /\ C[Place(c)].version <= c.row.version
          /\ c.publish => C[Place(c)].version < c.row.version
    /\ c.pc = "log" =>
          /\ C[Place(c)] # None
          /\ c.version \in Nat /\ c.version = C[Place(c)].version
          /\ \A e \in DOMAIN H[Place(c)] : e.version < c.version
    /\ c.pc \in {"status", "flag"} => \A l \in DOMAIN c.rows : c.rows[l] = C[<<c.key, l>>]
    /\ c.pc \in {"write", "flag"} => c.stored = C[Place(c)]

\* Why HistoryNumbered holds: a version is one more than that of the row a call read, and
\* it enters the history while the row still has it.
NumberedInv ==
    /\ CopyInv
    /\ calm \in BOOLEAN
    /\ calm => /\ Quiet
               /\ Numbered(content, history)
               /\ \A p \in Proc : Fresh(call[p], content, history)

\* What a step of a quiet system keeps.
Kept ==
    /\ Numbered(content', history')
    /\ \A p \in Proc : Fresh(call'[p], content', history')

LEMMA CalmBefore ==
    ASSUME calm \in BOOLEAN, ContentNext
    PROVE  calm' \in BOOLEAN /\ (calm' => calm /\ Quiet')
  <1>1. CASE calm /\ Quiet'
      BY <1>1 DEF ContentNext, Quiet
  <1>2. CASE ~(calm /\ Quiet')
      <2>1. calm' = FALSE
          BY <1>2 DEF ContentNext, Quiet
      <2> QED  BY <2>1
  <1> QED  BY <1>1, <1>2

LEMMA OthersFresh ==
    ASSUME NEW c, NEW C, NEW H, c.pc \notin {"save", "write", "log", "status", "flag"}
    PROVE  Fresh(c, C, H)
  BY DEF Fresh

\* A call begins, or goes on and leaves the copy alone.
LEMMA BeginKept ==
    ASSUME NumberedInv, calm, NEW p \in Proc, NEW c, Goto(p, c), Fresh(c, content, history),
           UNCHANGED copy
    PROVE  Kept
  BY GotoCall DEF NumberedInv, Kept, copy

\* A call that goes on is alone.
LEMMA GoKept ==
    ASSUME NumberedInv, calm, NEW p \in Proc, call[p] # Idle, NEW c, Goto(p, c),
           Fresh(c, content', history'), Numbered(content', history')
    PROVE  Kept
  <1> SUFFICES ASSUME NEW q \in Proc \ {p}
               PROVE  Fresh(call'[q], content', history')
      BY GotoCall DEF NumberedInv, Kept
  <1>1. call[q] = Idle /\ call'[q] = call[q]
      BY GotoCall DEF NumberedInv, Quiet
  <1> QED  BY <1>1, OthersFresh DEF Idle

\* What comes after a locale has read nothing.
LEMMA AfterFresh ==
    ASSUME NEW c, NEW C, NEW H
    PROVE  Fresh(After(c), C, H)
  <1>1. After(c).pc \in {"find", "tell", "idle"}
      BY DEF After, Telling, Idle
  <1> QED  BY <1>1, OthersFresh

\* A new entry in a bag of single ones.
Entered(B, x) == B (+) SetToBag({x})

LEMMA EnteredOnce ==
    ASSUME NEW B, NEW x, x \notin DOMAIN B, \A e \in DOMAIN B : B[e] = 1
    PROVE  /\ DOMAIN Entered(B, x) = DOMAIN B \cup {x}
           /\ \A e \in DOMAIN B \cup {x} : Entered(B, x)[e] = 1
  BY DEF Entered, (+), SetToBag

LEMMA CopyKept ==
    ASSUME NumberedInv, calm, NEW p \in Proc,
           \/ Put(p) \/ FindRow(p) \/ RereadRow(p)
           \/ \E key \in Key, publish \in BOOLEAN : SetPublished(p, key, publish)
           \/ RereadStatus(p)
    PROVE  Kept
  <1> USE DEF copy
  <1> DEFINE b == call[p]
             at == content[<<b.key, Head(b.todo)>>]
  <1>1. CASE Put(p)
      BY <1>1, OthersFresh, BeginKept DEF Put, PutContent, Begin
  <1>2. CASE FindRow(p)
    <2> DEFINE row == [text |-> b.text[Head(b.todo)], published |-> b.publish,
                       version |-> NextVersion(at, b.publish)]
               c == [pc |-> IF at = None THEN "write" ELSE "save", key |-> b.key, text |-> b.text,
                     publish |-> b.publish, todo |-> b.todo, row |-> row, stored |-> None]
    <2>1. Goto(p, c) /\ UNCHANGED copy /\ b.pc = "find"
        BY <1>2 DEF FindRow
    <2>2. Texts(b)
        BY <2>1 DEF NumberedInv, CopyInv, Carries
    <2>3. at # None => /\ at.version <= row.version
                       /\ b.publish => at.version < row.version
        BY <2>2, NewRow DEF NumberedInv
    <2>4. content[Place(c)] = at
        BY DEF Place
    <2> HIDE DEF row, at
    <2>5. Fresh(c, content, history)
        BY <2>3, <2>4 DEF Fresh
    <2> HIDE DEF c
    <2> QED  BY <2>1, <2>5, BeginKept
  <1>3. CASE RereadRow(p)
    <2> DEFINE c == [pc |-> "write", key |-> b.key, text |-> b.text, publish |-> b.publish,
                     todo |-> b.todo, row |-> b.row, stored |-> at]
    <2>1. Goto(p, c) /\ UNCHANGED copy /\ b.pc = "save"
        BY <1>3 DEF RereadRow
    <2>2. Fresh(b, content, history) /\ Place(b) = <<b.key, Head(b.todo)>>
        BY <2>1 DEF NumberedInv, Place
    <2>3. content[Place(c)] = at
        BY DEF Place
    <2>4. at # None => /\ at.version <= b.row.version
                       /\ b.publish => at.version < b.row.version
        BY <2>1, <2>2 DEF Fresh
    <2> HIDE DEF at
    <2>5. Fresh(c, content, history)
        BY <2>3, <2>4 DEF Fresh
    <2> HIDE DEF c
    <2> QED  BY <2>1, <2>5, BeginKept
  <1>4. ASSUME NEW key \in Key, NEW publish \in BOOLEAN, SetPublished(p, key, publish)
        PROVE  Kept
    <2> DEFINE rows == [l \in RowsOf(key) |-> content[<<key, l>>]]
               c == [pc |-> "status", key |-> key, publish |-> publish, rows |-> rows]
    <2>1. Goto(p, c) /\ UNCHANGED copy
        BY <1>4 DEF SetPublished, Begin
    <2>2. \A l \in DOMAIN rows : rows[l] = content[<<key, l>>]
        OBVIOUS
    <2> HIDE DEF rows
    <2>3. Fresh(c, content, history)
        BY <2>2 DEF Fresh
    <2> HIDE DEF c
    <2> QED  BY <2>1, <2>3, BeginKept
  <1>5. CASE RereadStatus(p)
    <2>1. PICK l \in DOMAIN b.rows :
              Goto(p, [pc |-> "flag", key |-> b.key, publish |-> b.publish, rows |-> b.rows,
                       locale |-> l, stored |-> content[<<b.key, l>>]])
        BY <1>5 DEF RereadStatus
    <2> DEFINE c == [pc |-> "flag", key |-> b.key, publish |-> b.publish, rows |-> b.rows,
                     locale |-> l, stored |-> content[<<b.key, l>>]]
    <2>2. Goto(p, c) /\ UNCHANGED copy /\ b.pc = "status"
        BY <1>5, <2>1 DEF RereadStatus
    <2>3. Fresh(b, content, history)
        BY DEF NumberedInv
    <2>4. c.stored = content[Place(c)]
        BY DEF Place
    <2>5. Fresh(c, content, history)
        BY <2>2, <2>3, <2>4 DEF Fresh
    <2> HIDE DEF c
    <2> QED  BY <2>2, <2>5, BeginKept
  <1> QED  BY <1>1, <1>2, <1>3, <1>4, <1>5

LEMMA SaveKept ==
    ASSUME NumberedInv, calm, NEW p \in Proc, SaveRow(p)
    PROVE  Kept
  <1> DEFINE b == call[p]
             l == Head(b.todo)
             r == <<b.key, l>>
             logging == [pc |-> "log", key |-> b.key, text |-> b.text, publish |-> TRUE,
                         todo |-> b.todo, version |-> b.row.version]
             c == IF b.publish THEN logging ELSE After(b)
  <1>1. /\ b.pc = "write" /\ Goto(p, c) /\ history' = history
        /\ content' = [content EXCEPT ![r] = Written(content[r], b.stored, b.row)]
      BY DEF SaveRow
  <1>2. Texts(b) /\ Saves(b) /\ Fresh(b, content, history) /\ Numbered(content, history)
      BY <1>1 DEF NumberedInv, CopyInv, Carries
  <1>3. l \in Locale /\ r \in Key \X Locale /\ content[r] \in ContentRow \cup {None}
      BY <1>2, NewRow DEF NumberedInv
  <1>4. Place(b) = r /\ Place(logging) = r
      BY <1>1 DEF Place
  <1>5. /\ b.stored = content[r]
        /\ content[r] # None => /\ content[r].version <= b.row.version
                                /\ b.publish => content[r].version < b.row.version
      BY <1>1, <1>2, <1>4 DEF Fresh
  <1>6. Written(content[r], b.stored, b.row) = b.row
      BY <1>2, <1>3, <1>5, WrittenSame DEF Saves
  <1>7. content'[r] = b.row /\ \A x \in Key \X Locale : x # r => content'[x] = content[x]
      BY <1>1, <1>3, <1>6 DEF NumberedInv, CopyInv
  <1>8. b.row # None /\ b.row.version \in Nat /\ (content[r] # None => content[r].version \in Nat)
      BY <1>2, <1>3, ContentAssumption DEF Saves, ContentRow
  <1> HIDE DEF r
  <1>9. \A e \in DOMAIN history[r] :
             /\ e.version \in Nat /\ e.version <= b.row.version
             /\ b.publish => e.version < b.row.version
      BY <1>2, <1>3, <1>5, <1>8 DEF Numbered
  <1>10. Numbered(content', history')
      BY <1>1, <1>2, <1>3, <1>7, <1>8, <1>9 DEF Numbered
  <1>11. ASSUME b.publish
         PROVE  Fresh(logging, content', history')
      BY <1>1, <1>4, <1>7, <1>8, <1>9, <1>11 DEF Fresh
  <1>12. Fresh(c, content', history')
      BY <1>11, AfterFresh
  <1>13. b # Idle
      BY <1>1 DEF Idle
  <1> HIDE DEF c
  <1> QED  BY <1>1, <1>10, <1>12, <1>13, GoKept

LEMMA LogKept ==
    ASSUME NumberedInv, calm, NEW p \in Proc, LogVersion(p)
    PROVE  Kept
  <1> DEFINE b == call[p]
             l == Head(b.todo)
             r == <<b.key, l>>
             x == [version |-> b.version, text |-> b.text[r[2]]]
             B == history[r]
  <1>1. /\ b.pc = "log" /\ Goto(p, After(b)) /\ content' = content
        /\ history' = [history EXCEPT ![r] = Entered(@, x)]
      BY DEF LogVersion, Entered
  <1>2. Texts(b) /\ Fresh(b, content, history) /\ Numbered(content, history)
      BY <1>1 DEF NumberedInv, CopyInv, Carries
  <1>3. l \in Locale /\ r \in Key \X Locale
      BY <1>2 DEF Texts, Locale
  <1>4. /\ content[r] # None /\ b.version \in Nat /\ b.version = content[r].version
        /\ \A e \in DOMAIN B : e.version < b.version
      BY <1>1, <1>2 DEF Fresh, Place
  <1>5. /\ \A e \in DOMAIN B : e.version \in Nat /\ B[e] = 1 /\ e.version <= content[r].version
        /\ \A e, f \in DOMAIN B : e.version = f.version => e = f
      BY <1>2, <1>3 DEF Numbered
  <1>6. x.version = b.version /\ x \notin DOMAIN B
      BY <1>4, <1>5
  <1> DEFINE N == Entered(B, x)
  <1> HIDE DEF x
  <1>7. DOMAIN N = DOMAIN B \cup {x} /\ \A e \in DOMAIN B \cup {x} : N[e] = 1
    <2>1. x \notin DOMAIN B /\ \A e \in DOMAIN B : B[e] = 1
        BY <1>5, <1>6
    <2> HIDE DEF B
    <2>2. /\ DOMAIN Entered(B, x) = DOMAIN B \cup {x}
          /\ \A e \in DOMAIN B \cup {x} : Entered(B, x)[e] = 1
        BY <2>1, EnteredOnce, Zenon
    <2> QED  BY <2>2
  <1>8. /\ DOMAIN history' = Key \X Locale /\ history'[r] = N
        /\ \A y \in Key \X Locale : y # r => history'[y] = history[y]
      BY <1>1, <1>2, <1>3 DEF Numbered
  <1> HIDE DEF N, B, r
  <1>9. /\ \A e \in DOMAIN N : e.version \in Nat /\ N[e] = 1 /\ e.version <= content[r].version
        /\ \A e, f \in DOMAIN N : e.version = f.version => e = f
      BY <1>4, <1>5, <1>6, <1>7
  <1>10. Numbered(content', history')
    <2>1. ASSUME NEW y \in Key \X Locale
          PROVE  /\ \A e \in DOMAIN history'[y] : /\ e.version \in Nat /\ history'[y][e] = 1
                                                  /\ content[y] # None /\ e.version <= content[y].version
                 /\ \A e, f \in DOMAIN history'[y] : e.version = f.version => e = f
      <3>1. CASE y = r
          BY <1>4, <1>8, <1>9, <3>1
      <3>2. CASE y # r
          BY <1>2, <1>8, <3>2 DEF Numbered
      <3> QED  BY <3>1, <3>2
    <2> QED  BY <1>1, <1>8, <2>1 DEF Numbered
  <1>11. b # Idle
      BY <1>1 DEF Idle
  <1>12. Fresh(After(b), content', history')
      BY AfterFresh
  <1> QED  BY <1>1, <1>10, <1>11, <1>12, GoKept

LEMMA StatusKept ==
    ASSUME NumberedInv, calm, NEW p \in Proc, SaveStatus(p)
    PROVE  Kept
  <1> DEFINE b == call[p]
             r == <<b.key, b.locale>>
             row == [b.rows[b.locale] EXCEPT !.published = b.publish]
             rest == DOMAIN b.rows \ {b.locale}
             left == [l \in rest |-> b.rows[l]]
             more == [pc |-> "status", key |-> b.key, publish |-> b.publish, rows |-> left]
             c == IF rest = {} THEN Telling({"content"}) ELSE more
  <1>1. /\ b.pc = "flag" /\ b.key \in Key /\ b.locale \in Locale /\ b.locale \in DOMAIN b.rows
        /\ DOMAIN b.rows \subseteq Locale
        /\ content[r] \in ContentRow \cup {None}
        /\ row \in ContentRow /\ row.version = b.rows[b.locale].version
        /\ content' = [content EXCEPT ![r] = Written(content[r], b.stored, row)] /\ Goto(p, c)
      BY StatusSaved DEF NumberedInv
  <1>2. history' = history /\ Numbered(content, history) /\ Fresh(b, content, history)
      BY DEF SaveStatus, NumberedInv
  <1>3. r \in Key \X Locale /\ Place(b) = r
      BY <1>1 DEF Place
  <1>4. b.stored = content[r] /\ \A l \in DOMAIN b.rows : b.rows[l] = content[<<b.key, l>>]
      BY <1>1, <1>2, <1>3 DEF Fresh
  <1>5. row.version = content[r].version
      BY <1>1, <1>4
  <1>6. row # None
      BY <1>1, ContentAssumption
  <1> HIDE DEF row
  <1>7. Written(content[r], b.stored, row) = row
      BY <1>1, <1>4, WrittenSame
  <1>8. content'[r] = row /\ \A x \in Key \X Locale : x # r => content'[x] = content[x]
      BY <1>1, <1>3, <1>7 DEF NumberedInv, CopyInv
  <1>9. Numbered(content', history')
      BY <1>2, <1>3, <1>5, <1>6, <1>8 DEF Numbered
  <1>10. DOMAIN left = rest /\ \A l \in DOMAIN left : left[l] = content'[<<b.key, l>>]
    <2>1. \A l \in rest : <<b.key, l>> \in Key \X Locale /\ <<b.key, l>> # r
        BY <1>1
    <2> QED  BY <1>4, <1>8, <2>1
  <1> HIDE DEF left
  <1>11. Fresh(more, content', history')
      BY <1>10 DEF Fresh
  <1>12. Fresh(Telling({"content"}), content', history')
      BY OthersFresh DEF Telling
  <1>13. Fresh(c, content', history') /\ b # Idle
      BY <1>1, <1>11, <1>12 DEF Idle
  <1> HIDE DEF c
  <1> QED  BY <1>1, <1>9, <1>13, GoKept

LEMMA OtherKept ==
    ASSUME NumberedInv, calm, NEW p \in Proc, OtherStep(p)
    PROVE  Kept
  <1>1. PICK c : Goto(p, c) /\ c.pc \notin CopyPc
      BY OtherGoes
  <1>2. UNCHANGED copy
      BY OtherGoes
  <1> QED  BY <1>1, <1>2, OthersFresh, BeginKept DEF CopyPc

\* Served one by one, wherever calls stop, the history of a row has one entry a version
\* and none ahead of the row (cms.service.ts putContent).
THEOREM HistoryTheorem == ContentSpec => []HistoryNumbered
  <1>1. ContentInit => NumberedInv
    <2> SUFFICES ASSUME ContentInit
                 PROVE  NumberedInv
        OBVIOUS
    <2>1. \A p \in Proc : call[p] = Idle
        BY DEF ContentInit, Init
    <2>2. Numbered(content, history)
        BY DEF ContentInit, Init, Numbered, EmptyBag, SetToBag
    <2>3. \A p \in Proc : Fresh(call[p], content, history)
        BY <2>1, OthersFresh DEF Idle
    <2> QED  BY <2>1, <2>2, <2>3, CopyStart DEF ContentInit, NumberedInv, Quiet
  <1>2. ASSUME NumberedInv, [ContentNext]_allVars
        PROVE  NumberedInv'
    <2>1. CopyInv'
        BY <1>2, CopyStep DEF NumberedInv
    <2>2. CASE UNCHANGED allVars
        BY <1>2, <2>1, <2>2 DEF allVars, vars, copy, NumberedInv, Quiet
    <2>3. CASE ContentNext
      <3>1. calm' \in BOOLEAN /\ (calm' => calm /\ Quiet')
          BY <1>2, <2>3, CalmBefore DEF NumberedInv
      <3>2. ASSUME calm'
            PROVE  Kept
        <4>1. PICK p \in Proc : Work(p) \/ Fault(p)
            BY <2>3 DEF ContentNext
        <4>2. CASE \/ Put(p) \/ FindRow(p) \/ RereadRow(p)
                   \/ \E key \in Key, publish \in BOOLEAN : SetPublished(p, key, publish)
                   \/ RereadStatus(p)
            BY <1>2, <3>1, <3>2, <4>2, CopyKept
        <4>3. CASE SaveRow(p) \/ LogVersion(p) \/ SaveStatus(p)
            BY <1>2, <3>1, <3>2, <4>3, SaveKept, LogKept, StatusKept
        <4>4. CASE OtherStep(p)
            BY <1>2, <3>1, <3>2, <4>4, OtherKept
        <4> QED  BY <4>1, <4>2, <4>3, <4>4 DEF Work, OtherStep, HeroStep
      <3> QED  BY <2>1, <3>1, <3>2 DEF NumberedInv, Kept
    <2> QED  BY <1>2, <2>2, <2>3
  <1>3. NumberedInv => HistoryNumbered
      BY DEF NumberedInv, Numbered, HistoryNumbered, BagToSet
  <1> QED  BY <1>1, <1>2, <1>3, PTL DEF ContentSpec
=============================================================================
