------------------------------ MODULE Content ------------------------------
(***************************************************************************)
(* The site's editable copy, its hero slides and its display settings, and *)
(* the portal that is told when they change.                               *)
(*                                                                         *)
(* A call is a sequence of statements on the pool, without a transaction   *)
(* but for the reordering of slides. A save of copy reads the row again    *)
(* and updates the columns that differ from it by then. A slide is saved   *)
(* whole, and inserted when it is gone: nothing here relates its columns.  *)
(***************************************************************************)
EXTENDS Naturals, Sequences, FiniteSets, Bags

CONSTANTS
    Key,          \* registered content keys
    Text, Blank,  \* what an editor may type; no text
    Markup,       \* the texts that are nothing but tags
    Slide,        \* ids of hero slides, and the keys of their images
    Order,        \* sequences of slides to reorder by
    Field,        \* display settings
    Value, Default, \* what an editor may choose for them; DEFAULT_CMS_SETTINGS
    Proc, None, MaxCalls

VARIABLES
    content,   \* site_content: <<key, locale>> -> row or None
    history,   \* site_content_history: <<key, locale>> -> bag of [version, text]
    slides,    \* hero_slides: id -> row or None
    objects,   \* images in the public prefix
    settings,  \* app_settings with prefix cms.: field -> value or None
    told,      \* tag -> the portal was told since the public view last changed
    call,      \* what each request remembers
    calls      \* what MaxCalls bounds

copy == <<content, history>>
hero == <<slides, objects>>
vars == <<copy, hero, settings, told, call, calls>>

Locale == {"en", "es"}
ContentRow == [text : Text \cup {Blank}, published : BOOLEAN, version : Nat \ {0}]
HistoryRow == [version : Nat \ {0}, text : Text]
SlideRow == [position : Nat, active : BOOLEAN]

ASSUME ContentAssumption == None \notin ContentRow

Clean(text) == IF text \in Markup THEN Blank ELSE text

Idle == [pc |-> "idle"]

Init ==
    /\ content = [r \in Key \X Locale |-> None]
    /\ history = [r \in Key \X Locale |-> EmptyBag]
    /\ slides = [s \in Slide |-> None]
    /\ objects = {}
    /\ settings = [f \in Field |-> None]
    /\ told = [tag \in {"content", "hero"} |-> TRUE]
    /\ call = [p \in Proc |-> Idle]
    /\ calls = 0

-----------------------------------------------------------------------------
(* What the public routes answer *)

\* publicContent
PublicContent(rows) == [r \in {x \in DOMAIN rows : rows[x] # None /\ rows[x].published} |-> rows[r].text]

\* mergeCmsSettings
Merged(stored) == [f \in Field |-> IF stored[f] = None THEN Default ELSE stored[f]]

\* publicHero, a slide's window being open
PublicHero(rows, stored) ==
    [slides |-> [s \in {x \in Slide : rows[x] # None /\ rows[x].active} |-> rows[s].position],
     settings |-> Merged(stored)]

\* A change the public can see makes the portal's page old.
Aged ==
    told' = [content |-> told["content"] /\ PublicContent(content') = PublicContent(content),
             hero |-> told["hero"] /\ PublicHero(slides', settings') = PublicHero(slides, settings)]

\* listContent: the administrator's view of a key.
Listed(key) ==
    LET en == content[<<key, "en">>]
        es == content[<<key, "es">>]
    IN  IF en = None /\ es = None THEN [published |-> FALSE, version |-> 1]
        ELSE IF en = None THEN [published |-> es.published, version |-> es.version]
        ELSE [published |-> en.published,
              version |-> IF es # None /\ es.version > en.version THEN es.version ELSE en.version]

-----------------------------------------------------------------------------

Goto(p, c) == call' = [call EXCEPT ![p] = c]

Begin(p, c) ==
    /\ call[p] = Idle
    /\ calls < MaxCalls
    /\ calls' = calls + 1
    /\ Goto(p, c)
    /\ UNCHANGED <<copy, hero, settings, told>>

Telling(tags) == [pc |-> "tell", tags |-> tags]

\* fireRevalidation: the portal takes the signed webhook, or it does not.
Tell(p) ==
    /\ call[p].pc = "tell"
    /\ told' = [tag \in DOMAIN told |-> told[tag] \/ tag \in call[p].tags]
    /\ Goto(p, Idle)
    /\ UNCHANGED <<copy, hero, settings, calls>>

TellFails(p) ==
    /\ call[p].pc = "tell"
    /\ Goto(p, Idle)
    /\ UNCHANGED <<copy, hero, settings, told, calls>>

\* A statement fails, or the storage does, and the request ends with an error.
Fail(p) ==
    /\ call[p].pc \notin {"idle", "tell"}
    /\ Goto(p, Idle)
    /\ UNCHANGED <<copy, hero, settings, told, calls>>

-----------------------------------------------------------------------------
(* Copy *)

PutContent_Typed(p, key, typed, publish) ==  \* mutant: looked for before the tags are stripped
    LET text == [l \in Locale |-> Clean(typed[l])]
    IN  /\ publish => \A l \in Locale : typed[l] # Blank
        /\ Begin(p, [pc |-> "find", key |-> key, text |-> text, publish |-> publish,
                     todo |-> <<"en", "es">>])

PutContent(p, key, typed, publish) ==
    LET text == [l \in Locale |-> Clean(typed[l])]
    IN  /\ publish => \A l \in Locale : text[l] # Blank
        /\ Begin(p, [pc |-> "find", key |-> key, text |-> text, publish |-> publish,
                     todo |-> <<"en", "es">>])

NextVersion_Kept(seen, publish) ==  \* mutant: a version is taken when a row is new only
    IF seen = None THEN 1 ELSE seen.version

NextVersion(seen, publish) ==
    IF publish THEN IF seen = None THEN 1 ELSE seen.version + 1
    ELSE IF seen = None THEN 1 ELSE seen.version

\* findOne; a row that is not there is inserted, one that is read again by its save.
FindRow(p) ==
    /\ call[p].pc = "find"
    /\ LET c == call[p]
           l == Head(c.todo)
           seen == content[<<c.key, l>>]
           row == [text |-> c.text[l], published |-> c.publish, version |-> NextVersion(seen, c.publish)]
       IN  Goto(p, [pc |-> IF seen = None THEN "write" ELSE "save", key |-> c.key, text |-> c.text,
                    publish |-> c.publish, todo |-> c.todo, row |-> row, stored |-> None])
    /\ UNCHANGED <<copy, hero, settings, told, calls>>

\* What the save of a row reads ...
RereadRow(p) ==
    /\ call[p].pc = "save"
    /\ LET c == call[p]
       IN  Goto(p, [pc |-> "write", key |-> c.key, text |-> c.text, publish |-> c.publish,
                    todo |-> c.todo, row |-> c.row, stored |-> content[<<c.key, Head(c.todo)>>]])
    /\ UNCHANGED <<copy, hero, settings, told, calls>>

\* ... and writes: of a row it found, the columns that differ.
Written(now, stored, row) ==
    IF None \in {now, stored} THEN row
    ELSE [f \in DOMAIN row |-> IF row[f] = stored[f] THEN now[f] ELSE row[f]]

\* After a locale comes the next one; a publication ends with the webhook.
After(c) ==
    IF Len(c.todo) > 1
    THEN [pc |-> "find", key |-> c.key, text |-> c.text, publish |-> c.publish, todo |-> Tail(c.todo)]
    ELSE IF c.publish THEN Telling({"content"}) ELSE Idle

\* The unique index (content_key, locale) refuses a second new row.
SaveRow(p) ==
    /\ call[p].pc = "write"
    /\ LET c == call[p]
           r == <<c.key, Head(c.todo)>>
       IN  /\ c.stored = None => content[r] = None
           /\ content' = [content EXCEPT ![r] = Written(@, c.stored, c.row)]
           /\ Goto(p, IF c.publish
                      THEN [pc |-> "log", key |-> c.key, text |-> c.text, publish |-> TRUE,
                            todo |-> c.todo, version |-> c.row.version]
                      ELSE After(c))
    /\ UNCHANGED <<history, hero, settings, calls>>
    /\ Aged

LogVersion(p) ==
    /\ call[p].pc = "log"
    /\ LET c == call[p]
           r == <<c.key, Head(c.todo)>>
       IN  /\ history' = [history EXCEPT ![r] =
                             @ (+) SetToBag({[version |-> c.version, text |-> c.text[r[2]]]})]
           /\ Goto(p, After(c))
    /\ UNCHANGED <<content, hero, settings, told, calls>>

RowsOf(key) == {l \in Locale : content[<<key, l>>] # None}

SetPublished(p, key, publish) ==
    /\ RowsOf(key) # {}
    /\ publish => \A l \in RowsOf(key) : content[<<key, l>>].text # Blank
    /\ Begin(p, [pc |-> "status", key |-> key, publish |-> publish,
                 rows |-> [l \in RowsOf(key) |-> content[<<key, l>>]]])

RereadStatus(p) ==
    /\ call[p].pc = "status"
    /\ LET c == call[p]
       IN  \E l \in DOMAIN c.rows :
              Goto(p, [pc |-> "flag", key |-> c.key, publish |-> c.publish, rows |-> c.rows,
                       locale |-> l, stored |-> content[<<c.key, l>>]])
    /\ UNCHANGED <<copy, hero, settings, told, calls>>

SaveStatus(p) ==
    /\ call[p].pc = "flag"
    /\ LET c == call[p]
           row == [c.rows[c.locale] EXCEPT !.published = c.publish]
           rest == DOMAIN c.rows \ {c.locale}
       IN  /\ content' = [content EXCEPT ![<<c.key, c.locale>>] = Written(@, c.stored, row)]
           /\ Goto(p, IF rest = {} THEN Telling({"content"})
                      ELSE [pc |-> "status", key |-> c.key, publish |-> c.publish,
                            rows |-> [l \in rest |-> c.rows[l]]])
    /\ UNCHANGED <<history, hero, settings, calls>>
    /\ Aged

-----------------------------------------------------------------------------
(* Hero slides *)

Unused(s) ==
    /\ slides[s] = None
    /\ s \notin objects
    /\ \A q \in Proc : call[q].pc \in {"put", "count", "slide", "unlink", "remove"} => call[q].id # s

CreateSlide(p, s, active) ==
    /\ Unused(s)
    /\ Begin(p, [pc |-> "put", id |-> s, active |-> active])

\* saveHeroObject
PutImage(p) ==
    /\ call[p].pc = "put"
    /\ objects' = objects \cup {call[p].id}
    /\ Goto(p, [pc |-> "count", id |-> call[p].id, active |-> call[p].active])
    /\ UNCHANGED <<copy, slides, settings, told, calls>>

CountSlides(p) ==
    /\ call[p].pc = "count"
    /\ LET row == [position |-> Cardinality({s \in Slide : slides[s] # None}),
                   active |-> call[p].active]
       IN  Goto(p, [pc |-> "slide", id |-> call[p].id, row |-> row])
    /\ UNCHANGED <<copy, hero, settings, told, calls>>

\* applyHeroPatch; whether a slide shows is all of it the model keeps.
Patched(row, active) == [row EXCEPT !.active = active]

\* updateHeroSlide and toggleHeroSlide
UpdateSlide(p, s, active) ==
    /\ slides[s] # None
    /\ Begin(p, [pc |-> "slide", id |-> s, row |-> Patched(slides[s], active)])

SaveSlide(p) ==
    /\ call[p].pc = "slide"
    /\ slides' = [slides EXCEPT ![call[p].id] = call[p].row]
    /\ Goto(p, Telling({"hero"}))
    /\ UNCHANGED <<copy, objects, settings, calls>>
    /\ Aged

DeleteSlide(p, s) ==
    /\ slides[s] # None
    /\ Begin(p, [pc |-> "unlink", id |-> s])

\* removeHeroObject, which swallows its errors
UnlinkImage(p) ==
    /\ call[p].pc = "unlink"
    /\ objects' = objects \ {call[p].id}
    /\ Goto(p, [pc |-> "remove", id |-> call[p].id])
    /\ UNCHANGED <<copy, slides, settings, told, calls>>

UnlinkFails(p) ==
    /\ call[p].pc = "unlink"
    /\ Goto(p, [pc |-> "remove", id |-> call[p].id])
    /\ UNCHANGED <<copy, hero, settings, told, calls>>

RemoveSlide_Quiet(p) ==  \* mutant: the portal is not told of a removal
    /\ call[p].pc = "remove"
    /\ slides' = [slides EXCEPT ![call[p].id] = None]
    /\ Goto(p, Idle)
    /\ UNCHANGED <<copy, objects, settings, calls>>
    /\ Aged

RemoveSlide(p) ==
    /\ call[p].pc = "remove"
    /\ slides' = [slides EXCEPT ![call[p].id] = None]
    /\ Goto(p, Telling({"hero"}))
    /\ UNCHANGED <<copy, objects, settings, calls>>
    /\ Aged

ReorderSlides(p, ids) ==
    /\ \A i \in DOMAIN ids : slides[ids[i]] # None
    /\ Begin(p, [pc |-> "reorder", ids |-> ids])

\* One transaction; update leaves alone a slide that is gone.
CommitOrder(p) ==
    /\ call[p].pc = "reorder"
    /\ LET ids == call[p].ids
           Last(s) == CHOOSE i \in DOMAIN ids : ids[i] = s /\ \A j \in DOMAIN ids : ids[j] = s => j <= i
       IN  slides' = [s \in Slide |->
              IF slides[s] # None /\ \E i \in DOMAIN ids : ids[i] = s
              THEN [slides[s] EXCEPT !.position = Last(s) - 1]
              ELSE slides[s]]
    /\ Goto(p, Telling({"hero"}))
    /\ UNCHANGED <<copy, objects, settings, calls>>
    /\ Aged

-----------------------------------------------------------------------------
(* Display settings, written one by one *)

UpdateSettings(p, patch) == Begin(p, [pc |-> "settings", patch |-> patch])

WriteSetting(p) ==
    /\ call[p].pc = "settings"
    /\ LET patch == call[p].patch
       IN  \E f \in DOMAIN patch :
              /\ settings' = [settings EXCEPT ![f] = patch[f]]
              /\ Goto(p, IF DOMAIN patch = {f} THEN Telling({"hero", "content"})
                         ELSE [pc |-> "settings", patch |-> [g \in DOMAIN patch \ {f} |-> patch[g]]])
    /\ UNCHANGED <<copy, hero, calls>>
    /\ Aged

-----------------------------------------------------------------------------

Put(p) ==
    \E key \in Key, typed \in [Locale -> Text \cup {Blank}], publish \in BOOLEAN :
        PutContent(p, key, typed, publish)

Work(p) ==
    \/ Put(p) \/ FindRow(p) \/ RereadRow(p) \/ SaveRow(p) \/ LogVersion(p)
    \/ \E key \in Key, publish \in BOOLEAN : SetPublished(p, key, publish)
    \/ RereadStatus(p) \/ SaveStatus(p)
    \/ \E s \in Slide, active \in BOOLEAN : CreateSlide(p, s, active)
    \/ PutImage(p) \/ CountSlides(p)
    \/ \E s \in Slide, active \in BOOLEAN : UpdateSlide(p, s, active)
    \/ SaveSlide(p)
    \/ \E s \in Slide : DeleteSlide(p, s)
    \/ UnlinkImage(p) \/ RemoveSlide(p)
    \/ \E ids \in Order : ReorderSlides(p, ids)
    \/ CommitOrder(p)
    \/ \E fields \in SUBSET Field \ {{}} : \E patch \in [fields -> Value] : UpdateSettings(p, patch)
    \/ WriteSetting(p)
    \/ Tell(p)

Fault(p) == TellFails(p) \/ UnlinkFails(p) \/ Fail(p)

Next == \E p \in Proc : Work(p) \/ Fault(p)

Spec == Init /\ [][Next]_vars
=============================================================================
