------------------------- MODULE ContentProperties -------------------------
(***************************************************************************)
(* What Content is checked for. calm holds as long as no two calls         *)
(* overlapped; apart as long as none that empties a key overlapped one     *)
(* that publishes it; served as long as none failed, told the portal in    *)
(* vain or saved a draft over copy the public sees.                        *)
(***************************************************************************)
EXTENDS Content

VARIABLES calm, apart, served

allVars == <<vars, calm, apart, served>>

\* A draft withdraws what was published, and only publications tell the portal.
DraftOver(p) ==
    /\ call[p].pc = "write"
    /\ ~call[p].publish
    /\ PublicContent(content') # PublicContent(content)

\* A call that may publish the copy of its key, or make it empty.
Publishes(c) == c.pc \in {"find", "save", "write", "log", "status", "flag"} /\ c.publish

Empties(c) ==
    \/ c.pc \in {"find", "save", "write"} /\ ~c.publish /\ \E l \in Locale : c.text[l] = Blank
    \/ c.pc \in {"status", "flag"} /\ ~c.publish /\ \E l \in DOMAIN c.rows : c.rows[l].text = Blank

Apart == \A p, q \in Proc : Publishes(call[p]) /\ Empties(call[q]) => call[p].key # call[q].key

ContentInit == Init /\ calm = TRUE /\ apart = TRUE /\ served = TRUE

ContentNext ==
    /\ \E p \in Proc :
          \/ Work(p) /\ served' = (served /\ ~DraftOver(p))
          \/ Fault(p) /\ served' = FALSE
    /\ calm' = (calm /\ \A p, q \in Proc : p # q => Idle \in {call'[p], call'[q]})
    /\ apart' = (apart /\ Apart')

ContentSpec == ContentInit /\ [][ContentNext]_allVars

AllIdle == \A p \in Proc : call[p] = Idle

\* Copy the public sees is never empty, whatever publications, drafts and withdrawals
\* overlap and wherever they fail, as long as empty copy is not saved or withdrawn while a
\* call publishes that key: status and text are checked together, yet saved by columns.
NoBlankPublished ==
    apart => \A r \in DOMAIN content :
                content[r] # None /\ content[r].published => content[r].text # Blank

\* Served one by one, no two entries of a history share a version, and none is ahead of its
\* row, wherever a call fails.
HistoryNumbered ==
    calm => \A r \in DOMAIN history :
        /\ \A e \in BagToSet(history[r]) :
              /\ history[r][e] = 1
              /\ content[r] # None /\ e.version <= content[r].version
        /\ \A e, f \in BagToSet(history[r]) : e.version = f.version => e = f

\* Once everyone is served the portal was told of the last change, however calls overlapped.
PortalTold == served /\ AllIdle => told["content"] /\ told["hero"]
=============================================================================
