---------------------------- MODULE DurableDocs ----------------------------
(***************************************************************************)
(* What the collaborative-editing back end promises about a node's         *)
(* document, without its maps, timers, caches and in-flight writes.        *)
(*                                                                         *)
(* A document is the set of the Yjs updates merged into it.  Editors see   *)
(* content[d]; saved[d] is what a server that starts from nothing would    *)
(* load.  A document somebody takes part in is attended, and when the last *)
(* one goes it is saved.  What is merged into a document nobody attends is *)
(* late: until somebody attends the document again, only luck saves it.    *)
(* A stop of the server throws away what was not saved; the end of an      *)
(* unattended document, and the lapse of a store that does not last, throw *)
(* away late updates and nothing else.  A deleted document is out of the   *)
(* contract.                                                               *)
(***************************************************************************)
CONSTANTS Docs,     \* documents (one per graph node)
          Items,    \* Yjs updates
          Lasting   \* does the store keep for ever all that was saved?

VARIABLES content,  \* [Docs -> SUBSET Items]: what an editor who joins sees
          saved,    \* [Docs -> SUBSET Items]: what a fresh server would load
          late,     \* [Docs -> SUBSET Items]: merged since the document was
                    \* last attended, and new then
          attended, \* documents somebody takes part in
          gone      \* documents whose node was deleted

ddvars == <<content, saved, late, attended, gone>>

DDTypeOK ==
    /\ content \in [Docs -> SUBSET Items]
    /\ saved \in [Docs -> SUBSET Items]
    /\ late \in [Docs -> SUBSET Items]
    /\ attended \subseteq Docs
    /\ gone \subseteq Docs

DDInit ==
    /\ content \in [Docs -> SUBSET Items]
    /\ saved = content
    /\ late = [d \in Docs |-> {}]
    /\ attended = {}
    /\ gone = {}

(* Somebody takes part.  A load begun before a lapse may bring back late   *)
(* updates that lapsed meanwhile.                                          *)
Attend(d) ==
    /\ d \notin gone
    /\ attended' = attended \cup {d}
    /\ late' = [late EXCEPT ![d] = {}]
    /\ \E U \in SUBSET (IF Lasting THEN {} ELSE late[d]) :
           content' = [content EXCEPT ![d] = @ \cup U]
    /\ UNCHANGED <<saved, gone>>

Edit(d, u) ==
    /\ d \notin gone
    /\ content' = [content EXCEPT ![d] = @ \cup {u}]
    /\ late' = [late EXCEPT ![d] = IF d \in attended THEN @
                                   ELSE @ \cup ({u} \ content[d])]
    /\ UNCHANGED <<saved, attended, gone>>

(* A save that covers several documents at once (the periodic flush).      *)
SaveDocs(S) ==
    /\ S \cap gone = {}
    /\ saved' = [d \in Docs |-> IF d \in S THEN content[d] ELSE saved[d]]
    /\ UNCHANGED <<content, late, attended, gone>>

(* The last one who took part leaves each document of S.                   *)
Leave(S) ==
    /\ S \cap gone = {}
    /\ attended' = attended \ S
    /\ saved' = [d \in Docs |-> IF d \in S THEN content[d] ELSE saved[d]]
    /\ UNCHANGED <<content, late, gone>>

(* An unattended document is put away as it was last saved.                *)
PutAway(d) ==
    /\ d \notin attended
    /\ content' = [content EXCEPT ![d] = saved[d]]
    /\ UNCHANGED <<saved, late, attended, gone>>

(* A store that does not last forgets late updates of a document that was  *)
(* put away.                                                               *)
Lapse(d) ==
    /\ ~Lasting
    /\ d \notin attended
    /\ content[d] = saved[d]
    /\ \E L \in SUBSET late[d] :
          /\ saved' = [saved EXCEPT ![d] = @ \ L]
          /\ content' = [content EXCEPT ![d] = @ \ L]
    /\ UNCHANGED <<late, attended, gone>>

Stop ==
    /\ content' = saved
    /\ attended' = {}
    /\ UNCHANGED <<saved, late, gone>>

Delete(d) ==
    /\ gone' = gone \cup {d}
    /\ content' = [content EXCEPT ![d] = {}]
    /\ saved' = [saved EXCEPT ![d] = {}]
    /\ late' = [late EXCEPT ![d] = {}]
    /\ attended' = attended \ {d}

DDNext ==
    \/ \E d \in Docs : Attend(d) \/ PutAway(d) \/ Lapse(d) \/ Delete(d)
    \/ \E d \in Docs, u \in Items : Edit(d, u)
    \/ \E S \in SUBSET Docs : SaveDocs(S) \/ Leave(S)
    \/ Stop

DDSpec == DDInit /\ [][DDNext]_ddvars

-----------------------------------------------------------------------------
(* A fresh server never shows an edit that no editor has seen.             *)
SavedWasSeen == \A d \in Docs : saved[d] \subseteq content[d]

(* Nothing that was saved is ever lost while the document's node lives: a  *)
(* later save, a stop of the server or a reload keeps every saved update.  *)
SavedIsKept ==
    [][\A d \in Docs \ gone' : saved[d] \subseteq saved'[d]]_ddvars

=============================================================================
