----------------------------- MODULE Preferences -----------------------------
(* The preference rows of one account and topic                            *)
(* (internal/store/preferences.go), written by the requests that set and   *)
(* delete the preference: each looks the row up and then writes, two       *)
(* statements that no transaction and no effective unique key ties         *)
(* together (the index on account, topic and deleted_at accepts any number *)
(* of rows whose deleted_at is null).                                      *)
EXTENDS Integers, FiniteSets

CONSTANTS
    Writers,        \* requests that may be in flight at once
    MaxPrefs        \* bound: rows inserted

ASSUME PreferenceConstants == IsFiniteSet(Writers) /\ MaxPrefs \in Nat

VARIABLES
    prefs,          \* the level of each row that is not deleted, by id; the
                    \* ids are in the order of created_at
    lastPref,       \* the last id handed out
    wpc, wlevel, wrow,  \* where each writer stands, the level it sets, its row
    lone,           \* whether no other writer was at work meanwhile
    settled         \* the level last set, if the rows are certain to show it

writing == <<wpc, wlevel, wrow, lone>>
prefVars == <<prefs, lastPref, writing, settled>>

Levels == {"Normal", "Silent", "Reject"}
Writing == {w \in Writers : wpc[w] # "idle"}

PrefInit ==
    /\ prefs = [i \in {} |-> "Normal"] /\ lastPref = 0
    /\ wpc = [w \in Writers |-> "idle"]
    /\ wlevel = [w \in Writers |-> "Normal"]
    /\ wrow = [w \in Writers |-> 0]
    /\ lone = [w \in Writers |-> FALSE]
    /\ settled = "Normal"

(* GetPreference reads the oldest row.                                     *)
Oldest == {i \in DOMAIN prefs : \A j \in DOMAIN prefs : i <= j}

(* The level one lookup finds (Get), and those a lookup for many accounts  *)
(* may find (GetMany): it lists the rows in no order and the last one wins, *)
(* and an account it does not list has the level that is zero.             *)
LevelFound == IF DOMAIN prefs = {} THEN {"Normal"} ELSE {prefs[i] : i \in Oldest}

\* Faulty: an account that the list does not have gets no level.
LevelsFoundByManyUnset == IF DOMAIN prefs = {} THEN {"Unset"} ELSE {prefs[i] : i \in DOMAIN prefs}

LevelsFoundByMany == IF DOMAIN prefs = {} THEN {"Normal"} ELSE {prefs[i] : i \in DOMAIN prefs}

Begin(w, step, level, row) ==
    /\ wpc[w] = "idle"
    /\ wpc' = [wpc EXCEPT ![w] = step]
    /\ wlevel' = [wlevel EXCEPT ![w] = level]
    /\ wrow' = [wrow EXCEPT ![w] = row]
    /\ lone' = [v \in Writers |-> v = w /\ Writing = {}]
    /\ settled' = "unknown"

\* Faulty: an existing row is not looked for.
LookUpNothing(w) ==
    \E level \in Levels :
        /\ lastPref < MaxPrefs /\ lastPref' = lastPref + 1
        /\ Begin(w, "insert", level, lastPref + 1)
        /\ UNCHANGED prefs

(* SetPreference: the row to update, or the id of the one to insert.       *)
LookUpToSet(w) ==
    \E level \in Levels :
        /\ \/ /\ \E i \in Oldest : Begin(w, "update", level, i)
              /\ lastPref' = lastPref
           \/ /\ DOMAIN prefs = {} /\ lastPref < MaxPrefs
              /\ lastPref' = lastPref + 1
              /\ Begin(w, "insert", level, lastPref + 1)
        /\ UNCHANGED prefs

(* DeletePreference, which does nothing when there is no row.              *)
LookUpToDelete(w) ==
    /\ \E i \in Oldest : Begin(w, "delete", "Normal", i)
    /\ UNCHANGED <<prefs, lastPref>>

(* A writer is done.  When it was alone, what it wrote is what lookups     *)
(* find, except that a delete may uncover a second row.                    *)
Finish(w, certain) ==
    /\ wpc' = [wpc EXCEPT ![w] = "idle"]
    /\ wlevel' = [wlevel EXCEPT ![w] = "Normal"]
    /\ wrow' = [wrow EXCEPT ![w] = 0]
    /\ lone' = [lone EXCEPT ![w] = FALSE]
    /\ settled' = IF lone[w] /\ certain THEN wlevel[w] ELSE settled
    /\ lastPref' = lastPref

(* The row is written by id; one that is deleted by now stays as it is.    *)
UpdatePreference(w) ==
    /\ wpc[w] = "update"
    /\ prefs' = [i \in DOMAIN prefs |-> IF i = wrow[w] THEN wlevel[w] ELSE prefs[i]]
    /\ Finish(w, TRUE)

InsertPreference(w) ==
    /\ wpc[w] = "insert"
    /\ prefs' = [i \in DOMAIN prefs \union {wrow[w]} |->
                    IF i = wrow[w] THEN wlevel[w] ELSE prefs[i]]
    /\ Finish(w, TRUE)

(* deleted_at is set: no statement of the program reads the row any more.  *)
SoftDeletePreference(w) ==
    /\ wpc[w] = "delete"
    /\ prefs' = [i \in DOMAIN prefs \ {wrow[w]} |-> prefs[i]]
    /\ Finish(w, DOMAIN prefs' = {})

(* The second statement fails, or the request is cancelled before it.      *)
WriterFails(w) ==
    /\ wpc[w] # "idle"
    /\ prefs' = prefs
    /\ Finish(w, FALSE)

Write(w) ==
    \/ LookUpToSet(w) \/ LookUpToDelete(w)
    \/ UpdatePreference(w) \/ InsertPreference(w) \/ SoftDeletePreference(w)
    \/ WriterFails(w)

PrefTypeOK ==
    /\ DOMAIN prefs \subseteq 1..MaxPrefs /\ prefs \in [DOMAIN prefs -> Levels]
    /\ lastPref \in 0..MaxPrefs
    /\ wpc \in [Writers -> {"idle", "update", "insert", "delete"}]
    /\ wlevel \in [Writers -> Levels]
    /\ wrow \in [Writers -> 0..MaxPrefs]
    /\ lone \in [Writers -> BOOLEAN]
    /\ settled \in Levels \union {"unknown"}

=============================================================================
