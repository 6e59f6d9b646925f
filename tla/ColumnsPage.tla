------------------------------- MODULE ColumnsPage -----------------------------
(***************************************************************************)
(* The columns a user chooses for the tables: frontend/src/lib/            *)
(* fieldConfig.ts, components/FieldSelector.tsx and the saves of           *)
(* PartsPage.tsx, BomPage.tsx and PartDetailPage.tsx, against              *)
(* sanitize_user_field_preferences of app/services/field_config.py and     *)
(* apply_settings_payload of app/services/user_settings.py.                *)
(*                                                                         *)
(* The preferences of all tables are one value, shown before it is stored  *)
(* and stored as a whole.  `doubt', `blind' and `chosen' are history: a    *)
(* save failed or overlapped with another; a save was sent before the      *)
(* preferences had been loaded; the tables whose columns were chosen here. *)
(***************************************************************************)
EXTENDS Browser, SequencesExt

CONSTANTS
  Tables,      \* contexts: parts_list, bom_tree, ...
  MustShow     \* the columns every table must show, each once

ASSUME ColumnsAssumption ==
  /\ MustShow \in Seq(ToSet(MustShow))
  /\ \A j, k \in DOMAIN MustShow : MustShow[j] = MustShow[k] => j = k

NoChoice == [ids |-> <<>>, useDefault |-> Absent]
NoPreferences == [contexts |-> [t \in Tables |-> NoChoice], reviews |-> [t \in Tables |-> Absent]]

ColumnsStart == [at |-> "columns", config |-> Absent, prefs |-> Absent,
                 doubt |-> FALSE, blind |-> FALSE, chosen |-> {}]

\* `config' is per table: the allowed columns and the default ones, in order.
ColumnsServer(config, prefs) == [config |-> config, stored |-> prefs, loaded |-> prefs]

ColumnsCalls == <<Call("fieldConfig", Absent)>>

-------------------------------------------------------------------------------
(* lib/fieldConfig.ts and its counterpart in the server.                   *)

Only(ids, allowed)  == Picked(ids, {k \in DOMAIN ids : Contains(allowed, ids[k])})
Excluding(ids, others) == Picked(ids, {k \in DOMAIN ids : ~Contains(others, ids[k])})
WithRequired(ids, required) == Reverse(Excluding(required, ids)) \o ids

ContextFields(config, t) == IF config = Absent THEN <<>> ELSE config[t].allowed

\* Mutant: a preference is shown as it was stored.
Preferred(config, prefs, t) == prefs.contexts[t].ids

SelectedFieldIds(config, prefs, t) ==
  LET ids == IF prefs.contexts[t].ids = <<>> THEN config[t].default ELSE prefs.contexts[t].ids
  IN WithRequired(FirstOnes(Only(ids, config[t].allowed)), Only(MustShow, config[t].allowed))

\* Mutant: only the table at hand is sent.
UpdateThisContext(config, prefs, t, ids) ==
  [NoPreferences EXCEPT !.contexts[t].ids =
     WithRequired(FirstOnes(Only(ids, config[t].allowed)), Only(MustShow, config[t].allowed))]

\* The Reviews columns are left out of what is sent.
UpdateContextSelection(config, prefs, t, ids) ==
  [contexts |-> [prefs.contexts EXCEPT ![t].ids =
     WithRequired(FirstOnes(Only(ids, config[t].allowed)), Only(MustShow, config[t].allowed))],
   reviews |-> NoPreferences.reviews]

UpdateContextMode(prefs, t, useDefault) ==
  [contexts |-> [prefs.contexts EXCEPT ![t].useDefault = useDefault], reviews |-> NoPreferences.reviews]

UpdateReviewColumnVisibility(prefs, t, visible) == [prefs EXCEPT !.reviews[t] = visible]

ReviewColumnVisible(prefs, t) == prefs.reviews[t] # FALSE

SanitizeUserFieldPreferences(raw, config) ==
  [raw EXCEPT !.contexts = [t \in Tables |->
     LET ids == IF raw.contexts[t].ids = <<>> THEN config[t].default ELSE raw.contexts[t].ids
         kept == WithRequired(FirstOnes(Only(ids, config[t].allowed)), MustShow)
     IN [raw.contexts[t] EXCEPT !.ids = IF kept = <<>> THEN config[t].default ELSE kept]]]

-------------------------------------------------------------------------------

LoadFieldConfig == \E i \in DOMAIN calls :
  /\ IsAsked(i, "fieldConfig")
  /\ Reply(i, [config |-> server.config, prefs |-> SanitizeUserFieldPreferences(server.stored, server.config)])
  /\ UNCHANGED <<page, server, left>>

\* A failure leaves the page with its fallback columns.
FieldConfigAnswer == \E i \in DOMAIN calls :
  /\ IsAnswered(i, "fieldConfig")
  /\ Show(IF Failed(i) THEN page
          ELSE [page EXCEPT !.config = calls[i].reply.config, !.prefs = calls[i].reply.prefs,
                            !.doubt = @ \/ Waiting("preferences")])
  /\ Take(i) /\ UNCHANGED <<server, left>>

\* The choice is shown at once and sent as a whole.
PersistFieldPreferences(t, next) ==
  /\ Act /\ On("columns")
  /\ Show([page EXCEPT !.prefs = next, !.chosen = @ \cup {t}, !.blind = @ \/ page.prefs = Absent,
                       !.doubt = @ \/ Waiting("preferences") \/ Waiting("fieldConfig")])
  /\ Send(<<Call("preferences", next)>>)
  /\ UNCHANGED server

PersistFieldSelection(t, ids) ==
  /\ page.config # Absent
  /\ PersistFieldPreferences(t, UpdateContextSelection(page.config, page.prefs, t, ids))

\* components/FieldSelector.tsx: the order of the columns is kept.
ToggleField(t) == \E id \in ToSet(ContextFields(page.config, t)) :
  LET ids == SelectedFieldIds(page.config, page.prefs, t) IN
  IF Contains(ids, id)
  THEN ~Contains(MustShow, id) /\ PersistFieldSelection(t, Excluding(ids, <<id>>))
  ELSE PersistFieldSelection(t, Append(ids, id))

\* A column moved by a button or, to any place, by its header.
MoveField(t) ==
  /\ page.config # Absent
  /\ LET ids == SelectedFieldIds(page.config, page.prefs, t) IN
     \E k \in 1 .. Len(ids) - 1 :
       PersistFieldSelection(t, [ids EXCEPT ![k] = ids[k + 1], ![k + 1] = ids[k]])

SelectAll(t) == PersistFieldSelection(t, ContextFields(page.config, t))
ResetFields(t) == page.config # Absent /\ PersistFieldSelection(t, page.config[t].default)

\* Neither asks whether anything has been loaded.
Known(prefs) == IF prefs = Absent THEN NoPreferences ELSE prefs

ToggleReviews(t) ==
  PersistFieldPreferences(t,
    UpdateReviewColumnVisibility(Known(page.prefs), t, ~ReviewColumnVisible(Known(page.prefs), t)))

PersistFieldMode(t) == \E useDefault \in BOOLEAN :
  PersistFieldPreferences(t, UpdateContextMode(Known(page.prefs), t, useDefault))

StorePreferences == \E i \in DOMAIN calls :
  /\ IsAsked(i, "preferences")
  /\ server' = [server EXCEPT !.stored = SanitizeUserFieldPreferences(calls[i].args, server.config)]
  /\ Reply(i, server'.stored)
  /\ UNCHANGED <<page, left>>

\* Mutant: the answer is not looked at.
AfterSaveAsSent(i) == page.prefs

AfterSave(i) == calls[i].reply

PreferencesAnswer == \E i \in DOMAIN calls :
  /\ IsAnswered(i, "preferences")
  /\ Show(IF Failed(i) THEN [page EXCEPT !.doubt = TRUE] ELSE [page EXCEPT !.prefs = AfterSave(i)])
  /\ Take(i) /\ UNCHANGED <<server, left>>

\* An administrator takes a column away.
WithdrawField == \E t \in Tables : \E id \in ToSet(server.config[t].allowed) \ ToSet(MustShow) :
  /\ Act
  /\ server' = [server EXCEPT !.config[t].allowed = Excluding(@, <<id>>),
                              !.config[t].default = Excluding(@, <<id>>)]
  /\ UNCHANGED <<page, calls>>

ColumnsNext ==
  /\ On("columns")
  /\ \/ LoadFieldConfig \/ FieldConfigAnswer \/ StorePreferences \/ PreferencesAnswer \/ WithdrawField
     \/ \E t \in Tables : ToggleField(t) \/ MoveField(t) \/ SelectAll(t) \/ ResetFields(t)
                          \/ ToggleReviews(t) \/ PersistFieldMode(t)

-------------------------------------------------------------------------------

\* A table shows the columns its configuration allows, each once, with the
\* required ones, whatever choice was stored when more was allowed
\* (lib/fieldConfig.ts:85, fieldConfig.test.ts:45).
ShownColumnsAllowed ==
  On("columns") /\ page.config # Absent => \A t \in Tables :
    LET ids == SelectedFieldIds(page.config, page.prefs, t) IN
    /\ ToSet(ids) \subseteq ToSet(page.config[t].allowed)
    /\ Len(ids) = Cardinality(ToSet(ids))
    /\ ToSet(MustShow) \subseteq ToSet(ids)

\* A quiet page shows the choices that are stored, unless a save failed or
\* met another one (PartsPage.tsx:212-218).
PreferencesAreStored ==
  On("columns") /\ calls = <<>> /\ ~page.doubt /\ page.prefs # Absent =>
    \/ page.prefs = server.stored
    \/ page.config # Absent /\ page.prefs = SanitizeUserFieldPreferences(server.stored, page.config)

\* Choosing for one table leaves the choices made for the others, as far as
\* they are still allowed, unless something was sent before the preferences
\* had been loaded (lib/fieldConfig.ts:105, fieldConfig.test.ts:86).
OtherTablesKeepTheirColumns ==
  On("columns") /\ ~page.blind => \A t \in Tables \ page.chosen :
    ToSet(Only(server.loaded.contexts[t].ids, server.config[t].allowed)) \subseteq ToSet(server.stored.contexts[t].ids)
===============================================================================
