------------------------------- MODULE FieldsPage ------------------------------
(***************************************************************************)
(* The administrator's field configuration:                                *)
(* frontend/src/pages/AdminFieldsPage.tsx against sanitize_admin_field_    *)
(* config and save_field_config of app/services/field_config.py.           *)
(*                                                                         *)
(* The configuration is edited as a whole and written as a whole; there is *)
(* no version.  A field is its identifier: 0 is that of the built-in       *)
(* field, custom fields are `custom_n', n = 1, 2, ...  One context stands  *)
(* for the destinations; its built-in field is required and its default.   *)
(*                                                                         *)
(* The page finds fields by identifier and lets a custom field have any,   *)
(* the one of the built-in field too; what is then done to one is done to  *)
(* both.  `builtin' holds the identifier that the entry of the built-in    *)
(* field has, or nothing once the entry is gone.  `labels' is the last     *)
(* edit of anything else.  History: `dirty', the page was edited or a      *)
(* request failed, and `taken', a custom field had the identifier of the   *)
(* built-in one, since the page last took a configuration.                 *)
(***************************************************************************)
EXTENDS Browser

CONSTANTS MaxField    \* bound: identifiers of custom fields

Builtin  == 0
Required == {Builtin}

Config(fields, allowed, defaults, labels) ==
  [builtin |-> {Builtin}, fields |-> fields, allowed |-> allowed, defaults |-> defaults, labels |-> labels]

Defaults == Config(<<>>, Required, Required, 0)
CustomIds(c) == {c.fields[k] : k \in DOMAIN c.fields}
FieldIds(c)  == c.builtin \cup CustomIds(c)

FieldsStart(c)  == [at |-> "fields", config |-> c, saving |-> FALSE, dirty |-> FALSE, taken |-> FALSE]
FieldsServer(c) == [config |-> c, others |-> FALSE]

-------------------------------------------------------------------------------
(* Edits, none of which is disabled while a request is out.                *)

EditConfig(c) ==
  /\ Act /\ On("fields")
  /\ c # page.config
  /\ Show([page EXCEPT !.config = c, !.dirty = TRUE, !.taken = @ \/ Builtin \in CustomIds(c)])
  /\ UNCHANGED <<calls, server>>

Filtered(fields, id) == Picked(fields, {k \in DOMAIN fields : fields[k] # id})
Swap(S, old, new)    == {IF id = old THEN new ELSE id : id \in S}

UpdateField == EditConfig([page.config EXCEPT !.labels = 3 - @])

\* The next identifier is counted, not looked for.
AddCustomField ==
  LET id == Len(page.config.fields) + 1 IN
  id <= MaxField /\ EditConfig([page.config EXCEPT !.fields = Append(@, id)])

\* A field detected in the parts is offered unless it is configured.
AddCandidateField == \E id \in (1 .. MaxField) \ FieldIds(page.config) :
  EditConfig([page.config EXCEPT !.fields = Append(@, id)])

\* Mutant: the presets keep the old name.
RenameInAllowed(c, old, new) == [c EXCEPT !.allowed = Swap(@, old, new)]

RenameInContexts(c, old, new) ==
  [c EXCEPT !.allowed = Swap(@, old, new), !.defaults = Swap(@, old, new)]

\* Any other identifier will do, and every entry that has the old one is renamed.
Renamed(c, old, new) ==
  [c EXCEPT !.fields = [j \in DOMAIN @ |-> IF @[j] = old THEN new ELSE @[j]], !.builtin = Swap(@, old, new)]

RenameCustomField == \E old \in CustomIds(page.config), new \in {Builtin} \cup 1 .. MaxField :
  EditConfig(RenameInContexts(Renamed(page.config, old, new), old, new))

Removed(c, id) ==
  [c EXCEPT !.fields = Filtered(@, id), !.builtin = @ \ {id}, !.allowed = @ \ {id}, !.defaults = @ \ {id}]

RemoveCustomField == \E id \in CustomIds(page.config) : EditConfig(Removed(page.config, id))

\* A default is taken back with the permission to show the field; the boxes of
\* required identifiers are disabled.
ToggleAllowed == \E id \in FieldIds(page.config) \ Required :
  IF id \in page.config.allowed
  THEN EditConfig([page.config EXCEPT !.allowed = @ \ {id}, !.defaults = @ \ {id}])
  ELSE EditConfig([page.config EXCEPT !.allowed = @ \cup {id}])

ToggleDefault == \E id \in page.config.allowed \ Required :
  EditConfig([page.config EXCEPT !.defaults = IF id \in @ THEN @ \ {id} ELSE @ \cup {id}])

\* Save, restore defaults, or rebuild what is derived from the configuration.
SubmitConfig(op) ==
  /\ Act /\ On("fields") /\ ~page.saving
  /\ Show([page EXCEPT !.saving = TRUE])
  /\ Send(<<Call(op, IF op = "save" THEN page.config ELSE Absent)>>)
  /\ UNCHANGED server

\* Mutant: what was submitted counts as what was saved.
ShownAfter(i) == IF calls[i].op = "save" THEN calls[i].args ELSE calls[i].reply

\* Whatever was asked for, the page takes the stored configuration over, with
\* edits made meanwhile and, unless it saved, with those made before.
Confirmed(i) == calls[i].reply

ConfigAnswer == \E i \in DOMAIN calls :
  /\ \E op \in {"save", "reset", "rebuild"} : IsAnswered(i, op)
  /\ Show(IF Failed(i) THEN [page EXCEPT !.saving = FALSE, !.dirty = TRUE]
          ELSE [page EXCEPT !.saving = FALSE, !.config = Confirmed(i), !.dirty = FALSE, !.taken = FALSE])
  /\ Take(i)
  /\ UNCHANGED <<server, left>>

-------------------------------------------------------------------------------
(* The server.                                                             *)

\* The built-in field is always there, under its identifier, which no custom
\* field gets; of custom fields with one identifier the first one is kept.
SanitizedFields(c) == [c EXCEPT !.builtin = {Builtin}, !.fields = FirstOnes(Filtered(@, Builtin))]

\* Mutant: required fields are not put back.
SanitizedAsSent(c) ==
  LET ids == FieldIds(SanitizedFields(c)) IN
  [SanitizedFields(c) EXCEPT !.allowed = @ \cap ids, !.defaults = @ \cap ids]

Sanitized(c) ==
  LET allowed == c.allowed \cap FieldIds(SanitizedFields(c)) IN
  [SanitizedFields(c) EXCEPT !.allowed = allowed \cup Required,
                             !.defaults = (@ \cap allowed) \cup Required]

SaveFieldConfig == \E i \in DOMAIN calls :
  /\ IsAsked(i, "save") \/ IsAsked(i, "reset") \/ IsAsked(i, "rebuild")
  /\ LET c == CASE calls[i].op = "save"    -> Sanitized(calls[i].args)
                [] calls[i].op = "reset"   -> Defaults
                [] calls[i].op = "rebuild" -> server.config
     IN server' = [server EXCEPT !.config = c] /\ Reply(i, c)
  /\ UNCHANGED <<page, left>>

\* Another administrator saves.
OtherSaves ==
  /\ Act /\ On("fields")
  /\ server' = [config |-> [server.config EXCEPT !.labels = 3 - @], others |-> TRUE]
  /\ UNCHANGED <<page, calls>>

FieldsNext ==
  /\ On("fields")
  /\ \/ UpdateField \/ AddCustomField \/ AddCandidateField \/ RenameCustomField \/ RemoveCustomField
     \/ ToggleAllowed \/ ToggleDefault
     \/ \E op \in {"save", "reset", "rebuild"} : SubmitConfig(op)
     \/ ConfigAnswer \/ SaveFieldConfig \/ OtherSaves

-------------------------------------------------------------------------------

\* The presets, on the page and as stored, only name fields there are and
\* start from fields that may be shown, whatever was added, renamed into
\* another's identifier and removed.  The stored ones keep the required fields,
\* whatever a page sends; those on a page may lose them from the moment on that
\* a custom field takes the built-in's identifier, until the page takes a
\* configuration again (AdminFieldsPage.tsx:218-291, field_config.py:1056-1118).
PresetsNameFields ==
  On("fields") =>
    /\ \A c \in {page.config, server.config} : c.defaults \subseteq c.allowed /\ c.allowed \subseteq FieldIds(c)
    /\ Required \subseteq server.config.defaults
    /\ page.taken \/ Required \subseteq page.config.defaults

\* A page without unsaved edits or failed requests shows what is stored, unless another
\* administrator saved, or an answer is due (AdminFieldsPage.tsx:293-360).
ShowsWhatIsStored ==
  On("fields") /\ ~page.dirty /\ calls = <<>> /\ ~server.others => page.config = server.config
===============================================================================
