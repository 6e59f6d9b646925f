------------------------------- MODULE MCFrontEnd ------------------------------
(* Small instances of FrontEnd: each page, and each use of a page, with a  *)
(* number of acts of its own.                                              *)
EXTENDS FrontEnd

Start(p, cs, s, acts) == [page |-> p, calls |-> cs, server |-> s, left |-> acts]

\* Importing: an empty page of a user who may preview and import; a page of one
\* who may do everything, with a pack and the tier "overwrite" chosen.
MCPacks == {"pack 1", "pack 2"}
UploadStarts ==
  {Start(UploadStart({"preview", "low_risk"}), <<>>, [imports |-> 0, rights |-> Rights], 4),
   Start([UploadStart(Rights) EXCEPT !.file = "pack 1", !.tier = "overwrite"], <<>>,
         [imports |-> 0, rights |-> Rights], 4)}
\* A page on which a destructive plan has been previewed.
PreviewedPage ==
  LET p == [UploadStart(Rights) EXCEPT !.file = "pack 1", !.tier = "overwrite"] IN
  [p EXCEPT !.dry = TRUE, !.previewed = Selected(p),
            !.plan = [selected |-> Selected(p), destructive |-> TRUE, imports |-> 0, rights |-> Rights]]
ConfirmStarts == {Start(PreviewedPage, <<>>, [imports |-> 0, rights |-> Rights], 4)}

MCToken == [revoked |-> FALSE, from |-> 0, won |-> FALSE, checked |-> 0, late |-> FALSE]
TokenStarts == {Start([TokensStart EXCEPT !.tokens = <<FALSE>>], <<>>, TokensServer(<<MCToken>>), 3)}

MCConfig == Config(<<1, 2>>, {0, 1}, {0, 1}, 1)
FieldStarts == {Start(FieldsStart(MCConfig), <<>>, FieldsServer(MCConfig), 4)}

MCOff == [s \in Schemes |-> FALSE]
AddinStarts ==
  {Start(AddinStart(MCOff, {part}), <<>>, AddinServer(MCOff), IF part = "builder" THEN 4 ELSE 3) :
     part \in {"tokens", "switches", "builder"}}

MCPart(pn, rev) == [pn |-> pn, rev |-> rev]
MCParts == {MCPart("P", 1), MCPart("P", 2), MCPart("Q", 1)}
PartStarts ==
  {Start(PartStart(MCPart("P", 1), {use}), <<>>, PartServer(hidden),
         CASE use \in {"files", "shares"} -> 2 [] use = "export" -> 3 [] OTHER -> 4) :
     use \in {"notes", "comments", "files", "shares", "export", "delete"}, hidden \in {{}, {MCPart("Q", 1)}}}

MCBom == [P |-> <<"Q", "S">>, Q |-> <<"S">>, S |-> <<>>]
BomStarts == {Start(BomStart(own, "P"), BomCalls(own, "P"), BomServer, 3) : own \in BOOLEAN}

MCTables   == {"parts_list", "bom_tree"}
MCMustShow == <<"pn">>
MCColumns  == [t \in MCTables |-> [allowed |-> <<"pn", "a", "b">>, default |-> <<"pn", "a">>]]
ColumnStarts ==
  {Start(ColumnsStart, ColumnsCalls,
         ColumnsServer(MCColumns, [NoPreferences EXCEPT !.contexts["bom_tree"].ids = <<"b", "pn">>]), 2)}

MCCatalog ==
  <<[id |-> 1, tags |-> {"text", "filter", "job"}], [id |-> 2, tags |-> {"text"}], [id |-> 3, tags |-> {"filter"}]>>
TableStarts == {Start(TableStart(pick), TableCalls(pick), Absent, 4) : pick \in BOOLEAN}

MCOffered == [P |-> [top |-> {"pdf"}, full |-> {"pdf", "dxf"}], Q |-> [top |-> {"step"}, full |-> {"step"}]]
PackStarts == {Start(PackStart("P"), <<>>, PackServer, 5)}

MCLayers ==
  [A |-> Layer("A", 1, {1}, <<[id |-> 0, marks |-> {1}, open |-> TRUE]>>), B |-> Layer("B", 0, {}, <<>>)]
MarkupStarts == {Start(MarkupStart("A", MCLayers["A"], {use}), <<>>, MarkupServer(MCLayers), 3) : use \in {"undo", "reviews"}}

MCMentionable == [none |-> {"ann", "bob"}, a |-> {"ann"}, x |-> {}]
MentionStarts == {Start(MentionStart, <<>>, Absent, 5)}

MCStarts ==
  UploadStarts \cup TokenStarts \cup FieldStarts \cup AddinStarts \cup PartStarts \cup BomStarts
  \cup ColumnStarts \cup TableStarts \cup PackStarts \cup MarkupStarts \cup MentionStarts
===============================================================================
