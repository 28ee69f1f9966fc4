---------------------------- MODULE MCNotionSync ----------------------------
(* Two documents, of which Notion normalises one, and two runs.          *)
EXTENDS NotionSync
CONSTANTS intro, detail
MCDoc == {intro, detail}
MCExact == {intro} \X Revision
=============================================================================
