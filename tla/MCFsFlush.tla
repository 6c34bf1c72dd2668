----------------------------- MODULE MCFsFlush -----------------------------
(* Volumes for FsFlush: three groups, two descriptor blocks.                 *)
EXTENDS FsFlush

Plain == [first |-> 0, meta_bg |-> FALSE, first_meta_bg |-> 0, supers |-> "sparse",
          backup_bgs |-> {}, master_only |-> TRUE, valid |-> TRUE, recovery |-> TRUE]
Copies == [Plain EXCEPT !.first = 1, !.master_only = FALSE]
Meta   == [Copies EXCEPT !.meta_bg = TRUE]
Mixed  == [Meta EXCEPT !.first_meta_bg = 1, !.supers = "sparse2", !.backup_bgs = {1, 2}]

AllGeometries == {Plain, Copies, Meta, Mixed}
OnePlain      == {Plain}
LastOnly      == {2}
None          == {}
=============================================================================
