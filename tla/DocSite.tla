------------------------------ MODULE DocSite ------------------------------
(***************************************************************************)
(* The generated data scripts of the site, one definition per file: the    *)
(* declaration keyword of its table (var/const), the slot its shim names   *)
(* (also the table's name), the crate keys of the table in file order,     *)
(* and for each crate the length of each implementation's HTML string as   *)
(* the file writes it (escapes included), whether its items carry the      *)
(* trailing ,0 field, and the trailing layout comment                      *)
(* //{"start":..,"fragment_lengths":[..]}.  The object-literal form has no *)
(* comment; for it only the number of items per crate is kept.             *)
(***************************************************************************)
EXTENDS Sequences, TLC

File(decl, slot, crates, html, flag, start, lengths) ==
  [decl |-> decl, slot |-> slot, crates |-> crates, meta |-> TRUE,
   impls |-> [i \in DOMAIN html |-> Len(html[i])], html |-> html,
   flag |-> flag, start |-> start, lengths |-> lengths]

LiteralFile(slot, crates, impls) ==
  [decl |-> "var", slot |-> slot, crates |-> crates, meta |-> FALSE,
   impls |-> impls]

GitToVariant == File("const", "implementors",
  <<"gio_unix", "gio_win32", "glib", "glib_unix", "glib_win32">>,
  <<<<>>, <<>>, <<>>, <<>>, <<>>>>, FALSE, 59, <<15, 17, 12, 17, 18>>)

GitDBusInterfaceExt == File("const", "implementors",
  <<"gio", "gio_unix", "gio_win32">>, <<<<>>, <<>>, <<>>>>, FALSE,
  59, <<10, 16, 17>>)

GitAsFd == File("var", "implementors", <<"gio", "gio_unix">>,
  <<<<244>>, <<293, 269, 272>>>>, FALSE, 57, <<258, 864>>)

GitAsRawFd == File("const", "implementors", <<"gio", "gio_unix">>,
  <<<<249>>, <<298, 274, 277>>>>, TRUE, 59, <<265, 885>>)

GitStream == File("var", "implementors", <<"gio", "glib">>,
  <<<<149, 227>>, <<481>>>>, FALSE, 57, <<395, 497>>)

GitEnumerationValues == LiteralFile("type_impls", <<"glib">>, <<1>>)

GitCInt == File("var", "type_impls",
  <<"cairo_sys", "gio_sys", "gio_unix_sys", "gio_win32_sys", "glib_sys">>,
  <<<<>>, <<>>, <<>>, <<>>, <<>>>>, FALSE, 55, <<16, 15, 20, 21, 16>>)

GitCUint == File("var", "type_impls",
  <<"cairo_sys", "gdk_pixbuf_sys", "gio_sys", "glib_sys", "gobject_sys",
    "pango_sys">>,
  <<<<>>, <<>>, <<>>, <<>>, <<>>, <<>>>>, FALSE,
  55, <<16, 22, 15, 16, 19, 17>>)

V022InitableImplExt == File("const", "implementors",
  <<"gdk_pixbuf", "gio">>, <<<<>>, <<>>>>, FALSE, 59, <<17, 11>>)

V022FusedStream == File("const", "implementors", <<"gio", "glib">>,
  <<<<154, 237>>, <<486>>>>, TRUE, 59, <<414, 504>>)

V022U32 == File("var", "type_impls",
  <<"cairo_sys", "glib_sys", "pango", "pango_sys">>,
  <<<<>>, <<>>, <<>>, <<>>>>, FALSE, 55, <<16, 16, 13, 17>>)

V022CInt == File("var", "type_impls",
  <<"gdk_pixbuf_sys", "gio_sys", "glib_sys", "glib_unix_sys",
    "glib_win32_sys", "graphene_sys", "pango_sys">>,
  <<<<>>, <<>>, <<>>, <<>>, <<>>, <<>>, <<>>>>, FALSE,
  55, <<21, 15, 16, 21, 22, 20, 17>>)

V020ActionMapImplExt == File("var", "implementors",
  <<"gdk_pixbuf", "gio">>, <<<<>>, <<>>>>, FALSE, 57, <<17, 11>>)

V018Class == LiteralFile("type_impls", <<"glib">>, <<8>>)

\* The description shard search.desc/glib/glib-desc-1-.js: the key of its
\* URL and the key its loadedDescShard call names.
GlibDesc1ShardFromZero == [url |-> <<"glib", 1>>, call |-> <<"glib", 0>>]

GlibDesc1 == [url |-> <<"glib", 1>>, call |-> <<"glib", 1>>]

\* The site: script name |-> file.
Site ==
  ("git/ToVariant" :> GitToVariant) @@
  ("git/DBusInterfaceExt" :> GitDBusInterfaceExt) @@
  ("git/AsFd" :> GitAsFd) @@
  ("git/AsRawFd" :> GitAsRawFd) @@
  ("git/Stream" :> GitStream) @@
  ("git/EnumerationValues" :> GitEnumerationValues) @@
  ("git/c_int" :> GitCInt) @@
  ("git/c_uint" :> GitCUint) @@
  ("0.22/InitableImplExt" :> V022InitableImplExt) @@
  ("0.22/FusedStream" :> V022FusedStream) @@
  ("0.22/u32" :> V022U32) @@
  ("0.22/c_int" :> V022CInt) @@
  ("0.20/ActionMapImplExt" :> V020ActionMapImplExt) @@
  ("0.18/Class" :> V018Class)
=============================================================================
