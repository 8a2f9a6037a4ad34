------------------------------- MODULE LinkLine -------------------------------
(***************************************************************************)
(* The link that turns one object into a shared object                      *)
(* (ObjectCompiler::create, createSharedObject, ObjectCompiler.cpp).        *)
(*                                                                         *)
(* A configuration record is [lld, path, configured, importLib, onDisk,     *)
(* backend]: whether lld_path is set, whether the driver is on PATH, the    *)
(* libraries the configuration asks for, the runtime's import library and   *)
(* whether that file exists, whether the target has a backend.              *)
(***************************************************************************)
EXTENDS Naturals, Sequences, SequencesExt

None == "none"

\* The name under which lld runs the driver for the object format.
linkerFileName(format) == CASE format = "macho" -> "ld64.lld" [] format = "coff" -> "lld-link" [] OTHER -> "ld.lld"
LinkerFound(cfg, format) == cfg.lld \/ linkerFileName(format) \in cfg.path

\* Configured libraries first, then the import library that COFF needs.
sharedObjectLinkArgs(cfg, format) ==
  cfg.configured \o (IF format = "coff" /\ cfg.importLib # None /\ cfg.onDisk THEN <<cfg.importLib>> ELSE <<>>)

CanCreate(cfg, format) == LinkerFound(cfg, format) /\ cfg.backend

-----------------------------------------------------------------------------
linkerFlavor(format) == CASE format = "macho" -> "darwin" [] format = "coff" -> "link" [] OTHER -> "gnu"
libOutExt(format) == IF format = "coff" THEN ".dll" ELSE ".so"

\* The command line in order; "object" is the temporary object file.
lldArgs(format, emission, extra) ==
  <<"-flavor", linkerFlavor(format)>>
    \o (CASE format = "coff" -> <<"/DLL", "/NOENTRY", "/ALTERNATENAME:_fltused">>
          [] format = "macho" -> <<"-undefined dynamic_lookup", "-dylib">>
          [] OTHER -> <<"-shared">>)
    \o emission \o extra \o <<"object", libOutExt(format)>>

\* What lld does with the line: a name is taken from the first library that
\* defines it, COFF leaves none undefined, and a COFF image publishes what its
\* object marked, the other formats every visible definition.
Provider(args, name, defines) ==
  LET has == {i \in 1..Len(args) : args[i] \in DOMAIN defines /\ name \in defines[args[i]]}
  IN  IF has = {} THEN None ELSE args[CHOOSE i \in has : \A j \in has : i <= j]
Dangling(args, needs, defines) ==
  {n \in needs : Provider(args, n, defines) = None /\ ~(n = "_fltused" /\ Contains(args, "/ALTERNATENAME:_fltused"))}
LinkFails(format, args, needs, defines) == format = "coff" /\ Dangling(args, needs, defines) # {}
Published(format, marked, visible) == IF format = "coff" THEN marked ELSE visible

\* The whole of createSharedObject when no file operation fails: the image, or
\* ok = FALSE when the linker returned an error.
createSharedObject(format, emission, extra, object, defines) ==
  LET args == lldArgs(format, emission, extra)
  IN  [ok |-> ~LinkFails(format, args, object.needs, defines),
       exports |-> Published(format, object.marked, object.visible),
       from |-> [n \in object.needs |-> Provider(args, n, defines)]]
=============================================================================
