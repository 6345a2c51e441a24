------------------------------- MODULE Driver -------------------------------
(***************************************************************************)
(* A run of llvm2cpg from the command line to the archive on disk: main    *)
(* and getInputFilePaths (tools/llvm2cpg/llvm2cpgTool.cpp), BitcodeLoader, *)
(* CPG::addBitcode, CPGProtoWriter and CPGProtoAdapter::saveToArchive,     *)
(* each of which may meet trouble and report it through CPGLogger.         *)
(*                                                                         *)
(* A job is a record                                                       *)
(*   strict    the option "strict-mode"                                    *)
(*   arguments a sequence of [directory |-> BOOLEAN, names |-> sequence]   *)
(*   real      name -> the name real_path gives for it; names are numbers  *)
(*   file      real name -> what is in the file                            *)
(* and a file is a record                                                  *)
(*   type      "bitcode", "ir", "binary" or "unsupported", by its magic    *)
(*   ll        whether its name ends in .ll                                *)
(*   slices    what may be in it: a sequence of [arch, embedded, modules]; *)
(*             a bitcode or IR file is one slice with one module           *)
(* A module is "good", "plain" (it parses, and validateBitcode has         *)
(* something to say), "broken" (it does not parse) or "skipped" (an        *)
(* embedded file that is empty, of unknown type or a bare wrapper).        *)
(***************************************************************************)
EXTENDS Integers, Sequences, FiniteSets

CONSTANT Jobs

RangeOf(s) == {s[i] : i \in DOMAIN s}

(* Real names are names of their own, 0 is none, and a bitcode or IR file  *)
(* has one module.                                                         *)
ContentWellFormed(c) ==
  /\ c.type \in {"bitcode", "ir", "binary", "unsupported"}
  /\ c.ll \in BOOLEAN
  /\ \A s \in DOMAIN c.slices : c.slices[s].arch \in Nat /\ c.slices[s].embedded \in BOOLEAN
  /\ c.type \in {"bitcode", "ir"} =>
       /\ DOMAIN c.slices = {1} /\ DOMAIN c.slices[1].modules = {1}
       /\ c.slices[1].embedded /\ c.slices[1].modules[1] # "skipped"

WellFormed(j) ==
  /\ j.strict \in BOOLEAN
  /\ j.arguments \in Seq(RangeOf(j.arguments))
  /\ \A a \in RangeOf(j.arguments) :
       a.names \in Seq(DOMAIN j.real) /\ a.directory \in BOOLEAN
  /\ DOMAIN j.real \subseteq Nat \ {0}
  /\ \A n \in DOMAIN j.real : j.real[n] \in DOMAIN j.file
  /\ \A f \in DOMAIN j.file :
       /\ f \in DOMAIN j.real /\ j.real[f] = f
       /\ j.file[f].slices \in Seq(RangeOf(j.file[f].slices))
       /\ \A s \in DOMAIN j.file[f].slices :
            j.file[f].slices[s].modules \in Seq(RangeOf(j.file[f].slices[s].modules))
       /\ ContentWellFormed(j.file[f])

ASSUME JobsAssumption == \A j \in Jobs : WellFormed(j)

VARIABLES
  job,
  present,     \* the real names that are still on disk
  arguments,   \* arguments not yet looked at
  worklist,    \* names found
  paths,       \* files: the std::set of real paths to load
  path,        \* the one being loaded
  pending,     \* the embedded files of the binary that are yet to load
  modules,     \* main's vector of modules; NoModule is the null pointer
  contexts,    \* BitcodeLoader::contexts, each named after its module
  added,       \* how many modules CPG::addBitcode has taken
  files,       \* CPG::files
  phase,
  complained,  \* whether uiWarning or uiFatal was called
  status,
  output       \* the archive at the output path

input == <<arguments, worklist, paths, path>>
loaded == <<pending, modules, contexts>>
cpg == <<added, files, output>>
vars == <<job, present, input, loaded, cpg, phase, complained, status>>

NoModule == <<>>
Previous == [written |-> FALSE, files |-> <<>>]

Lowest(S) == CHOOSE p \in S : \A q \in S : p <= q

(* A path leads to a file through the links on the way.                    *)
Content(p) == job.file[job.real[p]]
Exists(p) == job.real[p] \in present

(* A module is known by its file, its slice and its place in the slice;    *)
(* that is the order in which a binary's modules are loaded.               *)
Id(p, s, m) == <<job.real[p], s, m>>
Kind(id) == job.file[id[1]].slices[id[2]].modules[id[3]]

Before(a, b) ==
  \/ a[1] < b[1]
  \/ a[1] = b[1] /\ a[2] < b[2]
  \/ a[1] = b[1] /\ a[2] = b[2] /\ a[3] < b[3]

First(S) == CHOOSE a \in S : \A b \in S \ {a} : Before(a, b)

Init ==
  /\ job \in Jobs
  /\ present \in SUBSET DOMAIN job.file
  /\ arguments = job.arguments
  /\ worklist = <<>> /\ paths = {} /\ path = 0
  /\ pending = {} /\ modules = <<>> /\ contexts = <<>>
  /\ added = 0 /\ files = <<>> /\ output = Previous
  /\ phase = "arguments" /\ complained = FALSE /\ status = "running"

Running == status = "running"

(* A warning that strict mode does not make fatal.                         *)
WarnOnly(rest) == complained' = TRUE /\ UNCHANGED status /\ rest

(* uiWarning and uiFatal: exit(1) in strict mode, else on with the rest.   *)
Complain(rest) ==
  /\ complained' = TRUE
  /\ IF job.strict THEN status' = "exit_1" /\ UNCHANGED <<input, loaded, cpg, phase>>
     ELSE UNCHANGED status /\ rest

Quietly(rest) == UNCHANGED <<complained, status>> /\ rest

----------------------------------------------------------------------------
(* getInputFilePaths, first loop: scanning a directory may fail on the way.*)
FirstArgument(found) ==
  /\ arguments' = Tail(arguments)
  /\ worklist' = worklist \o found
  /\ UNCHANGED <<paths, path, loaded, cpg, phase>>

ReadArgument ==
  /\ Running /\ phase = "arguments" /\ arguments # <<>>
  /\ Quietly(FirstArgument(Head(arguments).names))
  /\ UNCHANGED <<job, present>>

ReadDirectoryPartly ==
  /\ Running /\ phase = "arguments" /\ arguments # <<>>
  /\ Head(arguments).directory
  /\ \E k \in 0 .. Len(Head(arguments).names) :
       Complain(FirstArgument(SubSeq(Head(arguments).names, 1, k)))
  /\ UNCHANGED <<job, present>>

EndArguments ==
  /\ Running /\ phase = "arguments" /\ arguments = <<>>
  /\ phase' = "classify"
  /\ UNCHANGED <<job, present, input, loaded, cpg, complained, status>>

(* Second loop. A set of real paths takes every file once; files of other  *)
(* types, and text files without the name of an IR file, are left out.     *)
GivenPath(n) == n
RealPath(n) == job.real[n]

AnyFile(f) == TRUE
IsInput(f) == f.type \in {"bitcode", "binary"} \/ (f.type = "ir" /\ f.ll)

FirstName(found) ==
  /\ worklist' = Tail(worklist)
  /\ paths' = paths \cup found
  /\ UNCHANGED <<arguments, path, loaded, cpg, phase>>

Classify ==
  /\ Running /\ phase = "classify" /\ worklist # <<>>
  /\ LET n == Head(worklist)
     IN IF Exists(n)
        THEN Quietly(FirstName({p \in {RealPath(n)} : IsInput(Content(p))}))
        ELSE Complain(FirstName({}))
  /\ UNCHANGED <<job, present>>

EndScan ==
  /\ Running /\ phase = "classify" /\ worklist = <<>>
  /\ phase' = "load"
  /\ UNCHANGED <<job, present, input, loaded, cpg, complained, status>>

----------------------------------------------------------------------------
(* main, the loop over the paths: the type of the file once more.          *)
TakePath(to) ==
  /\ path' = Lowest(paths)
  /\ paths' = paths \ {path'}
  /\ phase' = to
  /\ UNCHANGED <<arguments, worklist, loaded, cpg>>

Identify ==
  /\ Running /\ phase = "load" /\ paths # {}
  /\ LET p == Lowest(paths)
         type == IF Exists(p) THEN Content(p).type ELSE "unsupported"
         to == IF type = "unsupported" THEN "load" ELSE type
     IN IF Exists(p) THEN Quietly(TakePath(to)) ELSE Complain(TakePath(to))
  /\ UNCHANGED <<job, present>>

(* loadBitcode(buffer): the context of a module that does not parse goes.  *)
KeepContext(cs) == cs
DropContext(cs) == SubSeq(cs, 1, Len(cs) - 1)

Parse(id, rest) ==
  /\ LET created == Append(contexts, id)
     IN contexts' = IF Kind(id) = "broken" THEN DropContext(created) ELSE created
  /\ rest

Deliver(result) ==
  /\ modules' = modules \o result
  /\ phase' = "load"
  /\ UNCHANGED <<input, pending, cpg>>

(* loadBitcode(path), loadIR(path) and their callers: only the IR branch   *)
(* looks whether there is a module.                                        *)
OnFailure == IF phase = "ir" THEN <<>> ELSE <<NoModule>>

LoadFile ==
  /\ Running /\ phase \in {"bitcode", "ir"}
  /\ LET id == Id(path, 1, 1)
     IN IF ~Exists(path) THEN Complain(UNCHANGED contexts /\ Deliver(OnFailure))
        ELSE IF Kind(id) = "broken" THEN Complain(Parse(id, Deliver(OnFailure)))
        ELSE Quietly(Parse(id, Deliver(<<id>>)))
  /\ UNCHANGED <<job, present>>

(* extractBitcode: one architecture of those that have bitcode. (With none *)
(* the code dereferences begin() of an empty set, and never uses the       *)
(* result: no slice is left to compare it with.)                           *)
Slices == Content(path).slices
Embedded == {s \in DOMAIN Slices : Slices[s].embedded}
Architectures == {Slices[s].arch : s \in Embedded}

EmbeddedFiles ==
  UNION {{Id(path, s, m) : m \in DOMAIN Slices[s].modules} :
           s \in {t \in Embedded : Slices[t].arch = Lowest(Architectures)}}

Extract(found) ==
  /\ pending' = found
  /\ phase' = "extract"
  /\ UNCHANGED <<input, modules, contexts, cpg>>

OpenBinary ==
  /\ Running /\ phase = "binary"
  /\ IF ~Exists(path) \/ Slices = <<>> THEN Complain(Extract({}))
     ELSE IF Cardinality(Architectures) > 1 THEN Complain(Extract(EmbeddedFiles))
     ELSE Quietly(Extract(EmbeddedFiles))
  /\ UNCHANGED <<job, present>>

ExtractNext(result) ==
  /\ pending' = pending \ {First(pending)}
  /\ modules' = modules \o result
  /\ UNCHANGED <<input, cpg, phase>>

ExtractModule ==
  /\ Running /\ phase = "extract" /\ pending # {}
  /\ LET id == First(pending)
     IN \/ Kind(id) = "skipped" /\ Quietly(UNCHANGED contexts /\ ExtractNext(<<>>))
        \/ Kind(id) = "broken" /\ Complain(Parse(id, ExtractNext(<<>>)))
        \/ Kind(id) \notin {"skipped", "broken"} /\ Quietly(Parse(id, ExtractNext(<<id>>)))
  /\ UNCHANGED <<job, present>>

EndExtract ==
  /\ Running /\ phase = "extract" /\ pending = {}
  /\ phase' = "load"
  /\ UNCHANGED <<job, present, input, loaded, cpg, complained, status>>

----------------------------------------------------------------------------
(* CPG::addBitcode: a null module crashes, be it on the assertion or, in a *)
(* build without assertions, on the pointer.                               *)
NextModule == modules[added + 1]

AddNext ==
  /\ added' = added + 1
  /\ files' = Append(files, NextModule)
  /\ UNCHANGED <<input, loaded, phase, output>>

AddBitcode ==
  /\ Running /\ phase = "load" /\ paths = {} /\ added < Len(modules)
  /\ NextModule # NoModule
  /\ IF Kind(NextModule) = "plain" THEN Complain(AddNext) ELSE Quietly(AddNext)
  /\ UNCHANGED <<job, present>>

AddNull ==
  /\ Running /\ phase = "load" /\ paths = {} /\ added < Len(modules)
  /\ NextModule = NoModule
  /\ status' = "crash"
  /\ UNCHANGED <<job, present, input, loaded, cpg, phase, complained>>

(* CPGProtoWriter::writeCpg.                                               *)
GoOn(to) == phase' = to /\ UNCHANGED <<input, loaded, cpg>>

WriteCpg ==
  /\ Running /\ phase = "load" /\ paths = {} /\ added = Len(modules)
  /\ IF files = <<>> THEN Complain(GoOn("end")) ELSE Quietly(GoOn("save"))
  /\ UNCHANGED <<job, present>>

(* saveToArchive: zip_open, the serialization, zip_source_buffer,          *)
(* zip_file_add and zip_close may fail. libzip replaces the archive at the *)
(* output path in zip_close, which is when ZIP_TRUNCATE takes effect.      *)
SaveFails ==
  /\ Running /\ phase = "save"
  /\ Complain(GoOn("end"))
  /\ UNCHANGED <<job, present>>

SaveToArchive ==
  /\ Running /\ phase = "save"
  /\ output' = [written |-> TRUE, files |-> files]
  /\ phase' = "end"
  /\ UNCHANGED <<job, present, input, loaded, added, files, complained, status>>

(* main returns 0, whatever became of the archive.                         *)
ShutDown ==
  /\ Running /\ phase = "end"
  /\ status' = "exit_0"
  /\ UNCHANGED <<job, present, input, loaded, cpg, phase, complained>>

(* Another process removes a file.                                         *)
Vanish ==
  /\ Running
  /\ \E p \in present : present' = present \ {p}
  /\ UNCHANGED <<job, input, loaded, cpg, phase, complained, status>>

Next ==
  \/ ReadArgument \/ ReadDirectoryPartly \/ EndArguments \/ Classify \/ EndScan
  \/ Identify \/ LoadFile \/ OpenBinary \/ ExtractModule \/ EndExtract
  \/ AddBitcode \/ AddNull \/ WriteCpg \/ SaveFails \/ SaveToArchive \/ ShutDown
  \/ Vanish

Spec == Init /\ [][Next]_vars

----------------------------------------------------------------------------
(* Every module and context is one of the modules of the input files.      *)
FileIds(f) ==
  UNION {{<<f, s, m>> : m \in DOMAIN job.file[f].slices[s].modules} :
           s \in DOMAIN job.file[f].slices}
Ids == UNION {FileIds(f) : f \in DOMAIN job.file}

TypeOK ==
  /\ present \subseteq DOMAIN job.file
  /\ RangeOf(worklist) \cup paths \subseteq DOMAIN job.real
  /\ \A p \in paths : Content(p).type # "unsupported"
  /\ path \in {0} \cup DOMAIN job.real
  /\ pending \cup RangeOf(contexts) \cup RangeOf(files) \subseteq Ids
  /\ RangeOf(modules) \subseteq Ids \cup {NoModule}
  /\ added \in 0 .. Len(modules)
  /\ phase \in {"arguments", "classify", "load", "bitcode", "ir", "binary", "extract",
                "save", "end"}
  /\ complained \in BOOLEAN
  /\ status \in {"running", "exit_0", "exit_1", "crash"}
  /\ output.written \in BOOLEAN /\ RangeOf(output.files) \subseteq Ids

(* BitcodeLoader keeps exactly the contexts of the modules that main holds *)
(* (or extractBitcode is about to hand it): none is destroyed under a      *)
(* module, none outlives a failed parse, and no two modules share one.     *)
ContextsOfModules ==
  /\ RangeOf(contexts) = RangeOf(modules) \ {NoModule}
  /\ \A i, j \in DOMAIN contexts : contexts[i] = contexts[j] => i = j
  /\ \A i, j \in DOMAIN modules : modules[i] = modules[j] /\ modules[i] # NoModule => i = j

(* What the input files have to offer: every file once, however often and  *)
(* by whatever name it was given, and of a binary the slices of one        *)
(* architecture.                                                           *)
NamesGiven == UNION {RangeOf(a.names) : a \in RangeOf(job.arguments)}
FilesGiven == {job.real[n] : n \in NamesGiven}

Offers(f) ==
  LET c == job.file[f]
      archs == {c.slices[s].arch : s \in {t \in DOMAIN c.slices : c.slices[t].embedded}}
  IN {id \in FileIds(f) :
        /\ c.type \in {"bitcode", "binary"} \/ (c.type = "ir" /\ c.ll)
        /\ c.slices[id[2]].embedded /\ c.slices[id[2]].arch = Lowest(archs)
        /\ Kind(id) # "skipped"}

AllOffers == UNION {Offers(f) : f \in FilesGiven}

(* A run that ends well and has printed no warning has written the CPG of  *)
(* everything it was given; one that ends well in strict mode has printed  *)
(* none. ("Treat warnings as fatal errors".)                               *)
SilenceMeansSuccess ==
  status = "exit_0" =>
    /\ job.strict => ~complained
    /\ ~complained => /\ output.written
                      /\ RangeOf(output.files) = AllOffers

(* Whatever fails and however the run ends, the archive is either the one  *)
(* that was there before or a whole one: all the modules that loaded, each *)
(* once and in the order of the paths. It is never replaced in a run that  *)
(* exits with 1 or crashes.                                                *)
ArchiveIsWhole ==
  /\ output.written =>
       /\ output.files = modules
       /\ \A i, j \in DOMAIN modules : i < j => Before(modules[i], modules[j])
       /\ RangeOf(modules) \subseteq {id \in AllOffers : Kind(id) # "broken"}
  /\ status \in {"exit_1", "crash"} => output = Previous

(* The assertion of CPG::addBitcode (lib/CPG/CPG.cpp:49).                  *)
BitcodeNotNull == status # "crash"

=============================================================================
