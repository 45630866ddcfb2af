# GCC-XML in TLA+

GCC-XML prints the declarations of a C++ translation unit as XML. It is two
programs: `gccxml`, a front end that finds out how to simulate the user's
compiler, and `gccxml_cc1plus`, GCC 4.2's C++ parser with a dumper (`cp/xml.c`)
called at the end of the unit. `gccxml_vcconfig` patches the headers of Visual
C++ so that the parser can read them, the preprocessor of the parser searches
*header wrappers* that patch other headers, and the front end runs the parser
through a small process library. This directory models the dumper with its test of
implicit methods, the front end, the process library, the header installer and
the search for headers, checks the models with TLC, and proves theorems about each of
them with TLAPS.

## 1. The system and its parts

| Part | Source | State | Operations | Interacts with |
|---|---|---|---|---|
| Worklist of the dumper | `GCC/gcc/cp/xml.c` 336-618, 3497-3509 | `xml_dump_info`: index and completeness of each tree node, queue, free list, file queue, phase | `do_xml_output`, `xml_add_node_real`, `xml_queue_node`, `xml_dump`, `xml_queue_file`, `xml_dump_files` | asked by the output functions, reads `errorcount` |
| Node output | `cp/xml.c` 621-3494 | none (reads GCC trees) | `xml_add_node`, `xml_print_*`, `xml_output_*` | calls the worklist re-entrantly while a node is printed |
| Start declarations | `cp/xml.c` 3512-3612 | none | `xml_add_start_nodes`, name lookup | worklist, `name-lookup.c` |
| Method synthesis test | `xml.c` 3416-3443, `method.c`, `decl2.c` 3474-3509, `diagnostic.c` 168-185 | a global counter of suppressed errors, `GCCXML_DECL_ERROR` of a function | `synthesize_method`, `mark_used` | called from `xml_add_node` in the middle of the dump |
| Front end configuration | `GCC_XML/GXFront/gxConfiguration.cxx` | the `GCCXML_*` settings, paths, flags | `Configure`, `ConfigureFlags` | command line, environment, files, the simulated compiler |
| Front end main | `gxFront.cxx` | exit status | `main` | configuration, the parser as a child process |
| Flags parser, system tools | `gxFlagsParser.cxx`, `gxSystemTools.cxx` | list of flags / none | `Parse`, `RunCommand`, ... | main, configuration |
| Process library | `KWSys/ProcessUNIX.c` | process IDs, exit codes, pipes, timeout of each object; a table of the objects that wait for SIGCHLD | `Execute`, `WaitForData`, `WaitForExit`, `Kill`, `Delete`, the signal handler | main, the children, the kernel |
| Include wrappers | `gcc/c-incpath.c`, `gcc/c-opts.c`, `libcpp/files.c`, `libcpp/directives.c` | the chains of directories, the stack of files that are read, `dir_hash` | `register_include_chains`, `_cpp_stack_include`, `#include`, `#include_next`, `-include` | the front end gives `-iwrapper` and `-I`, the parser reads what is found |
| Header installer | `GCC_XML/VcInstall/vcInstall.cxx`, `CMakeLists.txt` | files on disk, a timestamp | wipe, copy, patch, stamp | the build that repeats it, the patch program |
| DTD writer | `cp/xml.c` 3737-3913 | table of elements | `do_xml_document` | called by nothing |

What makes each of them correct, and what is hard about it:

* **Worklist.** A node is asked for many times, complete and incomplete, while
  other nodes (or the node itself) are being printed. It must get one id, be
  printed once, in a form that is still true at the end, and everything that is
  reachable must be printed - nothing else. References form cycles. Incomplete
  nodes come in the order of their addresses. Queue entries are recycled while
  the node they brought is printed.
* **Node output.** Each reference must name an element of the document, though
  ids with qualifiers are made up in two places; nothing complete may be asked
  for once the incomplete nodes are printed.
* **Configuration.** Five means fill in the settings, each with its own idea of
  "known"; a lower one must not displace a higher one, and the documentation
  fixes the order. Guessing runs other programs that may fail half way.
* **Main.** The exit status must tell whether the parser ran and succeeded.
* **Method synthesis test.** The dumper has the compiler define every implicit
  method it meets, counting errors instead of reporting them. Defining one method
  starts others, each looks at the same global counter, and a method is defined
  only once although many ask for it. What is dumped must not depend on the order,
  no error may come from the test itself, and none may be hidden outside it.
* **Process library.** The SIGCHLD handler runs between any two steps of the
  parent and writes to pipes that the parent is opening and closing, through a
  table that the parent is changing. No exit may be lost, and a call that fails
  half way must leave no child, descriptor or entry.
* **Header installer.** The build repeats it until the timestamp is newer than
  the patch files. Runs fail half way or are interrupted, and most failures of
  the file system are ignored; the timestamp must not lie about the result.
* **Include wrappers.** A directory of wrappers is searched before the path of
  every `#include`, whatever that path is, and a wrapper goes on with
  `#include_next` along the path of the file that included it. No header may be
  read past its wrapper or twice through it, each must be the one that is found
  without wrappers, and the search must go on from there. The directories come from
  a command line that names them several times, in several chains, by several names.

The process library is the only part that meets concurrency (the children and a
signal). The hard behaviour of the dumper is re-entrancy and order, that of the
front end sources of settings and partial failures, that of the installer
interruption and repetition, that of the search nesting and what was searched
before.

## 2. Modules

| Module | Models | Uses |
|---|---|---|
| `XmlReach` | the promise: a dump is what is reachable, complete nodes first | |
| `XmlDump` | the worklist; refines `XmlReach` | instance of `XmlReach` |
| `XmlDump_proofs` | theorems about `XmlDump`; its steps are those of `XmlReach` | `TLAPS` |
| `XmlTree` | `xml_add_node`, the attributes and the output functions of one node, as operators on a tree | community `SequencesExt` |
| `XmlForm` | the shape of a tree that `xml.c` relies on | extends `XmlTree` |
| `XmlOutput` | the document: `XmlDump` run with the scripts `XmlTree` computes | extends `XmlDump`, `XmlForm` |
| `XmlOutput_proofs` | the ids of a document are unique and its references resolve, for all trees | extends `XmlDump_proofs`; `FiniteSetTheorems`, `WellFoundedInduction` |
| `GxConfiguration` | `gxConfiguration::Configure` | |
| `GxFront` | `main`, `ConfigureFlags`, the child | extends `GxConfiguration` |
| `GxFront_proofs` | theorems about both | `TLAPS`, `SequenceTheorems`, `WellFoundedInduction` |
| `Synthesize` | the test of implicit methods, with the uses of the program before and after the dump | |
| `Synthesize_proofs` | theorems about `Synthesize` | `TLAPS`, `SequenceTheorems` |
| `ProcessUnix` | the process library with its signal handler, the children and the clock | |
| `ProcessUnix_proofs` | types of `ProcessUnix`, no SIGPIPE, and what an object knows of its children is true | `TLAPS`, `FiniteSetTheorems`, `SequenceTheorems` |
| `ProcessUnix_handler` | the handler and its table; no exit is lost, nothing is left | extends `ProcessUnix_proofs` |
| `VcInstall` | the installer under the build that repeats it | |
| `VcInstall_proofs` | theorems about `VcInstall` | `TLAPS` |
| `IncludeChains` | the chains of directories of a command line | |
| `IncludeSearch` | the search for headers, and the files that are read | |
| `IncludeWrapper` | units whose wrappers only patch; they implement the same units without wrappers | extends `IncludeSearch`, `IncludeChains`; instance of `IncludeSearch` |
| `IncludeWrapper_proofs` | theorems about the search and about the chains of command lines | `TLAPS`, `FiniteSetTheorems`, `SequenceTheorems`, `WellFoundedInduction` |
| `MCXmlDump`, `MCXmlOutput`, `MCGxFront`, `MCSynthesize`, `MCProcess`, `MCVcInstall`, `MCIncludeWrapper` | instances for TLC | |

### XmlDump

The variables are the fields of `xml_dump_info`: `index` and `complete` are the
splay tree `dump_nodes` (index 0: not met), `queue` the linked queue,
`queueFree` the length of the free list and `allocated` the entries that malloc
handed out. `current` and `pending` are the stack of the running output
function: the node and the requests it has still to make. So one action is one
call of `xml_add_node_real` (`AddNode`) or `xml_queue_file` (`QueueFile`), and
the state between two requests of one output function is visible. `Script` gives
the requests of each node in each form; it is a constant so that the worklist is
checked and proved for any output functions. `DumpNext` and `FinishNode` are a
turn of `xml_dump`, `VisitDumpNodes`, `QueueIncomplete` and `StartIncomplete`
the passage from the first call of `xml_dump` to the second. `QueueIncomplete`
takes the nodes in any order because the splay tree is ordered by addresses.
`CloseOutput` includes the clean up.

`Mutant` operators are variants of an action with a plausible mistake. They are
not used by the specification; they show that each property can fail.

### XmlTree, XmlForm and XmlOutput

A tree is a function from nodes to records of the accessors `xml.c` reads
(listed at the head of the module). `XmlAddNode(T)` is `xml_add_node` with all
it dispatches to, as a recursive function: which requests it makes and which
index it returns. Every attribute and output function is a sequence of parts
(requests, references). What is printed besides ids is left out. Abstracted: the
test whether an instantiation has template parameters (`open`), the outcome of
`synthesize_method` (`invalid`, which `Synthesize` computes), names, initializers, access. `DeclaredIds` and
`References` are the id and the IDREF attributes of an element; an id is a node
and a set of qualifiers.

`XmlForm` says what the dumper takes for granted of the trees that the C++ front end
gives it, and checks nowhere: which kinds of nodes an accessor yields, that no
recursion of `xml.c` goes in circles (`Grounded`), that the variants of a type share
their main variant and are named by typedefs of the same type
(`build_qualified_type`), that there is one variant for each set of qualifiers and
each typedef, and that what an attribute must refer to is a node that `xml_add_node`
does not refuse (`NamedIsDumped`). It is the assumption `TreesAreWellFormed` of
`XmlOutput`, which TLC evaluates for the trees of every run of `XmlOutput`.

### GxConfiguration and GxFront

A *world* is the command line, the environment, the configuration files and what
is installed. There is one action per option of the command line and per line of
the file, and one for each other function that `Configure` calls.
`checkedEnvironment` starts as either value because the program does not
initialize it. What the simulated compiler answers, and how the parser ends, is
nondeterministic. `FindFlagsGCC` keeps of the flags which parts they hold. Left
out: the Windows compilers, the scripts for Intel and MIPSpro on Windows, the
character work of `ParseConfigLine` and of the flags parser, the fixed arguments
of `AddArguments`.

### Synthesize

A unit is a set of classes with the classes of their bases and members, whether
they have const or reference members, which of their methods are implicit and
which cannot be called by others, and what the program uses in functions
(`inside`) and in the initializers of global objects (`outside`). From this
follow the errors in the body of an implicit method (`HasError`) and the methods
it uses (`Uses`). A declaration is a method or one of its clones (constructors
and destructors have a complete and a base object clone); GCC marks and deferred
lists are about declarations, bodies about methods.

`stack` holds the active calls of `synthesize_method` with the counter each has
saved. One action is one error of a body (`BodyError`), one call of `mark_used`
(`BodyUse`) or the end of a method (`Synthesized`), so every order of the uses in
a body is explored and nested calls see each other's counter. `AddMethod` and
`MethodAdded` are the parts of `xml_add_node` before and after the synthesis; the
dump meets methods in any order. `deferred`, `initial` and `marked` are
`DECL_DEFERRED_FN`, `DECL_INITIAL` and `GCCXML_DECL_ERROR`. `FinishDeferred` is
the loop of `cp_finish_file` after the dump. `Depth`, which only says that classes
nest, makes the recursion well founded for the proofs.

### ProcessUnix

`obj` is the `kwsysProcess` of each object of the program, `reg` the table
`kwsysProcesses` with the handler; `child` and `pipe` are the kernel. The parent
is one sequential program: `run` says where it is. Its steps are as fine as the
handler can tell: the table is changed cell by cell (`Shift`), freed and shortened
in steps of their own, `waitpid` is one child at a time, a read of the signal
pipe is apart from the look at the children, and `kwsysProcess_Kill` closes the write
end of the signal pipe (`KillBegins`) and the read ends (`ClosePipes`) in two steps:
`Closing` says which comes first. `SignalHandler` may run between any
two of them, children write and exit at any time and may leave grandchildren that
hold their outputs. `victims` remembers whom the parent signals that is not a
child of the object: `"stale"` for a process ID already given back.

A setup says which calls of the system may fail. `Kill` is called as the
documentation asks, that is not again after a kill. `Execute` on an object that
runs, and the options, are left out.

### VcInstall

`disk` is the state of each copied header: absent, as it came, patched, patched by
an older patch file or in part, or cut short. `patch -t` (external) turns an original
into a patched file, fails on a missing one, and takes a patched file for one to be
reversed. `RunPatch` is `cat patchfile | patch` with the exit status of `patch`: a
`cat` that fails, or stops between two hunks, is the end of the patch file to it
(`PartlyPatched`), and what it has been given may well be applied without an error.
`lapses` remembers the failures of a run that the program does not look at, and for
which header: not removed, not copied, copied in part only, not reached by `cat`.
Actions follow
`main` product by product and header by header; `Interrupted` ends the run in the
middle of any of them, `PatchesChange` is an update of GCC-XML between builds.

### IncludeChains, IncludeSearch and IncludeWrapper

`IncludeChains` computes the wrapper, quote and bracket chains of a command line:
an operator per function of `c-incpath.c`, and `RightChains`, which says without
loops what they must be. A directory has a name and a place (inode and device);
two names may lead to one place, or to none.

In `IncludeSearch` a unit is these chains, the directives of each file and which
files are guarded. `stack` is the chain of buffers, with the position in each file;
`dir` of a file is the search path from the directory where it was found on, as the
`next` pointers give it. For a file found in a directory of wrappers that is a
copy of the directory followed by the path of its includer (`FoundDir`), the
`wrapper_dir` of `_cpp_file`. `made` is `dir_hash`, with the system header flag a
directory has got from its first user. `defined` holds the header guards. One
action is one directive that finds a file (`StackInclude`), finds none
(`IncludeFails`) or is too deep (`NestedTooDeeply`), or the end of a file
(`PopBuffer`). The cache of earlier searches, which GCC-XML disables, is left out.

`IncludeWrapper` takes units whose wrappers hold one `#include_next` of their own
name. `RealStack`, `RealSeen` and `RealMade` hide the wrappers: a directive that
has led only to a wrapper is yet to come. `before` is `made` before the last step.

## 3. Runs

| Run | Expect | Question |
|---|---|---|
| `xml_dump` | pass | Does the worklist keep its promises, whatever the references? |
| `xml_output` | pass | Are documents of real declarations valid? |
| `local_class` | violation | Is the "XML dump bug" of `xml_add_node_real` unreachable? |
| `front_end` | pass | Do settings come from the right source, and does the exit status tell the truth? |
| `unread_environment` | violation | Is every environment variable read? |
| `synthesize` | pass | Does the test of implicit methods find exactly the valid ones, silently? |
| `needed_method` | violation | Is an error reported for every invalid method the program needs? |
| `process` | pass | Does waiting lose no exit, is the handler safe, is nothing left behind, do calls return? |
| `failing_fork` | violation | Does a failed `Execute` kill only its own children? |
| `failing_pipe` | violation | Does a failed `Execute` close only its own descriptors? |
| `vc_install` | pass | Does the timestamp tell the truth, and do repeated builds succeed? |
| `include` | pass | Is every header read through its wrapper, and do wrappers change nothing else? |

**xml_dump** takes every graph over three nodes where each node has at most one
strong reference (asked for complete when the node is complete: a member, a
base) and one weak one (never complete: a context, the target of a pointer), and
two files. 4096 units, about 99 000 states. Three nodes are enough for every way
a node can be asked for twice: by itself, by a node before and by a node after it
in the queue, weakly before strongly and the reverse, across a cycle, and across
the change of phase; two files make one named twice and one named once. Checked:
each node printed once and never outdated, conservation of queue entries, that a
closed document is complete, the schedule invariant of the proofs, that the
complete nodes are the least set closed under complete references
(`ExactlyTheReachable`), the refinement of `XmlReach` with its fairness
(`DumpsTheReachable`), and termination. That indices are unique and files come in
the order they were first named is proved (section 4).

**xml_output** dumps 135 units that declare classes with a base, a virtual
override, a class template with an instantiation, `typedef struct A {} A`, a
const typedef, overloads, namespaces and an alias, an invalid synthesized
constructor and a variable of one of 15 types (qualified, doubly qualified
through a typedef, arrays, pointers to members and to member functions, ...),
from three starts: the global namespace, a variable, a class. Checked:
`UniqueIds` and `RefsResolve` on the document, and `WholeMeansNoErrors` with the
scripts of real nodes. That these units are quiet (section 4) is an assumption of
`MCXmlOutput` that TLC evaluates, `UnitsAreQuiet`; it leaves out those that start at
the class of `local_class`.

**front_end** takes 11 command lines, 5 environments, 3 files in 2 sets of
places, run from the build tree or not, with and without programs and support
files. `Precedence` compares the steps with a definition by the documented order
of sources, for the sources that are actually looked at.

**synthesize** has 15 units of three classes, one nested in the next: with and
without a const member in the innermost, with uses in functions, in initializers
and both, with methods that cannot be called and with destructors that
constructors need. Three levels are needed so that a method lies inside one
synthesis and around another, two uses of one class (as a base and as a member,
hence through two clones) so that it is met a second time after it was found
invalid. `Invalid` defines the invalid methods without the counter, as the least
set closed under "has an error" and "uses an invalid one". `AcceptedIsValid` and
`TestIsSilent` are about units whose program uses valid methods: otherwise the
compiler has an error to report. Where it is not reported is `needed_method`.

**process** has a pipeline of two commands with and without a timeout, whose
standard error the parent reads, with failures of the stderr pipe, of `exec` and of
`select` and with grandchildren; two objects at once with shared outputs, as
`gxFront.cxx` uses one; an object with nothing to run; and a system without
processes or descriptors to spare. About 470 000 states. Two commands are enough
for one byte of the signal pipe to stand for two exits and for a command that
cannot be started while another runs; two objects for one to leave the table
below the other. `Returns` names the only calls that may go on for ever: one
without a timeout on a process that lives or whose pipes are held, and a poll of a
child that keeps writing.

**vc_install** has two products, the first with two headers, and machines without
tools, headers or patch files; `MCFaults = 3` bounds failures, interruptions and
updates together. Three are enough for a run that is interrupted, a wipe that
fails on what it left, and a copy that fails as well. `Unnoticed` says of which
headers the timestamp says nothing, because neither the program nor `patch` need see
that something is wrong with them: those whose copy was cut short by a failing write,
those that were neither removed nor replaced by a copy, and those of a product for
which `cat` failed before its end (`vcInstall.cxx:566-577`: the shell tells of `patch`
only). Of all other headers it tells the truth, whatever happens to these.
`Recovers` makes the same exception, since it must: once the timestamp is fresh no
build looks at the headers again, and such a failure in the last run stays.

**include** has 1177 units, 34 334 states: seven command lines with one and two
directories of wrappers, `-I`, `-I-`, `-iquote`, `-isystem` and `-idirafter`,
directories named twice, by two names and not existing, one of the wrappers'
directories also a system directory or given with `-I`; a header `x` in all
combinations of four places beside its wrapper and `d1`, `y` in three; a main file
that includes `x` in every way (`""`, `<>`, `#include_next`, by absolute name) and
headers that include the next of their name or each other, in a cycle if they are
guarded. Two headers are enough for a wrapper to be entered while another one, or
the same one, is being read. `StackMax = 10` stands for `CPP_STACK_MAX`, 200; one
unit includes itself until that depth. `WrappersAreTransparent` is the refinement:
with the wrappers hidden, every step is one of the same unit without `-iwrapper`.
The unit that nests too deeply has no wrappers: a wrapper takes a place on the
stack, so nesting deeper than half of `CPP_STACK_MAX` may fail with wrappers only.

### Findings

The violation runs are findings; each is described, with the line it contradicts,
in `PROJECT.json`. Some need a comment. In `local_class` the dump starts at a
class `G` (`-fxml-start=G`) that a class local to a virtual method befriends:
`befriending` names the local class incomplete, its context names the method
incomplete, and the method's `overrides` attribute asks for the overridden method
as complete although the second phase has begun. If that method is new the dumper
reports its own bug and the compilation fails with a closed document on disk. In
`needed_method` the initializer
of a global object uses an invalid implicit method, for instance `struct A {
A(int); const int a; }; A x(1), y(2); int n = (x = y, 0);`. GCC defers the
definition of `A::operator=` to the end of the file; the dump tests it before,
silently, and then it counts as defined.

`failing_fork` and `failing_pipe` are about the clean up after an `Execute` that
fails. When `fork` fails, `ForkPIDs` holds -1 (`ProcessUNIX.c:1726`), which the
clean up takes for a child: it kills and waits for process -1, that is every
process the user may signal, `"everyone"` in `victims`. And `kwsysProcessCreate`
sets the read end of the last pipe to 0 while it starts the next command (1619);
if its pipe cannot be created, the caller closes descriptor 0.

Some behaviour that the models have and no run singles out:

* If the overridden method of `local_class` is already known as incomplete, because
  a class local to it befriends `G` as well, `xml_add_node_real` (`xml.c:503-512`)
  makes it complete and queues it again: it is printed twice with the same id,
  silently.
* A reference to a const vector type names an id with qualifiers (`xml.c:847-851`),
  but a vector is printed as `Unimplemented`, without a `CvQualifiedType`
  (`xml.c:3383`). `NamedIsDumped` excludes it.
* The typedefs that the compiler itself declares are not dumped. A qualified type that
  is named by one of them (`const __builtin_va_list`, where that is `char*`) declares
  the same id as the qualified type without that name (`char* const`): both take the
  index of the main variant (`xml.c:812-826`). `OneVariantEach` excludes it.
* A line of 4095 or more characters ends the configuration file without a word
  (`gxConfiguration.cxx:796`), while `gxDocumentation.cxx:226` has every line of the
  file read.
* `remove_duplicates` (`c-incpath.c:240`) asks whether an entry was the last of the
  chain before it removes others, so `-iquote foo -iquote missing -I foo` searches
  `foo` twice for `""`, against the comment at `c-incpath.c:181-183`. `RightChains`
  allows both.
* In a file that was included by an absolute name, `#include_next` has no directory
  to go on from and fails, while the comment at `files.c:783-785` has the normal
  search used.
* A `#include ""` in a file that lies itself in a directory of wrappers searches that
  directory, too, as the directory of the file: `#include_next` may then find the
  wrapper there a second time. Transparent wrappers contain no `#include ""`.
* A wrapper with a guard hides the second of two headers with its name; the wrappers
  in the repository have none.
* With the cache of searches disabled every inclusion makes a new `_cpp_file` whose
  `stack_count` is 0, so dependency output (`files.c:732`) lists a header once for
  every time it is read.
* `FindConfigFile` (`gxConfiguration.cxx:753`) looks in `$HOME` only if `gccxml`
  does not run from its build tree; `gxDocumentation.cxx:221-222` puts the home
  directory first in any case.
* `FindFlagsGCC` (`gxConfiguration.cxx:1553`) accepts flags although the second run
  of the compiler, which tells the include directories, has failed.
* `InstallSupport` runs `cat patchfile | patch` (`vcInstall.cxx:566-577`), whose exit
  status is that of `patch`. If `cat` fails, `patch` has nothing to do and succeeds: the
  timestamp is written over headers that are not patched, and no later build repairs
  it (`Unnoticed`).
* `WaitForExit` with a timeout of zero does not return while a child keeps
  writing: a deadline that has passed is set to zero again before each poll
  (`ProcessUNIX.c:1976`), and data that is ready is read first.

### Deadlock and fairness

**Deadlock** is checked everywhere; a finished run stutters by an explicit action
(`Returned`, `Exited`, `Done`, `Built`); the user of the process library can
always make another call.

**Fairness.** `do_xml_output`, `main` and the compiler in `Synthesize` are
sequential, so the only assumption is `WF_vars(Next)`: they keep running. For
`GxFront` this includes that the parser ends (`ChildExits`); `main` waits for it
without a timeout and has no other way to end. In `ProcessUnix` the parent keeps
running inside a call (`Parent`), a pending signal is delivered, `exec` succeeds or
fails, and time passes; nothing says that a child ever writes, exits or stops
writing, nor that the user ever calls anything. In `VcInstall` the program runs on
and the build is repeated (`Step`), and failures are finite. In `IncludeSearch` the
preprocessor reads on (`Step`): it is a function of what it reads.

## 4. Proofs

`XmlDump_proofs` proves, for all sets of units, nodes and files and all scripts:

* `TypeCorrect`: `TypeOK`. Not inductive alone: `CloseOutput` sets `allocated` to
  `allocated - queueFree`, a natural number only because no entry is lost. So
  types and `EntriesConserved` are proved together (`TypedAccounting`), with the
  fact that the queue is empty where `do_xml_output` relies on it.
* `EntriesAreConserved`, `IndexesAreUnique` (every index handed out is below
  `nextIndex`).

and, assuming `QuietUnits`: in each unit none of the nodes that the promise of
`XmlReach` leaves partial asks for a complete node when it is printed as incomplete
(`Quiet`). The condition is about the nodes that are really dumped in part; what else
the tree holds, and what a node would ask for that is dumped in full, does not matter.

* `EveryNodeHasItsPlace`: `Schedule` says where a node can be. In the first phase
  only complete nodes are queued, from the visit of `dump_nodes` on only
  incomplete ones, and a node that is due is in exactly one of: the queue, being
  printed, printed, about to be visited. It is needed because "printed once" says
  nothing of a node that is queued twice and not yet printed.
* `NothingIsPrintedTwice`, `NothingIsOutdated`, `WholeWithoutErrors` and
  `WholeDocumentsAreComplete` follow from it; the last also uses
  `FileOrderInductive`, which holds for all units.
* `WorklistKeepsThePromise`: each step of the worklist is a step of `XmlReach` or
  changes nothing that `XmlReach` sees. `FinishNode` dumps a node, in full or in
  part; `StartIncomplete` turns only when everything wanted is dumped
  (`TurnWhenAllFull`), `StartFiles` closes only when everything mentioned is
  (`CloseWhenAllPrinted`).
* `ReachableIsWhatIsDumped`: `ExactlyTheReachable`, from the promise alone: what is
  dumped in full is the least set closed under complete references, and what is dumped
  in part the least that holds whatever else is mentioned. That a set is the least
  closed one needs no induction over paths: every closed set stays a superset of what
  is dumped.

None of these can be proved before the others. `Schedule` is kept only while what is
yet to be printed as incomplete asks for nothing complete (`Hushed`); `Quiet` says so
of the nodes that the promise leaves partial; and that those are the nodes in question
is what `ExactlyTheReachable` says of the steps so far, and `Reasons` of the nodes
still to come: whatever has been met, or is complete, was asked for by a start, by what
is printed or by what is running. So all of them are one inductive invariant,
`Dumping`.

`QuietUnits` is the exact place where the code falls short: the only request that
breaks it is that of `xml_print_overrides_r`, and the run `local_class` shows that
without it the conclusions are false. That the units of `xml_dump` and `xml_output`
are quiet is evaluated by TLC (`UnitsAreQuiet`).

Assumptions on constants are `UnitAssumption` (scripts are sequences of requests)
and `NoNodeAssumption`; TLC evaluates both in every run of the dumper.

`XmlOutput_proofs` carries this to documents: for all trees that are `WellFormed`, with
any kinds and any number of nodes, and all quiet units,

* `IdsAreUnique` (`UniqueIds`) and `ReferencesResolve` (`RefsResolve`).

What is met by the dumper is its own index (`MetIsOwn`), is printed once, and what it
refers to has been asked for, hence is printed; the rest is about one tree:

* `xml_add_node` and two other functions of `xml.c` recur over the tree. Their
  recursive functions have values for all nodes because the recursion is settled in
  *rounds* (`Grounded`: taking away the nodes that lead to none, again and again,
  leaves nothing); `GroundedRounds` and `RecursionIsSolved` give the function, and the
  same rounds the induction over it. Neither needs an induction theorem with an
  operator parameter.
* `AddNodeIsSound`: the index `xml_add_node` yields is that of a node it has asked for,
  is the same whether it is asked for complete or not, and what it asks for has its own
  index. So a typedef that stands for a class, a class that stands for a pointer to a
  member function and a class template that stands for its instantiations are seen
  through once and for all.
* `QualifiedIsDeclared` and `PlainIsDeclared`: the id made up by `xml_print_type_idref`
  is the one made up by the element of the type it has asked for, whatever typedefs
  name either, with the same, fewer or more qualifiers.
* `ElementIsFine`: each part of each element is *fine*, that is it asks for what it
  refers to. There is one lemma for each attribute and for each kind of element.
* `VariantIds` and `DeclaredApart`: the id with qualifiers of a variant determines its
  main variant, its qualifiers and its dumped typedef, hence the variant.

Assumptions on constants: `ScriptsComeFromTrees` and `TreesAreWellFormed`.

`Synthesize_proofs` proves the four safety properties of the test for all units
whose classes nest (`UnitAssumption`, `DepthAssumption`), in three layers:

* `Testing`: the counter is 0 unless the dump tests a method. It gives
  `SilentOnlyInTest`, and everything synthesized for the program leaves the
  counter alone.
* `Sound`: on the stack, an inner method that is invalid makes all methods around
  it invalid (`Inside`), and the counter differs from what a frame has saved only
  if the frame's method is invalid (`FrameSound`). One cannot be kept without the
  other: an error moves the counter for every frame at once. It gives
  `OnlyInvalidIsMarked`.
* `Complete`: if the program uses valid methods, every invalid method in `initial`
  is marked or on the stack, and each invalid method on the stack has moved the
  counter, or has still an error or an invalid use to come, or waits for an
  invalid one above it (`Pending`). The case that needs the classes to nest is a
  method that meets one already on the stack: it would use itself. It gives
  `OnlyValidIsDumped` and `TestReportsNothing`.

`GxFront_proofs` is about all worlds: any command line and environment, any files
and any compiler, whatever fails and however the parser ends.

* `TypeCorrect`: no option is read after the last and no line after the end of a
  file, and a file is only read if it exists.
* `FirstSourceWins` (`Precedence`). The property is one formula over all sources; the
  code has no such formula but visits the sources one by one, and each visit fills in
  only what is not known. `Visited` says for each place of `Configure` that the
  settings are what the sources visited so far give - the options read, the lines
  read, the environment if it has been looked at - and which of the two visits to the
  environment is the one that counts (`EnvironmentAccounted`). The flags for the
  compiler are settled by `GCCXML_CXXFLAGS` even when it is empty, so `haveCxxflags` is
  kept beside the settings.
* `ParserHasFlags` and `ZeroMeansDone`, by `Running`: there is a parser only while
  `main` waits for it or after it, and flags that are found are there until it starts.

Assumption on constants: `WorldAssumption`, the shape of options and lines.

`VcInstall_proofs` proves `StampIsTrue` for all machines and any number of
failures. `Turns` says that products before the current one are patched if the
result is still 0 (`Before`), those after it are wiped (`After`), and the copies of the
current one are as they came as far as they have been made (`Now`) - each header by
header, but for those that are `Unnoticed` and, until their copy is made, those that
could not be removed.
`StampMeansInstalled` alone is not inductive: it says nothing of a run under way.

The process library is proved in two modules, for any number of objects and
commands, and every interleaving of the parent with children, handler and clock.
There are three inductive invariants, each on top of the one before:

* Types (`ProcessUnix_proofs`): `TypeInv`, for all programs and failures. `TypeOK` needs
  most of it because `commandsLeft` is counted down: it equals the number of
  process IDs held (`Counted`), which depends on where the call is (`Place`,
  `Fresh`) and on how a run was broken off (`Broken`). `SignalHeld` - the read end
  of the signal pipe is closed after the write end, in a kill by an earlier step - is
  `ParentIsNotEndedBySIGPIPE`.
* Ledger (`ProcessUnix_proofs`): `Ledger` says for each place of the parent what an object
  knows of its children: the process IDs it holds are those of children not yet
  reaped, its exit codes are how they ended, and the signal pipe is open while one
  is left. It gives `ExitsAreReal` and `NoStaleIDs`. Premise `SafeForks`: `fork`
  fails only in a program with one object, because the clean up of a failed `fork`
  reaps the children of all (run `failing_fork`).
* Registry (`ProcessUnix_handler`): `Registry` says which objects are in the table, also while
  one is shifted out cell by cell, when the handler is installed, and which
  descriptors are open. It gives `HandlerAlwaysSafe`, `HandlerReaches` and
  `NothingLeft`, and with them `NoExitLost` is inductive: a zombie of a waiting
  object is announced by a pending signal or by a byte, or the parent is about to
  look at it. Further premise `SafePipes`: the stdout pipe fails only for a single
  command (run `failing_pipe`).

The setups of run `process` satisfy both premises, the two violation runs break
one each. Assumptions on constants: `ProcessAssumption`.

`IncludeWrapper_proofs` is about all units, chains and depths of nesting, and about all
command lines. Of the search (`IncludeSearch`):

* `IInv`: types; the rest of a file's path holds no wrapper (`NextLeavesWrappers`);
  every file of the stack is linked to the directive that led to it (`Linked`), and
  the directory of that directive is in `dir_hash`. The last is needed because a
  search path is computed again from the stack: a directory keeps the system header
  flag of its first user, so the path is the same as when the file was found. It gives
  `TypeCorrect`, `WrappersAreLeft` and `WrappersAreSearched`.
* `WInv`, for units whose wrappers are transparent (`AllTransparent`): the one
  directive of a wrapper is the `#include_next` of its name, and the rest of its path
  is the search of the file below it; any other file is where the file below, or
  below its wrapper, finds it without wrappers. It gives `WrappersChangeNothing`
  (`FoundAsWithoutWrappers`).

Assumptions on constants: `UnitAssumption`, `StackMaxAssumption`. Of the chains
(`IncludeChains`):

* `EveryLineIsRight`: whatever options there are and wherever the directories lead,
  the loops of `c-incpath.c` compute the chains of `RightChains`, which has no loops:
  the *first mentions* of a chain as a set of positions, listed in order. The loop
  invariant is `KeptRight`: after `i` entries exactly the first mentions up to `i` are
  listed, and a directory has been met if and only if it is among what has been kept -
  so looking through the shortened chain, as the code does, is as good as looking
  through the original one. The exception of the last entry (`LastJoins`) is the
  second case of `RightChains`. Options and loops are recursive functions; they exist
  because they step from one number to the next (`RecursionExists`).
* `EveryLineIsTyped`: the chains hold what the options have put there, so that only the
  wrapper chain holds wrappers, which `UnitAssumption` demands of units.
* `UnitsHaveRightChains`: `ChainsAreRight`, from `LineAssumption` (the chains of a unit
  are those of its command line).

Every safety invariant that a passing run checks is stated by a theorem. Only
model-checked are all liveness and with it the fairness of the refinement
`DumpsTheReachable` (its steps are proved), and the refinement `WrappersAreTransparent`,
whose mapping filters sequences. Liveness and `ENABLED` are out of the prover's reach.

## 5. Not modelled

* Failing writes: no `fprintf` or `fclose` of the dumper is checked, so a full
  disk leaves a truncated document and exit status 0.
* Lookup of `-fxml-start=` names: an unknown name yields `error_mark_node`, not 0,
  so the test `if(node)` never filters it.
* Trees that are not of the shape `XmlForm` describes. Two constructs of C++ are known
  that build one; they are named in section 3.
* `do_xml_document`: called by nothing. Its table differs from the dumper (for
  example it names the attribute of incomplete classes `init`).
* `all_decls` is filled once before the dump and its vector is cached while
  members are added; no step reallocates it.
* Of the process library: detached and disowned processes, pipe files and native
  pipes, working directories, VMS, the variant without `select`; the table grows in
  one step (a new one is filled before the old one is replaced).
* Of the installer: registry keys and paths; lines of a patch file longer than the
  buffer of 4096 characters, which would make the loop at `vcInstall.cxx:540` run
  for ever (the patch files of the repository have none).
* Of the search for headers: `CPATH` and `-iprefix`, `#import` and `#pragma once`,
  precompiled headers, header maps, remapped names and `-imacros`.
* Of the configuration: the Windows compilers, and that `CXX` and `CXXFLAGS` are taken
  independently, so that the flags meant for one compiler may go to another; it is
  what the code and its documentation say.
* The reading of a command's output (`gxSystemTools.cxx:86`): a last line without a
  newline is dropped.
* A parser that never ends: `main` waits for it without a timeout; and a `waitpid`
  that fails.
* The rest of GCC and libcpp, libiberty, KWSys and the support headers are third-party
  code or data.

## 6. Plan

Done: the modules of section 2 and the theorems of section 4. Worth adding, in this
order:

1. `XmlStart`: the list of starts and what lookup returns for unknown, class and
   overloaded names, composed with `XmlOutput`.
2. `ProcessUnix` under `GxFront` (in place of `ChildExits`), with detached
   processes and pipe files.
3. Proofs: the steps of `WrappersAreTransparent`.
4. `FlagsParser` as an operator against a reference tokenizer; the table of the DTD
   writer against `XmlTree`; the flags of the front end as the command lines of
   `IncludeChains`.
