# A verification project for otter_fusion

otter_fusion is a compiler, written in Rust, for a small statically typed
language (`.of` files), with a runtime and an I/O library, and example programs
in the language itself; the largest is a chat server built on a `select()` event
loop. This directory models the compiler from text to running code, and the chat
server: the lexer and the parser, the loading and naming of modules, the types of
bodies, the monomorphization worklist, the lowering to basic blocks, what the
generated code does to memory, and the reactor. The modules are TLA+;
TLC checks them on small instances, and TLAPS proves theorems about the worklist, the
lowering of statements and its correctness, the reactor and the loading and naming of modules for every instance.

Paths below are relative to the repository. `lower/` is `src/lower/`.

## 1. The system

| part | state it keeps | operations | talks to |
|---|---|---|---|
| loader, CLI (`src/main.rs`) | worklist of files, visited stems, loaded ASTs | load a module and what it imports; build, run, link | lexer, parser, validator, lowering, codegen |
| lexer, parser (`src/lexer.rs`, `src/parser.rs`) | a position in the text or in the tokens | next token; one function per production | AST |
| validator (`src/validator.rs`) | module scopes, type and function tables, a stack of local scopes, errors | register types, resolve imports and constants, check signatures, bodies, interfaces | HIR |
| worklist (`lower/mod.rs`, `lower/unions.rs`) | caches of instances, id counters, a FIFO of tasks, the tables of the MIR program | `mono_fn`, `get_or_create_struct/interface/union`, tasks for bodies and vtables | statement and expression lowering, codegen |
| statement lowering (`lower/stmt.rs`, `lower/expr.rs`, `lower/builder.rs`) | `FnBuilder`: blocks, current block, scopes, loop stack, locals | one function per statement and expression | worklist (mentions instances) |
| codegen (`src/codegen/mod.rs`) | Cranelift variables and blocks per function | one function per MIR statement, value and terminator | runtime symbols |
| runtime (`rt/src/lib.rs`) | heap objects, lists, maps, buffers, a global vtable registry | C functions | compiled code |
| I/O library (`io/`) | fd sets, sockets | `select`, `read`, `write`, ... | kernel |
| prelude (`src/of_core.of`) | none | `List`, `Map`, `Iterator`, `Buffer` | runtime |
| chat server (`examples/networking/slack_clone/`) | connections, channels, waiters | `tick` and its handlers | I/O library, clients |
| web server example | one connection at a time | blocking accept loop | I/O library |
| editor extension, benchmarks, snapshots | none | tooling | none |

What makes them right, and where it is hard:

* **Worklist.** Everything `main` reaches must end up in the program, once,
  under one id, whatever the order in which functions, types and vtables
  mention each other. Recursion is the difficulty: types that contain themselves
  (placeholders), functions that call each other (ids before bodies), interfaces
  that extend in diamonds and cycles.
* **Statement lowering.** The blocks must do what the statements say. Early
  exits, dead code behind them, nested loops and shadowing make the builder's
  three stacks easy to get wrong.
* **Reactor.** One thread, but between any two of its steps clients connect,
  send part of a request or hang up, descriptors are reused, and time passes.
  The state of one client is spread over the connection list and the waiter list
  and must stay in step.
* **Validator.** Name resolution depends on module order; interface checks and
  method lookup are written twice, in the validator and in the lowering.
* **Lexer and parser.** Decisions by lookahead and attempts that are undone: type
  arguments against comparisons, blocks against maps, struct values and bodies.
* **Types, unions, codegen.** A union is a 16-byte block behind a pointer; who owns the
  block, when it is copied, and which tag a variant has are decided in three
  places that must agree. Operands name locals, not values. Conversions change widths.
  The validator is more permissive than what comes after it.
* **Runtime.** The vtable registry is global.

The full list of hazards, each at its line, is in `PROJECT.json`.

## 2. Modules

| module | models | role |
|---|---|---|
| `Reach` | graph search, and what is reachable | abstract specification of the worklist |
| `Mono` | `lower/mod.rs`, `lower/unions.rs` | the worklist |
| `MCMono` | | programs for TLC |
| `MonoProofs`, `MonoComplete` | | theorems about `Mono`: types, tables and the stack; the finished program and `Reach` |
| `Cfg` | `lower/stmt.rs`, `lower/builder.rs`, `lower_if`, `lower_block` | statements to basic blocks |
| `CfgRun` | codegen's view of a block, the validator's view of a scope | executes both side by side |
| `MCCfg` | | bodies for TLC |
| `CfgProofs` | | theorems about `Cfg` |
| `CfgPoints` | | what the code at a place has to do: points and the code they ask for |
| `CfgMatch` | | when the machine and the statements are at the same place of the program |
| `CfgPointsProofs` | | every step of the lowering writes the code its points ask for |
| `CfgRunProofs` | | theorem about `CfgRun`: the blocks do what the statements say |
| `SeqSift` | a loop that walks a list and takes elements out: `take_woken`, `drain_waiters`, the imports a loader or a validator picks from the items | used by `SlackReactor` and `Front` |
| `SeqSiftProofs` | | lemmas about it |
| `LongPoll` | what a long poll promises | abstract specification of the server |
| `SlackReactor` | `slack.of`, `reactor.of`, `state.of`, `select` of `io/of_io.of` | the server |
| `SlackProofs` | | theorems about `SlackReactor`: its tables, its promise |
| `Front` | the loader of `main.rs`, imports and names in `validator.rs`, the callee of a call in `lower/expr.rs` | from files to names |
| `MCFront` | | programs for TLC |
| `FrontProofs` | | theorems about `Front` |
| `Lexer` | `src/lexer.rs`, `src/tokens.rs` | text to tokens |
| `Parser` | `src/parser.rs`, `src/ast.rs` | tokens to items |
| `Syntax` | | how a tree is written, independently of how it is read |
| `MCSyntax` | | texts, token sequences and trees for TLC |
| `Types` | types of `src/hir.rs` and `src/mir.rs`, compatibility in `validator.rs`, `lower/unions.rs`, `lower/mangling.rs` | types, tags, layouts |
| `Checker` | `check_block`, `check_statement`, `check_expr` and theirs in `validator.rs` | bodies to typed bodies |
| `Lowering` | `lower/expr.rs`, `lower/stmt.rs`, `lower/unions.rs`, `lower/builder.rs` | typed bodies to MIR |
| `Machine` | `src/codegen/mod.rs` | what the code of a MIR program does |
| `Meaning` | | what a program means, as an interpreter of typed bodies on values |
| `Compile` | `run_run` and `build_hir` of `main.rs` | the phases in a row |
| `MCCompile` | | programs for TLC |
| `MCSlack`, `MCSlackGone` | | requests for TLC; the hang-up question |

### Mono

A `Lower` is the variables `worklist`, `monoFns` (the cache `mono_fns`),
`monoTypes` (`mono_types` and `mono_unions`), `nextFn`, `nextType`, and the tables
`functions`, `types`, `vtables` of the `MirProgram`. The recursion of
`get_or_create_struct` through `build_struct_def`, and so on, is made visible: `stack`
holds one activation per Rust call, with the next thing it will do, so a type
that is being built is in `types` as a placeholder (`built = FALSE`) exactly as long
as in the code. The input program (`prog`) says which functions and types each
unit mentions, in order; `Script` turns it into the code's order of operations:
fields before vtable tasks in `build_struct_def`, all slots, then the insertion, then
the parents in `process_vtable_task`. Actions: `FindMain`/`NoMain` (`find_main`; any
main, since it walks a HashMap), `TakeTask` (`pop_front` and the early return of
`process_vtable_task`), `CallFn` (`mono_fn`), `TypeHit`, `TypeMiss`
(`get_or_create_*`), `QueueVTable`, `SealVTable`, `Return`, `Finish`.

Abstracted: type arguments (an instance is a model value), what bodies contain
besides what they mention, and the contents of layouts.

### Cfg and CfgRun

`Cfg` has the fields of `FnBuilder`: `blocks`, `cur` (`current_block`), `scope`, `loops`
(`loop_stack`), `nextLocal`. `agenda` is the recursion of `lower_stmt` and
`lower_block`: the statements still to come and the code that runs after a
recursive call returns. There is an action per statement form and one per point
where a call returns (`EndBlock`, `EndArm`, `EndLoop`, `EndList`).
Block numbers are created in the code's order. A condition is `"free"` (both
outcomes are tried), a test for null, or the comparison of index and size.

`CfgRun` runs the finished blocks against the statements. The machine executes
one MIR statement or terminator per step; the statements run on a continuation
`todo` with lexical scopes as the validator resolves names, the loop variable in
a scope of its own (`validator.rs:2060`). Both stop at observable events: a labelled
action, the use of a variable's value, the removal of a list element, a free
condition, the return. A loop over a map is not modelled: beside the steps of the list loop, over the
list that `keys()` returns, it looks each key up, extracts that payload unguarded as well
(`stmt.rs:368`) and allocates an `Entry` (`:397`).

### SlackReactor

`conns` is `Reactor.conns`; `channels` maps a channel to its highest message id;
`waiters` is `ChatState.waiters`, with `left` the time to the deadline instead of the
deadline itself; `ready`, `timer`, `at`, `toClose` are the locals of `tick`, and `pc` is
where in `tick` the thread is. `sock` and `backlog` are the kernel's side, external:
which descriptors are open, how many pieces of a request have come. A request
has two pieces, and `read_more` may get any number of those that have come. A *large* request says
that its body is longer than the buffer: it is parsed as soon as its headers are there
(`reactor.of:245`), so that a form is cut off (`CutOff`) and answered with 400. An endless one has
no end of headers and is parsed when it has filled the buffer.

`tick` is `BuildSets`, `SelectError` or `SelectOk`, `NoAccept`, `AcceptOne` or
`AcceptFails`, then one action per connection and outcome of its handler
(`SkipConn`, `ReadWouldBlock`, `ReadEnds`, `ReadPart`, `HandlePlain`, `HandleSend`,
`PollNow`, `PollPark`, `WriteDone`, `WriteBlocks`), `EndScan`, `CloseOne` for each entry
of `to_close`, and `DrainExpired`. `HandleSend` is the whole handler: it appends,
takes every eligible waiter off the list and stages each one's answer.
Clients (`Connect`, `SendPiece`, `HangUp`) act between any two of these steps; the
clock moves only while the server waits in `select`.

Abstracted: HTTP and JSON text (a reply is the request it answers and the id up
to which it has messages), buffer allocation failures (they end as a refused
accept, an ended read or a blocked write), and the 10 ms floor of
`compute_timeout`, which is 0 ticks here. `start_writing`'s branch for a response
that could not be turned into a buffer is left out: `__of_buffer_from_str` returns
no null.

The waiters a message wakes, and those that expire, are taken off the list by `Sift`, which
says of each place in the result which place in the list it comes from. `SelectSeq`
defines the same by recursion, about which nothing can be proved here; that the two agree is
an assumption of `MCSlack` (`SiftIsSelectSeq`), and so is that the loop of `drain_waiters` and `take_woken`,
which removes from the list it walks and starts again, takes out the same ones in the same order
(`DrainIsSift`). TLC evaluates both on lists of up to four elements. This is where several waiters for one
message are checked: with two descriptors `HandleSend` finds at most one.

### Front

`queue`, `visited` and `modules` are the locals of `load_modules_recursively`; each file
popped is `SkipFile` (its stem is known), `MissingFile` or `LoadFile`. A module is the
list of its items; an import has a target, which `Join` turns into a path relative to the
importing file and `StemOf` into the name the module will have. `build_hir` puts `of:core`
first (`Loaded`). The validator's phases follow: `CollectImports` per module (prelude,
self-imports, unknown modules), `RegisterNames` per module, then one step per symbol of
`pending_named_imports`: `UnknownSymbol`, `DuplicateImport`, `KeepEntry`, `ImportSymbol`. `Requests` lists the symbols a module
adds to it, the implicit ones of the prelude first.
`direct`, `globs` and `imported` are the fields of `ModuleScope`. In an accepted program one
call by name is lowered: the validator finds its callee with `LookupInScope`, the
lowering with `FreeFunctions`, in any order of the HashMap.

Abstracted: what the later phases of the validator check (they are taken to find
nothing), constants and aliases (entries like types), the HIR's record of imports,
several symbols in one import (an import item has one). `DuplicateModule` cannot
happen: the loader reads each stem once.

Of paths only two things are used, both said by `JoinAssumption` and both true of
`dir.join(format!("{}.of", target))`: what is asked for under a file's stem has that stem, and lies in
the directory of the one that asks. `StartIsOf` is that the compiler was given a file
whose name ends in `.of`.

### Lexer, Parser and Syntax

`next_token` is an operator from a text and a position to a token and the position after
it, with one operator per kind of scan. The action `ScanToken` keeps the next token unless it
is a comment, as `scan_all` does (so the parser's own skipping of comments never meets one);
`ParseItem` reads one item, `ParseEnd` accepts at the end of the tokens. A parse
function takes a cursor (position, the tree built so far, failed or not); once a
cursor has failed everything passes it on, which is what `?` does. All
productions call one another through the operator `parse`. The three places where the code
saves its position, tries something and puts the position back are modelled
as they are: type arguments after a name (`try_parse_type_args_for_call`), the body of a
struct value (`peek_is_struct_init_body`), and a map against a block.

`Syntax` writes trees. It knows the levels of the operators and nothing of lookahead;
it puts parentheses where the levels call for them. Where the implemented language
needs a parenthesis or a semicolon that the levels do not call for, there is an
operator `Guarded...`, so these are the surprises of the grammar, in one place:
`x as T < y` takes `<` for type arguments if `T` is a name; `x < y > (z)` and
`f(a < b, c > (d))` are calls with type arguments; `if x {}` makes a struct `x`;
`while (x) && y {}` ends its condition at the parenthesis; an `if` or a block that is a
statement swallows a `(` or `-` after it.

Other things one meets on the way, which the model has as the code has them: the test of
a binding power against 15 never decides anything; `struct S {,,}` is accepted since
`found_comma` is never set; `self` among the parameters of a function literal is dropped;
`List<T>=` has the token `>=`; `1.foo` is an invalid number; `{}` as an
expression is an empty map, and `function f();` has an empty body.

Abstracted: a literal keeps its spelling; line and column follow from the position.

### From typed bodies to memory

`Compile` runs one program: `Validate` (all bodies, `Checker`), `LowerInstance` per function
instance (`Lowering`; in which order is `Mono`'s business), `Generate` (whether codegen and
Cranelift's verifier take every function), then one `Execute` per MIR statement or terminator
(`Machine`).

`Checker` builds typed trees. Each node says whether the check at that place found an error;
the validator goes on after an error, and so does the model. `Lowering` is `Lower` on
expressions and statements: an operator takes the builder and returns it, with the operand in
`out`. It coerces where the code does: at declarations, assignments, returns, arguments,
fields and the arms of an `if`. `Types` has tags both ways they are computed, by
`union_tag_for` when a value is widened and by `tag_of_variant_mir` when it is asked for,
since they must agree.

`Machine` has `frames` (the registers of each active function) and `heap` (objects of 8-byte
cells). A union register is an address: of the block that `lower_function` allocates for
each union local on entry, of the caller's block for a parameter, or of the cells in a struct
after `lower_field`. `Deliver` copies 16 bytes into the block of the destination, or moves a
register. Integers are words of a few bits: a byte has 2, a word 3, so that conversions
lose bits and signs with small numbers; `i8`, `u8`, `i64` and the `u16` of tags are there.

`Meaning` says what a typed body means without registers, blocks or tags: a value of a union
is a value of one of its types, structs are shared, operands are evaluated from left to right.
`SPEC.md` does not say that `&&` and `||` evaluate only what they need, and they
do not: both sides are evaluated in the code and in `Meaning`. Nor does it say what becomes of a number that
does not fit: `SPEC.md:291` lets `as` crash when the *types* are not compatible, and its own example
narrows an `i64` to an `i8`. Both wrap, so `SameMeaning` tells nothing about overflow but that the
phases agree on widths and signs.

Of calls, `check_call` has those of a function by name, refused when the name is a local's or nobody's;
a literal too big for its type is refused (`check_int`).

Abstracted or left out: strings, floats, lists, maps, `for`, methods and static methods, interfaces, type
arguments of structs, function values, constants. A list keeps the address of a union and does not copy it,
so that what `OneOwner` says ends where lists begin. Fields are placed in whole cells
(padding and alignment of `compute_struct_layout` are left out). Memory is never reclaimed,
as in the code. A variable of a struct type with no initial value holds a null
pointer, and reading its field is undefined; the programs have none.

## 3. Runs

| run | instance | states | shows |
|---|---|---|---|
| `mono` | 3 functions, 2 structs, 3 interfaces, 1 union; the programs of `MCMono` | 8 768 | safety, termination, refinement of `Reach` |
| `cfg` | bodies with every statement form, loops nested in loops, lists of 2 | 81 000 | well-formed blocks, same behaviour |
| `slack` | 2 descriptors, 2 channels, 5 requests, one of them large, waits of 1 and 2 ticks, 2 messages per channel, 1 pending connect | 1 664 000 | safety, refinement of `LongPoll` |
| `slack_live` | 2 descriptors, one send and one poll, waits of 1 tick | 136 800 | liveness |
| `slack_gone` | as `slack_live` | as far as the violation | finding 1 |
| `front` | a root with up to 2 imports, 2 files beside it with up to 1, 2 files of the same stems below it, 4 symbols | 500 000 | loading ends, scopes mean what the text says |
| `syntax` | texts of up to 4 of 14 characters and 486 layouts of a declaration; sequences of up to 4 to 6 tokens in five contexts; trees of two or three operators, pairs of statements, every form of item | 565 832 | tokens, trees |
| `compile` | 5 776 programs: one of 4 statements, then two of 38 | 96 630 | accepted programs compile and mean what they say |
| `front_clash`, `front_callee` | as `front` | as far as the violation | findings 4 and 5 |
| `cfg_shadow`, `cfg_shrink` | two bodies each | small | findings 2 and 3 |

The bounds. *mono*: two functions that call each other and a third they share, a
struct that contains itself through a union, and three interfaces are what it
takes to have each kind of recursion and of sharing; the programs include cyclic
and diamond `extends`, two candidates for main, and none. *cfg*: two levels of
loops and blocks decide which frame a jump reaches, and two elements make a first,
a middle and a last test of the loop. *slack*: two descriptors let one handler
rewrite another connection that the same pass has behind or ahead of it, and let
a descriptor be reused while the other client waits; two messages separate "woken
by the next" from "woken by a later one", and waits of 0 (defaulted), 2 and 9
(capped) are all asked for. *front*: two imports in one module are what clashes,
repeats and shadowing take; a re-export needs a third module, and circles of one, two and
three modules occur; the two files below the root have stems that files beside it have too.
*syntax*: every decision of the parser looks at most two tokens ahead or undoes an attempt that
spans a type's arguments, which six tokens can open, nest and close; two operators inside one another
are what a level or a side decides, and three see that a guard reaches through. *compile*: `main`
declares a union of each layout (`i64 | null`, `i8 | i64 | null`, `P | null`), two structs, one with
union fields, and two integers; it executes three statements and returns all of it. A
statement that breaks ownership needs a second that writes and a first that gave the
variables something to lose. The functions it calls have union parameters and results,
early returns, a type parameter and an assignment through a shared struct. In the result the whole
memory is compared, whatever can be reached.
In *slack*, descriptors are interchangeable, which is the symmetry
that run uses; it checks no liveness.

`CHECK_DEADLOCK FALSE` is said of all runs but the server's: a compiler pass ends.
The server never stops, so deadlock is checked there.

### Properties

*mono.* `OneHome`: an instance that was asked for is queued, being lowered or in
the table, and in one of them only. `TablesAgree`: caches and tables name the
same thing by the same id. `BodiesSeeBuiltTypes`: no body or vtable is lowered
while a placeholder is in the table. `NoDangling`, `SlotsCallable`,
`VTablesComplete`: the finished program is closed, its vtables lead to the bodies
resolution chose, and exist for every interface and ancestor. `StableIds`: an id
once handed out keeps its meaning. `Terminates`. `RefinesReach`: exactly what `main`
reaches, nothing unused.

*cfg.* `TerminatorsAreFinal`: code is never added to a finished block.
`AllSealed`: no placeholder terminator is left. `StacksMatch`: the loop and scope
stacks are those of the statement being lowered. `SameBehaviour`: the blocks and the
statements show the same events in the same order. `KeepsMeeting`: no silent
endless loop on either side.

*slack.* `OneConnPerSocket`: the connection list and the open descriptors agree,
nothing is closed twice. `WaitersAreParked`: a connection waits exactly while one
waiter carries its descriptor. `NoMissedWakeup`: nobody sleeps on news.
`AnswersOwnRequest`: what is being written answers this connection's request, whoever
staged it. `RefinesLongPoll`: a poll is answered at once when there is news, else
parked, and answered by the very post that brings news or by its deadline.
`ParkedIsAnswered`, `RequestIsServed`: liveness.

*front.* `LoadedIsReachable`: every stem is read once, everything imported is read, and
nothing else. `ImportsGetTheirFile`: in an accepted program an import means the file it
points at. The loader alone would not give that; it holds because the validator
knows no module whose name has a directory in it. `ScopesGrow`: a name never changes
its meaning. `ImportsMean`: own definitions win, an imported name means what its
source means by it, and a scope has nothing else. `RefusalsAreRight`: a symbol reported unknown is not its
source's own, and if the source has it in the end, it got it by an import of its own and comes later in the
order of modules, which is the one way in which that order tells; a name reported as imported twice is asked
for twice and not the module's own, since own definitions shadow imports silently. That every name asked for twice
is reported would be false (finding 4).
`CalleesAgree`: the lowering calls what the validator resolved, where function
names are unique and unaliased. `Terminates`.

*syntax.* `ReadAsMeant`: a written tree is read back as that tree, which fixes precedence,
grouping, and every decision by lookahead. `NothingLost`: what is accepted has been read in full;
written down again, the items have the same tokens in the same order, separators and brackets aside. `TokensStandAlone`: each token, scanned by itself,
is that token; a scan never takes a character too
many or too few.

*compile.* `AcceptedCompiles`: lowering and codegen panic on no accepted program, but for the
conditions below. `SameMeaning`: what the code leaves in memory, or that it traps, is what the
program means. `TagsTellPayloads`: whenever a union can be read, its payload is a value of the variant that
its tag names. `OneOwner`: no two union variables of any active functions share a block. `CallersUnionsStay`:
no function changes a union variable of its callers, unless it assigns to a union parameter.

The two first properties are said of programs that meet conditions, each a predicate of
`Compile`, and each needed: without any one of them TLC finds a program of the run that breaks the
property. They are what the validator accepts and the rest of the compiler cannot do
(`Compilable`) or does otherwise (`Disciplined`):

| condition | without it |
|---|---|
| `CastsMakeSense` | `as` or `is` between types that have nothing to do with each other panics in `lower_as`, `lower_is` |
| `ArmsFit` | an arm of an `if` that is a smaller union than the `if` panics in `union_tag_for` |
| `Comparable` | `==` on tagged unions panics in `operand_prim` |
| `NullIsLiteral` | a value of type null that is not the word `null` has no register: `use_operand` panics |
| `TailFits` | the type of a function's last expression is not checked; a missing one is `Return(None)`, which Cranelift's verifier refuses |
| `TypeArgsAreValues` | a union as type argument makes unions of unions, for which there is no tag |
| `OperandsAssignNothing` | in `x + { x = 5; 1 }` the left operand is read after the assignment |
| `UnionParamsAreRead` | an assignment to a union parameter changes the caller's variable |
| `LoopsAssign` | in a loop, a variable without initial value, or an `if` that gives no value, keeps the value of the round before |

Each property is there because a plausible bug breaks it; `PROJECT.json` pairs it
with one, kept in the module beside the definition it distorts and marked *Fault*.

### Fairness

`Syntax`, `Compile`: none, their properties are safety. `Mono`, `Cfg`, `Front`: weak fairness of the pass, which is a loop that nothing blocks.
`SlackReactor`: weak fairness of `tick`, since `main` calls it for ever and no step of
it waits for a client (all descriptors are non-blocking). `select` is the
exception, and a select that fails for ever would starve everybody, hence strong
fairness of `SelectOk`. Time passes while the server sits in `select`; a failing
select leaves and re-enters it, which must not stop the clock, hence strong
fairness of `Elapse`. Nothing is assumed of the clients.

## 4. Findings

1. **A parked client that hangs up is not noticed** (`slack_gone`). `tick` puts
   reading connections in the read set and writing ones in the write set; a waiting
   connection is in neither. `state.of:152` says of `drop_waiter_for_fd`: "Used when
   a client disconnects mid-wait so we don't try to write to its closed fd". It is
   never called in that situation; the answer is written to the closed peer.
2. **The variable of a `for` outlives its loop** (`cfg_shadow`). `stmt.rs:226`, `:409` and
   `:521` bind it in the scope around the loop. After the loop, a variable or a
   parameter of the same name means the loop's local. The validator scopes it to
   the loop, so nothing is reported.
3. **A list that shrinks in its own loop** (`cfg_shrink`). The size is read once; the
   payload of `get(i)` is extracted with no tag test, against `mir.rs:297`. The
   element bound is then the garbage in the payload word of null.

4. **Two globs may clash** (`front_clash`). `lookup_in_scope` takes the first glob that has
   the name; `SPEC.md:351` says of importing one local name twice "from any combination of
   imports" that it is an error. The same holds of named imports, where it is meant:
   `validator.rs:884` calls it harmless to import the same symbol from the same source again
   (the prelude does so all the time), and accepts it. `Clashes` does as the code does.
5. **A call may reach another function than the one checked** (`front_callee`).
   `lookup_free_function` ignores modules. A module's own `X` next to an imported
   module with an `X` is enough, and which one is called depends on the hash order. A
   function imported under an alias is not found at all, and the lowering panics.

`CalleesAgree`, in the run `front`, is what remains true of 5. The `cfg` run leaves
out the programs of 2 and 3: bodies that reuse a `for` variable's name after the
loop, or shrink a list inside a loop over it.

## 5. Proofs

Every safety property that a passing run checks of the state machines `Mono`, `Cfg`, `CfgRun`,
`SlackReactor` and `Front`, and every action property, is also a theorem, for every value of the
constants that satisfies the assumptions TLC evaluates (`SameBehaviour` of `CfgRun` under a condition on the
program, below):

| assumption | says |
|---|---|
| `ProgramsAssumption`, `KindsAssumption` (`Mono`) | a program has the shape the lowering reads; the keys of functions, types and vtables are of different Rust types |
| `StmtAssumption`, `BodiesAssumption` (`Cfg`) | a statement has one of the forms of the AST, and its parts are statements |
| `SizeAssumption` (`CfgRun`) | a list has a size |
| `WaitAssumption`, `BoundAssumption`, `RequestAssumption` (`SlackReactor`) | the limits of a wait; finitely many descriptors; a request has one of the forms `routes` knows |
| `PathsAssumption`, `JoinAssumption`, `DisksAssumption` (`Front`) | how paths are joined (above); a disk holds lists of items |

In each case the invariants of the runs are not inductive, and what had to be added is
what one has to know to see why they hold. An inductive invariant was checked with TLC before it
was proved. Each proof has one lemma per action or per conjunct, and one step per pair of them that
interferes.

**`Mono`.** `TypeInv` is `TypeOK`, that what an activation has mentioned so far is cached, and
that queued functions and units on the stack have ids or are vtable keys (`TypeCorrect`).
`SafetyInv` adds to it

* `TablesInv`: ids are handed out below the counters and injectively, so that a new one is new to
  every table (`TablesAlwaysAgree`);
* `ShapeInv`: at the bottom of the stack is a task, above it only types under construction, each
  once, and a type that is cached and not on the stack is built. Without it "a body sees only
  built types" speaks of the moment the body runs again, after the types above it have returned
  (`NoPlaceholderRead`);
* `OneHome` (`EveryInstanceOnce`).

`CompleteInv` is about what has been done:

* `ScriptsDone`: whatever an activation has passed in its script is discovered, and the vtables it
  sealed are stored;
* `DoneClosed`: what a finished unit mentions is discovered;
* `OpenFrames`: no unit is on the stack twice, a type there is not built, a vtable there is not yet
  stored. It is what makes "finished" a set that only grows;
* `SlotsInv` and `EntryInv`: the ids in stored vtables and the entry point are those of the cache.

From it follow, once the queue is empty, `NothingDangles`, `EverySlotCallable` and `EveryVTableThere`, and
at every step `IdsNeverChange`. `ImplementsReach` shows each step to be a `Visit`, a `Finish`, the `Root` of
`Reach`, or a stutter. `ReachInv` adds that every set which contains the root and is closed under
mentions contains all that was discovered; with `DoneClosed` at the end this is
`LowersExactlyTheReachable`.

**`Cfg`.** `CfgInv` relates the block table to the code still to be lowered. A block is *waited for*
by an item of the agenda if the item will continue in it: an arm of an `if` in the next
arm or the join, the end of a loop in the block behind it. `Pending` and `Unsealed` say
that the open blocks are exactly the current one and those waited for, that these all
differ, and that each is waited for once. No block is therefore sealed twice (`SealedForGood`), and when the agenda
is empty and the last block is closed none is open (`EveryBlockSealed`). `AgendaIds` and
`Typed` make ids and targets exist (`TypeCorrect`). All statement forms have the same effect on this
invariant, stated once (`Shape`, `ShapeKeeps`): the head of the agenda is replaced by items that wait for new
blocks or for the block the head waited for. `LoopsMatch` and `ScopesMatch` count the
loop ends and scope ends on the agenda from below (`FramesMatch`).

**`CfgRun`.** `LoweringPreservesBehaviour` is the correctness of the pass: for every body of any size and
nesting, every size of the list and every outcome of every condition, a machine that runs the blocks
shows the same events in the same order as the statements. There is no tree to do induction
on, since the statements are a constant, and none is needed: the induction is over the steps of the lowering and of the
two runs. It has two halves.

*The lowering* (`CfgPointsProofs`). A *point* is a place in a block with what is left to do there, a
continuation, and the scopes in force. `Coded` says which code a point asks for: the head of its
continuation is emitted there, and the places this leads to are points with the right continuations.
A loop in a continuation (`LoopRec`) carries the blocks to leave and to repeat it, its locals and scopes.
`Lowering(P, W)` says that the points `P` are coded or are the current place or one that an item of the agenda
waits for; `W` gives the continuation before each item of the agenda. `NextLowers`: each step of the lowering keeps this for
more points. The dead block after a jump is a point like any other, its continuation what follows the
jump in the text, so it needs no case of its own. The locals a `for` keeps for itself
(`Reserves`) are in no one else's use (`Fresh`).

*The runs* (`CfgRunProofs`). `Matches` relates a point and the machine's store to a state of the
statements: item by item, with the phases of a `for` that the statements do not have (`Stage`), and
frame by frame of names, where a `for`'s variable has a frame in the statements and none in the
blocks (`Levels`, `Names`). Jumps give up the same frames on both sides. The inductive invariant
is `SimInv`: there are points the lowering keeps to, and a set of states of the statements that
contains the present one, each of which either is where the machine is or does a silent step to
another of the set. The set is what makes both sides free to be silent in any order.

The hypothesis is `[]Disciplined` (of `CfgMatch`), a condition on the statements alone, on what they are about to do: a name that
is read or assigned is bound (the validator sees to that), the name of a `for` is not in use around it, and no list shrinks under a
list loop. Without the second and the third the theorem is false: these are findings 2 and 3.
On the bodies of `cfg` TLC finds `Disciplined` true in all 81 241 states, on those of `cfg_shadow` and `cfg_shrink` it finds
it false (add `INVARIANT Disciplined` to the configuration). It is said of the run and not of the
text, which would take a recursion over nested statements. (The two proof modules take `tlapm` ten and
sixteen minutes from nothing.)

**`SlackReactor`.** The conjuncts of `Inv` hold each other up:

* `OneConnPerSocket` needs `Closing`: what is to be closed was scanned in this tick, so that no
  connection is marked a second time, and none that took over its descriptor is closed in its place;
* `MarkedAwake`, that no connection is given up while its poll waits, is what the promise of
  `LongPoll` needs: only an answered poll is forgotten. So `drop_waiter_for_fd`, which is called for each
  connection that is closed, never finds a waiter (finding 1);
* `WaitersAreParked` rests on descriptors being distinct in both lists: the scans that
  wake, expire or drop then hit the one entry they mean;
* `AnswersOwnRequest` is about an answer that another connection's handler stages, so it needs
  `ParkedAsked` (a waiter has the channel and cursor its connection asked for), which with
  `Owned` (a connection has heard a request once it waits or writes) ties the waiter list to the sockets;
* `NoMissedWakeup` needs what `take_woken` leaves behind.

`Bounded`, that posted messages and those a connection is still to post are together within
`MaxMsgs`, is about the model's bound on clients only; `TypeOK` needs it. `KeepsThePromise` shows that each
step, through the mapping `PollOf`, is a step of `LongPoll` or a stutter: the step of a sender that
answers several pollers is one step there, too.

**`Front`.** Four invariants, one over the other.

* `TypeInv` adds to `TypeOK` that a scope is a function defined on the module's definitions
  and imports, and what has been done in each phase (`TypeCorrect`). That names never change
  meaning follows from it (`MeaningsStay`).
* `LoadInv`: the visited stems are the names of the modules; what a module asks for is visited
  as a name, visited as a stem, or on the queue; what is on the queue or loaded was asked for by an
  earlier module (`LoadsTheReachable`). `Places` adds that as long as nobody imports a text that is
  not a stem, all files met lie beside the first one.
* `NameInv`: a request is pending, or was granted (as long as there is no error); an imported
  name has an import that gives it; and an error has its reason (`ScopesMean`). With `Places` it gives `ImportsFindTheirFile`: in an accepted program every
  text is a module's name, hence a stem. The hypothesis `StartIsOf` is needed: given `main.txt`,
  a module that imports `main` gets the text of `main.txt`.
* `OrderInv`: requests are finalized in the order of the importing modules, so none that is pending belongs to
  a module before the one whose symbol was found missing (`Early`). A source that gets the name afterwards, by a
  request of its own, is therefore a later module (`RefusedRightly`).

`CallsReachTheirFunction` is about one step, with the proviso of `CalleesAgree`, `PlainNames`; without it finding 5
is the counterexample.

What stays with TLC:

* liveness (`Terminates`, `ParkedIsAnswered`, `RequestIsServed`, `KeepsMeeting`, the fairness in
  `RefinesReach`): it is out of the prover's reach;
* everything about trees of any depth, `Syntax` and `Compile` with `Parser`, `Checker`, `Lowering`,
  `Machine` and `Meaning`: they need recursive operators, in which the prover cannot
  unfold a definition, and induction over trees.

## 6. Not modelled

Interfaces, `extend` blocks and methods in the validator and the lowering; constants; signature
checks. Floats, strings, lists and maps in bodies (but for the list loop of `Cfg`; the loop over a map,
`stmt.rs:247`, is not); unions kept in lists; the lists,
maps, buffers and the vtable registry of the runtime, C functions over raw memory.
Instruction selection, system calls, the link step, the web server (one blocking connection at a
time), the editor extension.

Polymorphic recursion (`f<T>` calling `f<List<T>>`) makes the set of instances
infinite, and the worklist of `lower/mod.rs:102` has no limit: `Terminates` is about
finitely many instances. A cycle of interfaces that extend each other keeps
`interface_matches` (`validator.rs:3758`) going for ever; interfaces are not modelled.

## 7. Plan

Done: `Mono` with its proofs and `Reach`; `SlackReactor` and `LongPoll`; `Cfg` and `CfgRun`; `Front`;
`Lexer`, `Parser` and `Syntax`; `Types`, `Checker`, `Lowering`, `Machine`, `Meaning` and `Compile`, which
took the place of the separate modules once planned for union memory, tags and conversions.

Proved: every safety property that a passing run checks of `Mono`, `Cfg`, `CfgRun`, `SlackReactor` and `Front`, and the
refinements of `Reach` (its steps) and `LongPoll`.

Left, in this order:

1. `Dispatch`: interface requirements and method resolution, in the validator and in the
   lowering, and the slot order of vtables, composed with `Mono`.
2. Lists in `Machine`: an element that is a union is an address, too.
