# A verification development for the Tiger compiler

TLA+ modules that model this repository's compiler, the TLC configurations that
check them on small instances, and proofs, checked by TLAPS, of what matters most
for every instance. Paths below are relative to the repository; `tiger/` and
`straightline/` stand for `src/tiger/` and `src/straightline/`.

To run: `tlc -config X.cfg M` checks the module M of a configuration, as listed under
*Runs*; `tlapm M.tla` checks the proofs of a module whose name ends in `Proofs`.

## 1. Inventory

The repository is a teaching compiler at the stage where the straight-line
interpreter (lab 1) and the scanner (lab 2) are written, on top of a library of
symbols, tables and graphs that later stages are to use. Everything is sequential:
no thread, no message, nothing persistent. What is hard here is the state that one
call leaves for another, long after: the scanner's buffers, counters and line table
between two rules, the shape of a hash chain between two operations on a table, two
lists of an edge that must agree, tables handed from one recursive call to the next,
and who owns what is shared.

| Component | Code | State | Operations | What makes it correct | Hard |
|---|---|---|---|---|---|
| Scanner | `tiger/lex/tiger.lex`, `scanner.h`, driver `main/test_lex.cc` | start condition, `comment_level_`, `string_buf_`, `char_pos_`, the error object | one rule per match; `adjust`, `adjustStr`, `ifNewLine` | positions and lines of tokens and errors; text of strings; nesting of comments; exit status; ends | state that outlives a token; rules that forget to count |
| Error messages | `tiger/errormsg` | `tok_pos_`, `line_num_`, `line_pos_`, `any_errors_` | `Newline`, `Error` | a position is shown on its line and at its column | the backward walk over the line table |
| Tables | `tiger/util/table.h` | buckets of chained binders, `top_`, `prevtop` | `Enter`, `Look`, `Set`, `Pop`, `Dump` | a stack of bindings | shared chains; `Dump` takes the table apart and puts it back |
| Symbol tables | `tiger/symbol/symbol.h` | a table and its mark | `BeginScope`, `EndScope` and the above | nested scopes | `EndScope` stops at a mark among bindings |
| Symbols | `tiger/symbol/symbol.cc` | hash table of interned names | `UniqueSymbol` | one symbol per name, for ever | chains shared by names; symbols deleted elsewhere |
| Graphs | `tiger/util/graph.h` | nodes, `my_key_`, `succs_`, `preds_`, client lists | `NewNode`, `AddEdge`, `~Graph`, the list operations | sets of nodes and edges | mirrored lists, duplicates, reuse of addresses |
| Straight-line interpreter | `straightline/slp.{h,cc}`, `prog1.cc`, `test_slp.cc` | immutable tables, output | `Interp` and `MaxArgs` of each class | an assignment is seen by what follows it | tables threaded by hand |
| Abstract syntax | `tiger/absyn` | trees | constructors, destructors, `Print` | each node and symbol freed once; the text shows the tree, for graders compare texts | interned symbols are shared between nodes; some destructors delete nothing; each `Print` counts its own commas, parentheses and depth |
| Parser | `tiger/parse`, `main/test_parse.cc`, `main/test_semant.cc` | the scanner, its values, the pool of strings, the tree | `lex`, `error`, `parse`, transfers of ownership | leaves are their tokens; nothing read through a null pointer; exit status | values used after other tokens were read; ownership handed on; grammar without rules yet; not built |
| Runtime | `tiger/runtime/runtime.c` | heap, `consts`, input | strings, arrays, records, input | bounds; strings never written to | integer edges, sharing |

The scanner calls the error object (`Newline` and `Error`) and writes its `tok_pos_`
as a friend; the driver calls `lex()` and reads `matched()` and `GetTokPos()`. A
symbol table is a table whose keys are interned symbols, one of them the mark; a
graph's node tables are tables whose keys are nodes. The parser owns the scanner and
passes the error object on; `Parser::lex` interns identifiers and the tree's destructors
delete the symbols. A compiled program calls the runtime. The interpreter stands alone.

The hazards, each at its line with the properties that would show it, are listed in
`PROJECT.json`.

## 2. Modules

| Module | Models | Built on |
|---|---|---|
| `ErrorMsg` | `err::ErrorMsg` as a record, each method an operator | |
| `Scanner` | every rule of `tiger.lex`, the methods of `scanner.h`, the loop of `test_lex.cc` | `ErrorMsg` |
| `Env` | what a table promises: a stack of bindings | |
| `Table` | `tab::Table`; a refinement of `Env` | `Env` |
| `ScopedEnv` | what a symbol table promises: nested scopes | |
| `SymTable` | `sym::Table`; a refinement of `ScopedEnv` | `Table`, `ScopedEnv` |
| `Digraph` | what the graphs promise: nodes, keys, edges | |
| `Graph` | `graph::Graph`, `Node`, `NodeList`; a refinement of `Digraph` | `Digraph` |
| `Interning` | what `UniqueSymbol` promises: a growing injective map from names | |
| `Symbols` | `sym::Symbol::UniqueSymbol`; a refinement of `Interning` | `Interning` |
| `AbsynClasses` | the classes of `tiger/absyn` and the pointers their nodes hold | |
| `Absyn` | constructors and destructors of `tiger/absyn`, under the life `test_parse.cc` gives a tree | `Symbols`, `AbsynClasses` |
| `AbsynPrint` | `Print` of every class of `tiger/absyn` | `AbsynClasses` |
| `Parser` | `parser.h` between the scanner and `main` of `test_parse.cc` and `test_semant.cc` | `ErrorMsg` |
| `Strings` | what the runtime promises a program: strings are values | |
| `Runtime` | `runtime.c` under any program; a refinement of `Strings` | `Strings` |
| `Slp` | `Interp`, a step between two calls | |
| `SlpMeaning` | the meaning of a program by recursion on its tree; `MaxArgs` | `Slp` |
| `MCScanner`, `MCSymTable`, `MCGraph`, `MCAbsyn`, `MCPrint`, `MCParser`, `MCRuntime`, `MCSlp` | instances for TLC, with reference definitions | |
| `ScannerProofs`, `SymTableProofs` (also of `Table`), `GraphProofs`, `AbsynProofs` (also of `Symbols`), `AbsynPrintProofs`, `ParserProofs`, `RuntimeProofs`, `SlpProofs` | proofs | the modules they are named for |

A definition whose comment begins with "Slip" is a variant of the one below it, with a
plausible mistake in it. No specification uses it: `PROJECT.json` pairs it with a
property, which TLC finds violated when the slip takes the place of the original.

### Scanner and ErrorMsg

A character is its code and a file a sequence of them. One action is one match of one
rule with the whole of its code, in the order of the code: `adjust` is `Adjusted` and
`Adjust(n)`, `adjustStr` is `AdjustStr(n)`, `ifNewLine(i)` is `IfNewLine(i)`. flexc++
takes the longest match and then the earliest rule; the guards say which that is
(`Run`, `SymbolAhead`, `EscapeAhead`). The names of the start conditions are the code's.
A character no rule matches (a newline in a string, a lone character at a start
condition with no `.` for it) is copied to the output by flexc++ and runs no code of the
repository: `StrNewline`. `opened` is history, the offset at which `tok_pos_` was set;
`tokens` and `reports` are what was printed. `std::stoi` throws above `IntMax` and ends
the process (`aborted`). The file that cannot be opened is left out: no scanner exists
then.

### Tables and symbol tables

A bucket is the sequence of the binders on its chain. `Index` is the bucket of each
key, any function: the address of a key modulo `TABSIZE`. The null pointer has a bucket
too, which `Dump` reads on an empty table. `Dump` calls itself between the halves of its
work, so each half at each level is a step (`DumpDown`, `DumpUp`, `DumpBottom` for the
call that finds nothing) and `frames` holds the locals of the levels; `show` only
prints, so that no other operation runs during a `Dump`. `depth` and `entered` are
history. The asserts of `Pop` and `Dump` are not assumed: `PopTakesTop` and `DumpAssert`
say that they hold. `EndScope` is a step for each `Pop` of its loop; with no open scope
the loop reaches the assert of `Pop`, and the program dies (`aborted`).

### Graphs

Nodes and graphs are addresses. Destroying a graph frees its nodes' addresses, which
`NewNode` may use again for any graph. A client keeps lists, on which it calls every
`NodeList` operation; operands may be the lists of nodes and graphs as `Succ`, `Pred`,
`Nodes` and `Adj` return them, and may hold nodes since freed, which list operations
compare and do not read. The client does not write to the lists it gets from `Succ`,
`Pred` and `Nodes`. The asserts of `AddEdge` are guards. `asked` is history.

### Symbols and syntax trees

A symbol is its address, and a bucket the sequence of the symbols on its chain. `Index` is
the bucket of a name, any function: the one caller passes a `std::string`, whose text
ends with the NUL `Hash` stops at. Symbols are never taken off a chain.

A node is a record of its class and its pointers; `Params` has the pointers each
constructor takes, `Owners` the classes whose destructor deletes them. Each destructor
deletes the pointers of its node in the order of the constructor's parameters; `pending`
holds the `delete` expressions still to come, the next first. `Delete` is one of them,
`DeleteAgain` one that meets what is deleted already, after which anything may happen.
The grammar has only `program: exp` and `lvalue: ID` so far. In place of its actions,
`Absyn` takes any constructor whose arguments are the last values made, each used once,
as the actions of a bison grammar would; `Absent` is a part the program leaves out
(`else`, the types of a `var` and of a function's result, where `Print` looks for null).
The list classes and `ForExp` delete nothing, so what is below them outlives the tree,
and the destructors of declarations, types, and record fields, all of them members of
lists, never run for a tree that is destroyed at its root. Positions and the values of
leaves are left out.

### Printing

A node of `AbsynPrint` has its class, its pointers as in `Absyn`, and the one other thing
it holds (`leaf`). The nodes there are form a constant set, `Trees`, each made after its
parts (`Height`) and of parts that its constructor takes (`WellMade`), and `PrintNode` is
a recursive function on it; the text is a sequence of blanks, newlines, punctuation and
words. All `Print` methods but those of lists have one shape: the class, what is on its
line (`HeadWords`), and below it a line for each part, at a depth one more, with the operator
first and the escape last. An absent part prints nothing between its commas, except the
three in `Optional`, which are left out with theirs. Lists print as a list of the first
element and the rest, and close all at the end. A part that `Print` does not test for
null is never null in a tree made by the constructors' asserts and a parser's rules; with
one, the program would read through null. A word stands for any text that has none of
the other tokens in it: names always are of that kind, strings are not (a string with a
parenthesis prints like structure, and one with a NUL only up to it), which the hazards
list. So `Names`, the words that a leaf prints, has no punctuation in it
(`NamesAssumption`), and what is said of the text is said of trees without such strings.

### Parser

`Parser` takes from the scanner what `Scanner` shows of it: a file is a sequence of items,
of which some become tokens, some set the position and are passed over, and some are
reported or end the process. bisonc++ generates `parse`; any handle may be reduced at any
moment between two tokens, with the lookahead read or not, and any token may turn out
to be an error, so that every grammar's runs are among those of the model. `lex` puts a string in
`string_pool_` and hands out its address (`sval`), from which `StringExp` copies the text
when a rule makes it; `at` is history, the item a value came from. `Statements` is the
order of calls in the two programs, and `errormsgAt` and `treeAt` the holders of the two
`unique_ptr`s. The translator exists only as a call in `test_semant.cc`: it takes both
objects and may report an error.

### Runtime

A string is an object at an address: `consts`, `empty`, the literals of the program,
and what `malloc` returned. The program is external: it holds strings in variables and
calls any function with any of them; literals are objects it comes with. A call that
returns or prints ints leaves them in `answer`. `grade.sh` compiles the library without
optimization: sums of ints wrap, as the machine's do. Where the code then reads or
writes outside an object (a negative length passes the test of `substring`, as does a
sum that wraps; the length of a `concat` can wrap; `alloc_record` clears whole ints)
the process is `"undefined"`, and `Strings` says for which arguments, and for which
only. Blocks of arrays and records are what was put into them: nobody shares them
inside the library. `malloc` succeeds for lengths that are not negative.

### Straight-line programs

A tree is a record whose kind is its class and whose other fields are what the constructor
takes. `Trees` holds the trees there are and their parts, and `Height` says how deep each
is nested: a constructor takes objects that exist already, so that no tree is part of
itself. What the code computes by recursion over the classes is a recursive function on
`Trees`. A table is the sequence of its bindings.
An action is the part of one `Interp` method between two calls of others; a call whose
result is returned as it is replaces the caller's frame. Ints go up to `IntMax`; sums,
differences and products wrap, the outcome of the machine's instructions for what
the language leaves undefined, and division traps as the machine's does. A lookup in a
null table reads through the null pointer and the process dies (`crashed`); in a table
that lacks the name it reaches `assert(false)` (`aborted`).

The asserts are active in the builds the grading script and `make build-debug` make, which are the
ones modelled; a release build leaves them out, and a lookup of a name that is not in
the table then has no defined result.

## 3. Runs

| Run | Instance | States | Question |
|---|---|---|---|
| `Scanner` | all files of up to 5 characters over 7 that make tokens, of up to 7 over `/ * newline "`, of up to 6 over `" \ newline n a`, and strings with numeric escapes | 447 thousand | does the exit status tell the truth, are comments and strings right, are positions and lines off by no more than what the rules fail to count, and does the scan end? |
| `ScannerColumn` (violated) | comments | | is the column shown that of the line? |
| `ScannerEscape` (violated) | strings | | does the newline escape begin a line, as the lab's document says? |
| `SymTable` | a mark and 2 symbols on 2 buckets, 5 bindings | 49 thousand | is a table a stack of bindings, also amid a `Dump` or an `EndScope`, and a symbol table a stack of scopes? |
| `Graph` | 2 graphs, 3 node addresses, 2 edges, a list of 3, up to symmetry | 7 thousand | are graphs sets of nodes and edges, and lists as sets? |
| `GraphUnion` (violated) | the same | | is the union of two lists a set? |
| `Absyn` | 2 names on one bucket, 4 nodes, 4 values waiting, 29 of the 35 classes | 1.5 million | does each identifier get the one symbol of its name, and what does the end of a tree delete? |
| `Print` | expressions of all classes over small parts, lists of up to 2, declarations seven levels deep | 20 thousand | do two trees ever print alike, and is the text indented by its nesting? |
| `Parser` | both programs on all files of up to 4 items out of 10 | 2.7 million | has each leaf the text of its token, is everything held by who reads it, and does the status tell the truth? |
| `Runtime` | 2 variables, bytes 0 and 1, ints from -5 to 4, five of them passed, 6 string objects, up to symmetry | 31 thousand | are strings values, does each call check what it must, and what exactly is undefined? |
| `Slp` | the programs of `prog1.cc` and some thousand others, ints up to 2047 | 26 thousand | do the tables behave as one store, does a lookup fail only where the text says so, does a division trap only where its meaning does, is `MaxArgs` the width of the widest line? |
| `SlpAssert` (violated) | the same | | is an identifier that was assigned always found? |

The bounds. The scanner's rules look at most at four characters and its state between
rules is one start condition, one level and one buffer: seven characters hold two
nested comments with a newline, two strings, or a string with an ignore sequence and a
token after it. A symbol that shares its chain with the mark, and one with the null
pointer, give every relation between keys that `Table` compares; five bindings give a
binder hidden twice on a shared chain, and two scopes with a binding hidden in each.
The symbol table is the table with one key kept for the mark; its run checks the
properties of both. In a graph, two edges give an edge both ways and a loop with another
edge, and two graphs with three addresses give reuse. Four nodes give a tree
that owns a name twice along two paths (`a := a`), once under a list or a `for` and once
beside it, and a symbol both leaked and deleted; two names on one chain give a search
that passes a stranger. The six classes left out of `Absyn`'s instance have the shape of one
that is in. A `Print` method sees its own node and a depth: each class occurs with every
choice of absent parts, below others and above them, and lists of one and two elements
inside one another. Four items give a string read as lookahead while another waits on
the stack, and an error before, between and after tokens. Two values of a byte are enough for the runtime, which copies bytes; ints up to
4 let the length of two strings, and `first + n`, exceed the largest int within three
calls. `MaxDepth`, `MaxEdges`, `MaxLength`, `MaxNodes`, `MaxStack` and `MaxStrings` are
the only guards that the code does not have; where there are proofs, they hold for any
value of them.

Fairness. The scanner, a `Dump` and the loop of an `EndScope` are single sequential
computations: each has weak fairness on its own steps, since a process that can take a
step takes it. That the interpreter ends is no question, its trees being finite, and none
is assumed of it. Nothing is assumed about when, or whether, an
operation is called. No deadlock check is switched off: where the process has ended,
the specification stutters explicitly (`Ended`, the last disjuncts of `SymNext`,
`SlpNext`, `AbsynNext` and `RuntimeNext`; in `AbsynNext` also while parsing, since a program's
text may end anywhere; `Done` in `PrintNext` and `Ended` in `ParserNext`).

The passing runs check, beside types: `ExitStatus`, `CommentDepth`, `StringText`,
`PositionExact`, `LineTable`, `LineExact`, `LocationInFile` and `Terminates` of the
scanner; `ImplementsEnv`, `LookAgrees`, `PopTakesTop`,
`DumpAssert`, `DumpShowsAll` of tables, `ImplementsScopes` and `CallsReturn` of symbol
tables, whose lookups `LookAgrees` is about too; `ImplementsDigraph`,
`EdgesMirror`, `KeysNumber` and `ListsAsSets` of graphs; `StoreSemantics`,
`LookupsSucceed`, `WidestLine` and `TrapsAsMeant` of the interpreter;
`ImplementsInterning` of symbols, `OnlyKeepersLeak` and `SharedNamesBreak` of trees,
`NoTwoAlike` and `Indented` of their text; `LeavesAreTokens` and `EndsAsReported` of the
parser and its programs;
`ImplementsStrings`, `StringsNeverChange` and `StringsSound` of the runtime. The refinements
also relate each operation to the abstract operation of the same meaning, so that an
operation without effect does not pass for a stutter. `ImplementsEnv`, `ImplementsInterning`
and `ImplementsStrings` judge each call by itself: whatever step is a `Set` of a key, a
search for a name or a `substring` must be what that call promises with the arguments it
has, and is not excused by another call that would have had the same effect. For
interning the step judged is the parser's, which keeps the answer, so that a symbol found
again is judged like one made.

### Where the code and the repository disagree

- `ErrorMsg::Newline` enters the position of the current token for the line begun. For
  a newline inside a comment or an ignore sequence that is where the comment or the
  string began, and a column shown later counts from there (`ScannerColumn`). Lines are
  right all the same (`LineExact`).
- The rule for `\n` in a string means to begin a line, and asks `ifNewLine` about the
  backslash (`ScannerEscape`).
- `NodeList::Union` may repeat nodes (`GraphUnion`), and `DeleteNode` on its result then
  leaves the node in the list.
- `EseqExp` drops the table of its statement (`SlpAssert`): an assignment inside an
  expression is lost. With none there, the interpreter is right (`StoreSemantics`).

Two gaps of the scanner are no findings, no document being against them: a raw newline
in a string is not counted, nor is an illegal character in an ignore sequence.
`PositionExact` and `LineExact` say what they cost: positions and lines fall short by
what was not counted before them and by nothing else, and in a file without such
characters are exact. Likewise `SharedNamesBreak` states when the
destruction of a tree goes wrong: exactly when two owned nodes name the same thing, as
the left and right side of `a := a` do. No tree can be parsed yet (`exp` has no rule), and nothing that
is built destroys one. The undefined calls of the runtime are part of `Strings`.

## 4. Proofs

All are for any value of the constants, from the named assumptions on them, which TLC
evaluates in every run: keys and values are not the null pointer, `Index` maps keys to
buckets, files are sequences of bytes (of known items, in `Parser`), reserved words begin
with a letter, the parser's classes are those of `AbsynClasses`, a printed tree is made
after its parts and its names have no punctuation in them, and the like.

- `ScannerProofs`: `TypeOK`, `ExitStatus`, `PositionExact`, `LineTable`,
  `LocationInFile`, `LineExact`, `CommentDepth` and `StringText` always hold, which is all but the end of the scan. The inductive invariant
  `IInv` joins the first five with `InComment`, that the comment level is positive inside
  a comment, without which `--comment_level_` could leave the naturals. The line table is
  sorted because `tok_pos_` never decreases, so the position `Newline` pushes is at least
  the previous one; it ends in 0 and positions begin at 1, so the walk of `Error` always
  stops at an entry. For
  `PositionExact`, the characters not counted are what each step leaves between the cursor
  and `char_pos_` (`UncountedStep`), and a position taken later lags by no less
  (`LagStep`). For `LineExact`, every step is one of four moves of the cursor and the line table
  (`Begins`, `Continues`, `Slips`, `Stops`), and between steps no line begins at or after
  `char_pos_`, no token lies after the current one, and the current one is shown on the
  line it begins on: so a line entered later changes no line shown for a token before.
  For `CommentDepth`, a rule adds to the reading of the comment one delimiter or
  character (`OpenAtNext`) and to the level what that opens. For `StringText`, what the
  buffer holds and the text of what is still ahead make the text of the whole string
  (`InString`): each rule moves one piece of it from one to the other. Both are about the
  same moves of the cursor (`Views`), told apart by what they do to the start condition.
- `SymTableProofs`, about `Table`: `TableTypeOK`, `PopTakesTop`, `DumpAssert`, `LookAgrees`
  and `DumpShowsAll` always hold and the table implements `Env`. The inductive invariant
  `TInv` says that chain i holds exactly the binders entered, not popped and not held by
  a level of `Dump`, whose keys hash to i, the latest first; that each remembers the key
  entered before it; and that the levels of `Dump` hold the latest binders in order, each
  with the next one of its chain. From this the head of the chain of `top_` is the binder
  entered last, whatever shares the chain. The refinement follows since every binder is
  found by its depth; `ShownOK` adds that what `Dump` has shown are the binders its levels
  hold.
- `SymTableProofs`, about `SymTable`: a symbol table is a table (`SymTableIsTable`): every step of a
  symbol table is one of the table below it, or none. So the theorems about tables hold
  of symbol tables, and `EndScope` is a run of correct `Pop`s (`SymTableImplementsEnv`).
  It also implements `ScopedEnv`: the scopes are the bindings cut at the marks, counted
  by the marks before a place, and each operation does to the cut what it does to the
  scopes; the steps of an `EndScope` amid its loop are the stutters.
- `GraphProofs`: `GraphTypeOK`, `KeysNumber`, `EdgesMirror` and `ListsAsSets` always hold
  and the graphs implement `Digraph`. The three parts of `GInv` need one another: a new
  node is at a free address, whose lists are empty because an edge joins nodes that exist,
  and a destroyed graph frees exactly the nodes whose graph it is. For the lists, what
  `unique` and `Diff` leave is the list at a set of places (`Keeping`), counted by
  cardinality, and the first place of an element is always among those kept.
- `AbsynProofs`, about `Symbols`: what one `UniqueSymbol` does. `SInv` says that
  every symbol is on the chain of its name (so that a search that fails proves the name new)
  and that no name has two (so that what is found is what was found before).
- `AbsynProofs`, about `Absyn`: `AbsynTypeOK`, `OnlyKeepersLeak` and `SharedNamesBreak` always hold and
  the symbols the parser gets implement `Interning` (`ImplementsInterning`): each is the
  one of the name read, whether it was found or made. While the parser builds, every node is the
  value of one place: a pointer of one other node or the stack (`Forest`, `OnStack`). From
  this, once `main` deletes the root, a pointer is owed one `delete` for each time it was
  given away (`Owed`), which for a node is once, so that only a symbol can be deleted
  twice, and what is left over lies below a class that keeps.
- `AbsynPrintProofs`: `Indented` and `NoTwoAlike` always hold, of any trees of any depth.
  First, that `PrintNode` satisfies its equation, by well-founded recursion on `Height`
  (`Recursion`, `PrintNodeIs`). For `Indented`, each piece of a text is laid out as the
  depths before and after it say (`Laid`): at every position, as many parentheses are open as
  the depth, and a line that begins there has that many blanks and one. Pieces that
  meet at one depth make a piece (`LaidConcat`), so it is enough to look at those each
  `Print` writes itself, the parentheses at the end of a list among them, and to assume it of
  the parts (`LaidTrees`). For `NoTwoAlike`, the words of a text do not depend on the depth
  (`AlikeTrees`), and words that begin with those of a tree begin with those of no other
  (`Decodes`), which is more than the property says and what the parts need, since
  something follows them. By induction on height this is so of the lines below a
  class (`LinesDecoded`) and of the elements of a list, null ones included (`ItemsDecoded`).
  The first word gives the class (`KindOnce`), and the lines then give the parts: how
  many there are tells which optional ones are absent (`BelowOf`, `NodeSame`), while
  an absent part that prints as nothing leaves its comma. That comma is what a mutant
  takes away to find two trees that print alike.
- `ParserProofs`: `EndsAsReported` and `LeavesAreTokens` always hold. `PInv` ties the two
  holders of the error object and of the tree to the statement of `main` (`Hands`), so
  that nothing is read through a null pointer. `LInv` says that the values on the stack,
  in order, and the token read ahead stand for exactly the items scanned so far, and that
  each address points to the text of its own item, until a later `lex` makes another;
  a reduction regroups the leaves and changes neither their order nor their texts.
- `RuntimeProofs`: `RuntimeTypeOK`, `StringsSound`, `StringsNeverChange` always hold and
  the runtime implements `Strings`, for any width of ints. Types and soundness together
  are inductive. Every call leaves the objects there are as they are, so the text of a
  variable changes only when the variable does, which is what makes sharing invisible; the
  arithmetic of `Plus` shows that a sum that does not wrap is the sum, and one that
  does is negative.
- `SlpProofs`: `SlpTypeOK`, `StoreSemantics`, `LookupsSucceed` and `WidestLine` always
  hold, of any trees, which is all but `TrapsAsMeant`. That the recursive functions
  of `SlpMeaning` satisfy their equations is proved first (`Recursion`), by well-founded
  recursion on `Height`. Each of the three properties then has an invariant of one shape,
  about the activations that wait: whatever the innermost call leaves, each of them makes of
  it what its class would (`Chain`), and the outermost leaves in the end what the recursive
  function says of the whole program. For `StoreSemantics` what is left is the
  store, the output and the value; a table is as good as a store because no expression
  assigns, so that the older table `EseqExp` and `AssignStm` go back to stands for the
  same store. For `LookupsSucceed` it is the identifiers bound and those still missing, and
  for `WidestLine` the widest line printed and the numbers on the open one, of
  which there are none wherever a print statement is called.

The library's induction theorems take an operator, which the provers cannot instantiate;
where a proof goes by induction over numbers (the flattening of a sequence of sequences in
`ParserProofs` and `AbsynPrintProofs`, the text of a string in `ScannerProofs`), it does so over a set of numbers that has a least element,
and where it goes over trees, over the least height of a tree that lacks what is proved.

Only model-checked: liveness (`Terminates`, `CallsReturn`), since fairness and ENABLED are
beyond the prover; and `TrapsAsMeant`, whose proof would take the invariant of
`StoreSemantics` further, to the first division that fails. Every other property of a passing run is stated by a
theorem.

## 5. Plan

Done, in this order: scanner with the error object, tables, symbol tables, graphs, the
interpreter, the runtime, symbols with the life of syntax trees, their printing, the
parser between the scanner and its programs; and the proofs of the safety of all of these.

Next: the proof of `TrapsAsMeant`; and, when the source has them, the grammar beyond its two rules, and the stages after
parsing.

### Not modelled

The grading scripts, the build files and the Docker set-up keep no state of the
compiler; the test data are inputs. `Graph::Show` only formats keys. Of the parser, the
grammar beyond two rules does not exist, so `tiger/parse` is modelled in part and the
stages after parsing, of which `test_semant.cc` names the translator, only as a call. A
node table of `graph.h` is a `Table` whose keys are nodes; that its entries would outlive
a destroyed graph, whose addresses are reused, is a limit of its use, and nothing in the
source uses one.
