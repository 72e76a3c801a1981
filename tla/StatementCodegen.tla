-------------------------- MODULE StatementCodegen --------------------------
(***************************************************************************)
(* Code generation for the statements of a procedure body: ir_gen_node and *)
(* ir_gen_statement.c.  The generator walks the tree once, appending       *)
(* instructions to basic blocks, and keeps compile-time stacks of pending  *)
(* defers, enclosing loops and scope depth.  `work' is its C recursion:    *)
(* what is still to be done, innermost first.                              *)
(*                                                                         *)
(* When the procedure is generated, the blocks are executed (the branches  *)
(* taken are chosen and recorded), and then the statement tree itself is   *)
(* interpreted with the same choices: what `defer', `break', `continue',   *)
(* `fallthrough' and `return' mean.  An expression is abstracted to a call *)
(* with an observable event, a condition to a choice.                      *)
(***************************************************************************)
EXTENDS Naturals, Sequences, SequencesExt

CONSTANTS
  Statements,    \* the statements of the bodies, nested ones included
  Bodies,        \* the procedure bodies: sequences of statements
  MaxLoopDepth,  \* MAX_LOOP_DEPTH (64)
  MaxDefers,     \* MAX_DEFERS (128)
  MaxChoices,    \* bound: conditions evaluated in one execution
  MaxEvents,     \* bound: calls of one execution, after which no block is begun
  NoBlock        \* a NULL LLVMBasicBlockRef

ASSUME LimitsAssumption ==
  /\ MaxLoopDepth \in Nat /\ MaxDefers \in Nat /\ MaxChoices \in Nat /\ MaxEvents \in Nat
  /\ NoBlock \notin Nat

\* A part of a statement: `{ ... }', or a single statement, after `do' or the
\* `if' of an `else if'.
IsPart(b) == b \in [single : BOOLEAN, list : Seq(Statements)] /\ (b.single => Len(b.list) = 1)

\* What the grammar says of a statement.  The head of a `for' is nothing, a
\* condition, or `init; condition; post'.  (An `#unroll' whose range is empty or
\* unknown is a "range".  The form `if x := e; c' is not here: in the ordered
\* choice of odin_grammar.gdl:574 `x' is taken for the whole condition.)
StatementOk(s) ==
  /\ s.op = "if" => IsPart(s.then) /\ (s.else = <<>> \/ IsPart(s.else[1]))
  /\ s.op \in {"for", "range", "unroll"} => IsPart(s.body)
  /\ s.op = "for" => s.head \in {"none", "cond", "clauses"}
  /\ s.op = "unroll" => s.count \in Nat \ {0}
  /\ s.op = "proc" => s.body \in Seq(Statements)
  /\ s.op = "switch" => s.cases \in Seq(Seq(Statements)) /\ s.default \in Seq(Seq(Statements))
ASSUME StatementsAssumption ==
  Bodies \subseteq Seq(Statements) /\ \A s \in Statements : StatementOk(s)

VARIABLES
  code,     \* the basic blocks, each the sequence of its instructions
  cur,      \* LLVMGetInsertBlock(ctx->builder)
  work,     \* the generator's remaining work
  defers,   \* ctx->defer_stack[0 .. defer_count-1]
  loops,    \* ctx->loop_stack[0 .. loop_depth-1]
  depth,    \* ctx->current_scope_depth
  fall,     \* ctx->fallthrough_target_bb
  procs,    \* the generated procedures: entry block and body
  gaps,     \* history: the blocks left open in front of an unrolled loop's end or
            \* a switch without cases
  lossy,    \* history: a construct was met that is generated wrongly
  phase,    \* "gen", "run", "ref", "done", "cut" (bound
            \* reached), "starved" (the interpretation lacks choices), "bad" (a NULL branch)
  at,       \* the block being executed
  fn,       \* the procedure being executed
  choices,  \* the conditions so far: TRUE or FALSE
  ran,      \* the events of the generated code
  refs,     \* the scopes of the interpretation, innermost last
  left,     \* the choices it has not used
  expected  \* its events

gvars == <<code, cur, work, defers, loops, depth, fall, procs, gaps, lossy>>
xvars == <<at, fn, choices, ran>>
rvars == <<refs, left, expected>>
vars  == <<gvars, phase, xvars, rvars>>

-----------------------------------------------------------------------------
(* Instructions and tasks.                                                 *)

CallTo(e)      == [i |-> "call", id |-> e]
Br(b)          == [i |-> "br", to |-> b]
CondBr(t, e)   == [i |-> "cond", yes |-> t, no |-> e]
Ret            == [i |-> "ret"]
IsTerminator(x) == x.i # "call"

ThinksClosed(c, b) == c[b] # <<>> /\ ~ IsTerminator(Last(c[b]))
\* The last instruction of the insert block, if any, is no terminator.
Open(c, b) == c[b] = <<>> \/ ~ IsTerminator(Last(c[b]))

Put(c, b, is)  == [c EXCEPT ![b] = @ \o is]

Gen(s)         == [do |-> "gen", stmt |-> s]
GenAll(ss)     == [k \in DOMAIN ss |-> Gen(ss[k])]
BrIfOpen(b)    == [do |-> "brIfOpen", to |-> b]
Position(b)    == [do |-> "position", to |-> b]
Branch(b)      == [do |-> "branch", to |-> b]
CondBranch(y, n) == [do |-> "condBranch", yes |-> y, no |-> n]
Todo(what)     == [do |-> what]
BeginCase(c, miss, next) == [do |-> "beginCase", case |-> c, miss |-> miss, next |-> next]
EndCase(b, isDefault) == [do |-> "endCase", end |-> b, isDefault |-> isDefault]

\* ir_gen_node of a CompoundStatement.
Compound(ss) == <<Todo("open")>> \o GenAll(ss) \o <<Todo("close")>>
\* A single statement opens no scope of its own.
Part(b) == IF b.single THEN GenAll(b.list) ELSE Compound(b.list)

Task     == Head(work)
Stmt     == Task.stmt
AtStmt(op) == phase = "gen" /\ work # <<>> /\ Task.do = "gen" /\ Stmt.op = op
AtTask(do) == phase = "gen" /\ work # <<>> /\ Task.do = do
Then(tasks) == work' = tasks \o Tail(work)

Ids(ds) == [k \in DOMAIN ds |-> CallTo(ds[k].id)]
OldestFirst(ds) == Ids(ds)
\* Deferred statements are generated from the top of the stack down.
Emitted(ds) == Ids(Reverse(ds))

\* The compaction of the stack: the pending defers whose depth is in D, in order.
DefersIn(D) ==
  LET kept[read \in 0 .. Len(defers)] ==
        IF read = 0 THEN <<>>
        ELSE IF defers[read].depth \in D THEN Append(kept[read - 1], defers[read]) ELSE kept[read - 1]
  IN  kept[Len(defers)]
DefersAt(d)    == DefersIn({d})
DefersNotAt(d) == DefersIn({x \in Nat : x # d})
DefersFrom(d)  == DefersIn({x \in Nat : x >= d})
DefersBelow(d) == DefersIn({x \in Nat : x < d})

\* How many scopes the work closes before its k-th task.
Closed(k) == Cardinality({j \in 1 .. k - 1 : work[j].do \in {"close", "endCase"}})
\* The depth of the scope in which the work comes to a new block.  After an exit
\* the rest of its own block is dead, but later blocks are not: they need the
\* pending defers of that scope and of those around it.
JoinDepth ==
  LET joins == {k \in DOMAIN work : work[k].do = "position"}
  IN  IF joins = {} THEN 0 ELSE depth - Closed(Min(joins))

-----------------------------------------------------------------------------
(* Simple statements.                                                      *)

GenCall ==
  /\ AtStmt("call")
  /\ code' = Put(code, cur, <<CallTo(Stmt.id)>>)
  /\ Then(<<>>)
  /\ UNCHANGED <<cur, defers, loops, depth, fall, procs, gaps, lossy, phase, xvars, rvars>>

\* AST_NODE_DEFER_STATEMENT: nothing is generated; a full stack drops it, and
\* after a `do' it belongs to the scope around.
GenDefer ==
  /\ AtStmt("defer")
  /\ defers' = IF Len(defers) < MaxDefers THEN Append(defers, [id |-> Stmt.id, depth |-> depth]) ELSE defers
  /\ lossy' = (lossy \/ Len(defers) >= MaxDefers \/ JoinDepth = depth)
  /\ Then(<<>>)
  /\ UNCHANGED <<code, cur, loops, depth, fall, procs, gaps, phase, xvars, rvars>>

\* ir_gen_return_statement: ir_gen_emit_all_defers empties the stack.
GenReturn ==
  /\ AtStmt("return")
  /\ code' = Put(code, cur, Emitted(defers) \o <<Ret>>)
  /\ defers' = <<>>
  /\ lossy' = (lossy \/ \E k \in DOMAIN defers : defers[k].depth <= JoinDepth)
  /\ Then(<<>>)
  /\ UNCHANGED <<cur, loops, depth, fall, procs, gaps, phase, xvars, rvars>>

\* ir_gen_or_return_expression: a conditional return inside a scope.
GenOrReturn ==
  /\ AtStmt("orreturn")
  /\ LET ret  == Len(code) + 1
         cont == Len(code) + 2
     IN  /\ code' = Put(code, cur, <<CondBr(ret, cont)>>) \o <<Emitted(defers) \o <<Ret>>, <<>>>>
         /\ cur' = cont
  /\ defers' = <<>>
  /\ lossy' = (lossy \/ defers # <<>>)
  /\ Then(<<>>)
  /\ UNCHANGED <<loops, depth, fall, procs, gaps, phase, xvars, rvars>>

\* AST_NODE_BREAK_STATEMENT and AST_NODE_CONTINUE_STATEMENT: the defers inside
\* the loop body are generated and taken off the stack.  A switch has no
\* continue block: LLVMBuildBr of NULL.  In an unrolled loop both go to its end.
Leave(to, wrong) ==
  LET min == Last(loops).depth + 1
  IN  IF to = NoBlock
        THEN phase' = "bad" /\ UNCHANGED <<code, defers, lossy>>
        ELSE /\ code' = Put(code, cur, Emitted(DefersFrom(min)) \o <<Br(to)>>)
             /\ defers' = DefersBelow(min)
             /\ lossy' = (lossy \/ wrong \/ \E k \in DOMAIN defers : min <= defers[k].depth
                                                                 /\ defers[k].depth <= JoinDepth)
             /\ UNCHANGED phase

GenBreak ==
  /\ AtStmt("break")
  /\ IF loops = <<>> THEN UNCHANGED <<code, defers, lossy, phase>> ELSE Leave(Last(loops).brk, FALSE)
  /\ Then(<<>>)
  /\ UNCHANGED <<cur, loops, depth, fall, procs, gaps, xvars, rvars>>

GenContinue ==
  /\ AtStmt("continue")
  /\ IF loops = <<>> THEN UNCHANGED <<code, defers, lossy, phase>>
     ELSE Leave(Last(loops).cont, Last(loops).cont = Last(loops).brk)
  /\ Then(<<>>)
  /\ UNCHANGED <<cur, loops, depth, fall, procs, gaps, xvars, rvars>>

\* Can a fallthrough here be right: in a case that has a next, with no defer pending
\* in it?
FallsThrough ==
  LET ends == {k \in DOMAIN work : work[k].do = "endCase"}
  IN  /\ ends # {} /\ ~ work[Min(ends)].isDefault
      /\ \A k \in DOMAIN defers : defers[k].depth < depth - Closed(Min(ends))

\* AST_NODE_FALLTHROUGH_STATEMENT: no defer is generated.
GenFallthrough ==
  /\ AtStmt("fallthrough")
  /\ code' = IF fall = NoBlock THEN code ELSE Put(code, cur, <<Br(fall)>>)
  /\ lossy' = (lossy \/ fall = NoBlock \/ ~ FallsThrough)
  /\ Then(<<>>)
  /\ UNCHANGED <<cur, defers, loops, depth, fall, procs, gaps, phase, xvars, rvars>>

-----------------------------------------------------------------------------
(* Scopes, conditionals, loops, switches.                                  *)

DepthNotRaised ==
  /\ AtTask("open")
  /\ Then(<<>>)
  /\ UNCHANGED <<code, cur, defers, loops, depth, fall, procs, gaps, lossy, phase, xvars, rvars>>
OpenScope ==
  /\ AtTask("open")
  /\ depth' = depth + 1
  /\ Then(<<>>)
  /\ UNCHANGED <<code, cur, defers, loops, fall, procs, gaps, lossy, phase, xvars, rvars>>

ForgetsToCompact ==
  /\ AtTask("close")
  /\ code' = Put(code, cur, Emitted(DefersAt(depth)))
  /\ depth' = depth - 1
  /\ Then(<<>>)
  /\ UNCHANGED <<cur, defers, loops, fall, procs, gaps, lossy, phase, xvars, rvars>>
\* The end of a compound statement: ir_gen_emit_defers_at_depth.
CloseScope ==
  /\ AtTask("close")
  /\ code' = Put(code, cur, Emitted(DefersAt(depth)))
  /\ defers' = DefersNotAt(depth)
  /\ depth' = depth - 1
  /\ Then(<<>>)
  /\ UNCHANGED <<cur, loops, fall, procs, gaps, lossy, phase, xvars, rvars>>

\* ir_gen_if_statement
GenIf ==
  /\ AtStmt("if")
  /\ LET n     == Len(code)
         yes   == n + 1
         merge == n + 2
         no    == IF Stmt.else = <<>> THEN merge ELSE n + 3
     IN  /\ code' = Put(code, cur, <<CondBr(yes, no)>>) \o
                      (IF Stmt.else = <<>> THEN <<<<>>, <<>>>> ELSE <<<<>>, <<>>, <<>>>>)
         /\ cur' = yes
         /\ Then(Part(Stmt.then) \o <<BrIfOpen(merge)>> \o
                 (IF Stmt.else = <<>> THEN <<>>
                  ELSE <<Position(no)>> \o Part(Stmt.else[1]) \o <<BrIfOpen(merge)>>) \o
                 <<Position(merge)>>)
  /\ UNCHANGED <<defers, loops, depth, fall, procs, gaps, lossy, phase, xvars, rvars>>

PushLoop(cont, brk) ==
  loops' = IF Len(loops) < MaxLoopDepth
             THEN Append(loops, [cont |-> cont, brk |-> brk, depth |-> depth]) ELSE loops

\* A full stack: the entry is dropped, but popped with the others.
TooDeep == Len(loops) >= MaxLoopDepth

\* ir_gen_for_statement: the LAST child that is no compound statement is taken for
\* the condition.  Without one, or if it has no value, the loop is endless; of
\* `init; condition; post' only the last is generated, if it has a value or not.
GenFor ==
  /\ AtStmt("for") /\ ~ Stmt.body.single
  /\ LET cond == Len(code) + 1
         body == Len(code) + 2
         end  == Len(code) + 3
     IN  /\ \E value \in (IF Stmt.head = "clauses" THEN BOOLEAN ELSE {Stmt.head = "cond"}) :
              code' = Put(code, cur, <<Br(cond)>>) \o
                        <<<<IF value THEN CondBr(body, end) ELSE Br(body)>>, <<>>, <<>>>>
         /\ PushLoop(cond, end)
         /\ cur' = body
         /\ Then(Part(Stmt.body) \o <<BrIfOpen(cond), Todo("popLoop"), Position(end)>>)
  /\ lossy' = (lossy \/ TooDeep \/ Stmt.head = "clauses")
  /\ UNCHANGED <<defers, depth, fall, procs, gaps, phase, xvars, rvars>>

\* The same with a `do' body: now that statement is the last child, and the
\* condition; a call may have a value, no other statement has.
GenForDo ==
  /\ AtStmt("for") /\ Stmt.body.single
  /\ LET cond == Len(code) + 1
         body == Len(code) + 2
         end  == Len(code) + 3
     IN  /\ code' = Put(code, cur, <<Br(cond)>>) \o <<<<>>, <<>>, <<>>>>
         /\ PushLoop(cond, end)
         /\ cur' = cond
         /\ \E value \in (IF Stmt.body.list[1].op = "call" THEN BOOLEAN ELSE {FALSE}) :
              /\ lossy' = (lossy \/ TooDeep \/ Stmt.head # "none" \/ value)
              /\ Then(GenAll(Stmt.body.list) \o
                      <<IF value THEN CondBranch(body, end) ELSE Branch(body), Position(body),
                        BrIfOpen(cond), Todo("popLoop"), Position(end)>>)
  /\ UNCHANGED <<defers, depth, fall, procs, gaps, phase, xvars, rvars>>

\* ir_gen_for_range_runtime: continue goes to the increment block.
GenRange ==
  /\ AtStmt("range")
  /\ LET cond == Len(code) + 1
         body == Len(code) + 2
         inc  == Len(code) + 3
         end  == Len(code) + 4
     IN  /\ code' = Put(code, cur, <<Br(cond)>>) \o <<<<CondBr(body, end)>>, <<>>, <<>>, <<>>>>
         /\ PushLoop(inc, end)
         /\ cur' = body
         /\ Then(Part(Stmt.body) \o <<BrIfOpen(inc), Position(inc), Branch(cond), Todo("popLoop"), Position(end)>>)
  /\ lossy' = (lossy \/ TooDeep)
  /\ UNCHANGED <<defers, depth, fall, procs, gaps, phase, xvars, rvars>>

\* ir_gen_unrolled_for_range: the body Stmt.count times; break and continue go
\* to the end block, which nothing else branches to, the last copy neither.
GenUnroll ==
  /\ AtStmt("unroll")
  /\ LET end == Len(code) + 1
     IN  /\ code' = Append(code, <<>>)
         /\ PushLoop(end, end)
         /\ Then(FlattenSeq([k \in 1 .. Stmt.count |-> Part(Stmt.body)]) \o
                 <<Todo("lastCopy"), Todo("popLoop"), Position(end)>>)
  /\ lossy' = (lossy \/ TooDeep)
  /\ UNCHANGED <<cur, defers, depth, fall, procs, gaps, phase, xvars, rvars>>

\* ir_gen_switch_statement: blocks n+1 .. n+c for the cases, then one for each
\* miss but the last, the default if any, and the end.  Without cases nothing
\* branches to the default or the end.
GenSwitch ==
  /\ AtStmt("switch") /\ Stmt.tag
  /\ LET n == Len(code)
         c == Len(Stmt.cases)
         default == n + (IF c = 0 THEN 1 ELSE 2 * c)
         end     == IF Stmt.default = <<>> THEN default ELSE default + 1
         miss(k) == IF k < c THEN n + c + k ELSE IF Stmt.default = <<>> THEN end ELSE default
         next(k) == IF k < c THEN n + k + 1 ELSE IF Stmt.default = <<>> THEN end ELSE default
         branch(k) == <<BeginCase(n + k, miss(k), next(k))>> \o GenAll(Stmt.cases[k])
                        \o <<EndCase(end, FALSE)>> \o (IF k < c THEN <<Position(miss(k))>> ELSE <<>>)
     IN  /\ code' = code \o [k \in 1 .. end - n |-> <<>>]
         /\ PushLoop(NoBlock, end)
         /\ Then(FlattenSeq([k \in 1 .. c |-> branch(k)]) \o
                 (IF Stmt.default = <<>> THEN <<>>
                  ELSE <<Position(default), Todo("open")>> \o GenAll(Stmt.default[1]) \o <<EndCase(end, TRUE)>>) \o
                 <<Todo("popLoop"), Position(end)>>)
         /\ gaps' = IF c = 0 THEN gaps \cup {cur} ELSE gaps
  /\ lossy' = (lossy \/ TooDeep)
  /\ UNCHANGED <<cur, defers, depth, fall, procs, phase, xvars, rvars>>

\* A switch without an expression is dropped.
GenTaglessSwitch ==
  /\ AtStmt("switch") /\ ~ Stmt.tag
  /\ lossy' = TRUE
  /\ Then(<<>>)
  /\ UNCHANGED <<code, cur, defers, loops, depth, fall, procs, gaps, phase, xvars, rvars>>

\* The compare of one case, and the start of its body.
BeginCaseBody ==
  /\ AtTask("beginCase")
  /\ code' = Put(code, cur, <<CondBr(Task.case, Task.miss)>>)
  /\ cur' = Task.case
  /\ fall' = Task.next
  /\ depth' = depth + 1
  /\ Then(<<>>)
  /\ UNCHANGED <<defers, loops, procs, gaps, lossy, phase, xvars, rvars>>

KeepsFallthrough ==
  /\ AtTask("endCase")
  /\ code' = Put(code, cur, Emitted(DefersAt(depth)) \o (IF Open(code, cur) THEN <<Br(Task.end)>> ELSE <<>>))
  /\ defers' = DefersNotAt(depth)
  /\ depth' = depth - 1
  /\ Then(<<>>)
  /\ UNCHANGED <<cur, loops, fall, procs, gaps, lossy, phase, xvars, rvars>>
EndCaseBody ==
  /\ AtTask("endCase")
  /\ code' = Put(code, cur, Emitted(DefersAt(depth)) \o (IF Open(code, cur) THEN <<Br(Task.end)>> ELSE <<>>))
  /\ defers' = DefersNotAt(depth)
  /\ depth' = depth - 1
  /\ fall' = IF Task.isDefault THEN fall ELSE NoBlock
  /\ Then(<<>>)
  /\ UNCHANGED <<cur, loops, procs, gaps, lossy, phase, xvars, rvars>>

\* Steps between the parts of a statement.
Glue ==
  /\ \/ /\ AtTask("brIfOpen")
        /\ code' = IF Open(code, cur) THEN Put(code, cur, <<Br(Task.to)>>) ELSE code
        /\ UNCHANGED <<cur, loops, gaps>>
     \/ AtTask("branch") /\ code' = Put(code, cur, <<Br(Task.to)>>) /\ UNCHANGED <<cur, loops, gaps>>
     \/ /\ AtTask("condBranch")
        /\ code' = Put(code, cur, <<CondBr(Task.yes, Task.no)>>)
        /\ UNCHANGED <<cur, loops, gaps>>
     \/ AtTask("position") /\ cur' = Task.to /\ UNCHANGED <<code, loops, gaps>>
     \/ /\ AtTask("lastCopy")
        /\ gaps' = IF Open(code, cur) THEN gaps \cup {cur} ELSE gaps
        /\ UNCHANGED <<code, cur, loops>>
     \/ /\ AtTask("popLoop")
        /\ loops' = IF loops = <<>> THEN loops ELSE Front(loops)
        /\ UNCHANGED <<code, cur, gaps>>
  /\ Then(<<>>)
  /\ UNCHANGED <<defers, depth, fall, procs, lossy, phase, xvars, rvars>>

\* ir_gen_nested_procedure_decl: a new entry block; the stacks of the enclosing
\* procedure stay as they are.
GenProc ==
  /\ AtStmt("proc")
  /\ code' = Append(code, <<>>) /\ cur' = Len(code) + 1
  /\ procs' = Append(procs, [entry |-> Len(code) + 1, body |-> Stmt.body])
  /\ lossy' = (lossy \/ defers # <<>> \/ loops # <<>>)
  /\ Then(Compound(Stmt.body) \o <<Todo("endProc"), Position(cur)>>)
  /\ UNCHANGED <<defers, loops, depth, fall, gaps, phase, xvars, rvars>>

\* The end of a procedure, nested or not: the implicit return.
EndProc ==
  /\ AtTask("endProc")
  /\ IF Open(code, cur)
       THEN /\ code' = Put(code, cur, Emitted(DefersAt(depth)) \o <<Ret>>)
            /\ defers' = DefersNotAt(depth)
       ELSE UNCHANGED <<code, defers>>
  /\ Then(<<>>)
  /\ UNCHANGED <<cur, loops, depth, fall, procs, gaps, lossy, phase, xvars, rvars>>

-----------------------------------------------------------------------------
(* Executing what was generated.                                           *)

Start ==
  /\ phase = "gen" /\ work = <<>>
  /\ \E p \in DOMAIN procs : fn' = p /\ at' = procs[p].entry
  /\ phase' = "run"
  /\ UNCHANGED <<gvars, choices, ran, rvars>>

\* The bound on the events: a loop may be endless.
StopRun ==
  /\ phase = "run" /\ Len(ran) >= MaxEvents
  /\ phase' = "cut"
  /\ UNCHANGED <<gvars, xvars, rvars>>

\* One basic block, up to its first terminator.
Ends(b) == {k \in DOMAIN code[b] : IsTerminator(code[b][k])}
RunBlock ==
  /\ phase = "run" /\ Ends(at) # {} /\ Len(ran) < MaxEvents
  /\ LET k == CHOOSE x \in Ends(at) : \A y \in Ends(at) : x <= y
         t == code[at][k]
     IN  /\ ran' = ran \o [x \in 1 .. k - 1 |-> code[at][x].id]
         /\ \/ t.i = "br" /\ at' = t.to /\ UNCHANGED <<phase, choices, rvars>>
            \/ /\ t.i = "cond" /\ Len(choices) < MaxChoices
               /\ \E b \in BOOLEAN : choices' = Append(choices, b) /\ at' = (IF b THEN t.yes ELSE t.no)
               /\ UNCHANGED <<phase, rvars>>
            \/ /\ t.i = "cond" /\ Len(choices) = MaxChoices
               /\ phase' = "cut" /\ UNCHANGED <<at, choices, rvars>>
            \/ /\ t.i = "ret" /\ phase' = "ref"
               /\ refs' = <<[kind |-> "proc", rest |-> procs[fn].body, again |-> <<>>, defers |-> <<>>]>>
               /\ left' = choices
               /\ UNCHANGED <<at, choices, expected>>
  /\ UNCHANGED <<gvars, fn>>

-----------------------------------------------------------------------------
(* What the statements mean: scopes run their defers, newest first, however *)
(* they are left.                                                          *)

TopScope == Last(refs)
Scope(kind, ss, again) == [kind |-> kind, rest |-> ss, again |-> again, defers |-> <<>>]
AtRef(op) == phase = "ref" /\ TopScope.rest # <<>> /\ Head(TopScope.rest).op = op
RefStmt   == Head(TopScope.rest)
\* The scopes, with the innermost one past its first statement.
Past      == [refs EXCEPT ![Len(refs)].rest = Tail(@)]

\* Leaving the scopes from the k-th inwards.
Leaving(k) == FlattenSeq([x \in 1 .. Len(refs) + 1 - k |-> Reverse(refs[Len(refs) + 1 - x].defers)])
Innermost(kinds) == CHOOSE k \in DOMAIN refs : refs[k].kind \in kinds
                      /\ \A x \in k + 1 .. Len(refs) : refs[x].kind \notin kinds
Outside(k) == SubSeq(refs, 1, k - 1)

Loops == {"loop", "forever", "unroll"}
\* The next turn of the loop that is the k-th scope, after its body.
NextTurn(k) ==
  LET s == refs[k]
  IN  CASE s.kind = "loop" /\ left # <<>> ->
             /\ left' = Tail(left)
             /\ refs' = IF Head(left) THEN Append(Outside(k), Scope("loop", s.again, s.again)) ELSE Outside(k)
             /\ UNCHANGED phase
        [] s.kind = "forever" /\ Len(expected) < MaxEvents ->
             /\ refs' = Append(Outside(k), Scope("forever", s.again, s.again))
             /\ UNCHANGED <<phase, left>>
        [] s.kind = "unroll" ->
             /\ refs' = IF s.again = <<>> THEN Outside(k)
                        ELSE Append(Outside(k), Scope("unroll", Head(s.again), Tail(s.again)))
             /\ UNCHANGED <<phase, left>>
        [] OTHER -> phase' = "starved" /\ UNCHANGED <<refs, left>>

RefEnd ==
  /\ phase = "ref" /\ TopScope.rest = <<>>
  /\ expected' = expected \o Leaving(Len(refs))
  /\ CASE TopScope.kind = "proc" -> phase' = "done" /\ UNCHANGED <<refs, left>>
       [] TopScope.kind \in Loops -> NextTurn(Len(refs))
       [] OTHER -> refs' = Front(refs) /\ UNCHANGED <<phase, left>>
  /\ UNCHANGED <<gvars, xvars>>

RefSimple ==
  /\ \/ /\ AtRef("call") /\ expected' = Append(expected, RefStmt.id) /\ refs' = Past
     \/ /\ AtRef("defer") /\ expected' = expected
        /\ refs' = [Past EXCEPT ![Len(refs)].defers = Append(@, RefStmt.id)]
     \/ AtRef("proc") /\ refs' = Past /\ expected' = expected
     \/ /\ AtRef("unroll") /\ expected' = expected
        /\ refs' = Append(Past, Scope("unroll", RefStmt.body.list,
                                      [k \in 1 .. RefStmt.count - 1 |-> RefStmt.body.list]))
     \/ /\ AtRef("for") /\ RefStmt.head = "none" /\ expected' = expected
        /\ refs' = Append(Past, Scope("forever", RefStmt.body.list, RefStmt.body.list))
  /\ UNCHANGED <<gvars, phase, xvars, left>>

\* The scope a statement with a condition enters: none or one.
Entered(s) ==
  CASE s.op = "if" /\ Head(left) -> <<Scope("block", s.then.list, <<>>)>>
    [] s.op = "if" /\ ~ Head(left) -> IF s.else = <<>> THEN <<>> ELSE <<Scope("block", s.else[1].list, <<>>)>>
    [] s.op \in {"for", "range"} -> IF Head(left) THEN <<Scope("loop", s.body.list, s.body.list)>> ELSE <<>>

RefCondition ==
  /\ AtRef("if") \/ AtRef("range") \/ (AtRef("for") /\ RefStmt.head # "none")
  /\ IF left = <<>> THEN phase' = "starved" /\ UNCHANGED <<refs, left>>
     ELSE /\ refs' = Past \o Entered(RefStmt)
          /\ left' = Tail(left) /\ UNCHANGED phase
  /\ UNCHANGED <<gvars, xvars, expected>>

RefSwitch ==
  /\ AtRef("switch")
  /\ LET s    == RefStmt
         c    == Len(s.cases)
         hits == {k \in 1 .. c : k <= Len(left) /\ left[k]}
         bodies == s.cases \o s.default
         hit  == IF hits = {} THEN c + 1 ELSE CHOOSE k \in hits : \A x \in hits : k <= x
         used == IF hit <= c THEN hit ELSE c
     IN  IF used > Len(left) THEN phase' = "starved" /\ UNCHANGED <<refs, left>>
         ELSE /\ left' = SubSeq(left, used + 1, Len(left))
              /\ refs' = IF hit > Len(bodies) THEN Past
                         ELSE Append(Past, Scope("case", bodies[hit], SubSeq(bodies, hit + 1, Len(bodies))))
              /\ UNCHANGED phase
  /\ UNCHANGED <<gvars, xvars, expected>>

RefReturn ==
  /\ \/ AtRef("return") /\ left' = left
     \/ AtRef("orreturn") /\ left # <<>> /\ Head(left) /\ left' = Tail(left)
  /\ expected' = expected \o Leaving(1)
  /\ phase' = "done"
  /\ UNCHANGED <<gvars, xvars, refs>>

RefNoReturn ==
  /\ AtRef("orreturn")
  /\ \/ left = <<>> /\ phase' = "starved" /\ UNCHANGED <<refs, left>>
     \/ left # <<>> /\ ~ Head(left) /\ left' = Tail(left) /\ refs' = Past /\ UNCHANGED phase
  /\ UNCHANGED <<gvars, xvars, expected>>

RefBreak ==
  /\ AtRef("break")
  /\ LET k == Innermost(Loops \cup {"case"})
     IN  expected' = expected \o Leaving(k) /\ refs' = Outside(k)
  /\ UNCHANGED <<gvars, phase, xvars, left>>

RefContinue ==
  /\ AtRef("continue")
  /\ LET k == Innermost(Loops)
     IN  expected' = expected \o Leaving(k) /\ NextTurn(k)
  /\ UNCHANGED <<gvars, xvars>>

RefFallthrough ==
  /\ AtRef("fallthrough")
  /\ LET k == Innermost({"case"})
         s == refs[k]
     IN  /\ expected' = expected \o Leaving(k)
         /\ refs' = IF s.again = <<>> THEN Outside(k)
                    ELSE Append(Outside(k), Scope("case", Head(s.again), Tail(s.again)))
  /\ UNCHANGED <<gvars, phase, xvars, left>>

-----------------------------------------------------------------------------
Init ==
  /\ \E b \in Bodies : /\ procs = <<[entry |-> 1, body |-> b]>>
                       /\ work = Compound(b) \o <<Todo("endProc")>>
  /\ code = <<<<>>>> /\ cur = 1
  /\ defers = <<>> /\ loops = <<>> /\ depth = 0 /\ fall = NoBlock
  /\ gaps = {} /\ lossy = FALSE /\ phase = "gen"
  /\ at = 1 /\ fn = 1 /\ choices = <<>> /\ ran = <<>>
  /\ refs = <<>> /\ left = <<>> /\ expected = <<>>

Generate ==
  \/ GenCall \/ GenDefer \/ GenReturn \/ GenOrReturn \/ GenBreak \/ GenContinue \/ GenFallthrough
  \/ OpenScope \/ CloseScope \/ GenIf \/ GenFor \/ GenForDo \/ GenRange \/ GenUnroll \/ GenSwitch \/ GenTaglessSwitch
  \/ BeginCaseBody \/ EndCaseBody \/ Glue \/ GenProc \/ EndProc
Execute   == Start \/ RunBlock \/ StopRun
Interpret == \/ RefEnd \/ RefSimple \/ RefCondition \/ RefSwitch \/ RefReturn \/ RefNoReturn
             \/ RefBreak \/ RefContinue \/ RefFallthrough
Next == Generate \/ Execute \/ Interpret
Spec == Init /\ [][Next]_vars

-----------------------------------------------------------------------------
(* Properties.                                                             *)

\* Types; every recorded or emitted branch target is a block that exists.
TypeOK ==
  /\ cur \in DOMAIN code
  /\ depth \in Nat /\ fall \in DOMAIN code \cup {NoBlock}
  /\ \A k \in DOMAIN defers : defers[k].depth \in Nat
  /\ \A k \in DOMAIN loops : loops[k].depth \in Nat /\ loops[k].brk \in DOMAIN code
  /\ \A b \in DOMAIN code : \A k \in DOMAIN code[b] :
       LET x == code[b][k]
       IN  /\ x.i \in {"call", "br", "cond", "ret"}
           /\ x.i = "br" => x.to \in DOMAIN code
           /\ x.i = "cond" => x.yes \in DOMAIN code /\ x.no \in DOMAIN code
  /\ gaps \subseteq Nat /\ lossy \in BOOLEAN
  /\ phase \in {"gen", "run", "ref", "done", "cut", "bad", "starved"}

\* The compile-time stacks follow the nesting of the source: pending defers
\* lie in scope order, none deeper than the open scope, so that taking them
\* from the top runs inner scopes first, and the entries of the enclosing loops
\* lie in scope order too, so that break, which takes the defers above its entry's
\* depth, takes none of an outer loop's body.
StacksFollowNesting ==
  /\ \A j, k \in DOMAIN defers : j <= k => defers[j].depth <= defers[k].depth
  /\ \A k \in DOMAIN defers : defers[k].depth <= depth
  /\ \A j, k \in DOMAIN loops : j < k => loops[j].depth <= loops[k].depth
  /\ Len(loops) <= MaxLoopDepth

\* When a procedure has been generated the stacks are empty again, whatever
\* exits it contains: nothing of it leaks into the next procedure.
StacksEmptyAtEnd ==
  phase # "gen" /\ phase # "bad" => defers = <<>> /\ loops = <<>> /\ depth = 0 /\ fall = NoBlock

\* The generated code does what the source says, defers included, whenever
\* generation met none of the constructs it gets wrong (README, section 6): an exit
\* that takes defers off the stack which later blocks need, a fallthrough past
\* pending defers or without a next case, a defer after `do', a nested procedure
\* under pending defers or in a loop, a `for' with clauses or with a `do' body,
\* `continue' in an unrolled loop, a switch without a tag, and full stacks.
SemanticsKept == phase \in {"done", "starved"} /\ ~ lossy => phase = "done" /\ ran = expected /\ left = <<>>

\* Every block that is executed ends in a branch or a return, or the assembler
\* would not accept it: but for the two the generator forgets, where the last
\* copy of an unrolled loop comes to its end, and in front of a switch without
\* cases.
NeverStuck == phase = "run" /\ Ends(at) = {} => at \in gaps

-----------------------------------------------------------------------------
(* Refuted statement of the repository.                                    *)

\* roadmap.md: deferred actions "execute in reverse order on scope exit (block
\* end) and on function exit (return / end)".
DefersRunOnEveryExit == phase \in {"done", "starved"} => ran = expected

=============================================================================
