-------------------------- MODULE FixupStringRules --------------------------
(***************************************************************************)
(* The string rules of fixupNode: ToPrimitive, ToString, fixupMakeRope,    *)
(* and the string attempts of ValueAdd (attemptToMakeFastStringAdd,        *)
(* convertStringAddUse, createToString).                                   *)
(***************************************************************************)
EXTENDS FixupGraph

CanOptimizeStringObjectAccess(S, n) == stringObjectSane[S.nodes[n].codeOrigin]

\* fixupToPrimitive(node)
FixupToPrimitive(S, n) ==
    LET p == ChildPrediction(S, n, 1) IN
    IF isInt32Speculation(p)
    THEN SetOp(SetUseKindAndUnboxIfProfitable(S, n, 1, "Int32Use"), n, "Identity")
    ELSE IF isStringSpeculation(p)
    THEN SetOp(SetUseKindAndUnboxIfProfitable(S, n, 1, "StringUse"), n, "Identity")
    ELSE IF isStringObjectSpeculation(p) /\ CanOptimizeStringObjectAccess(S, n)
    THEN SetOp(SetUseKindAndUnboxIfProfitable(S, n, 1, "StringObjectUse"),
               n, "ToString")
    ELSE IF isStringOrStringObjectSpeculation(p)
            /\ CanOptimizeStringObjectAccess(S, n)
    THEN SetOp(SetUseKindAndUnboxIfProfitable(S, n, 1, "StringOrStringObjectUse"),
               n, "ToString")
    ELSE S

\* fixupToString(node)
FixupToString(S, n) ==
    LET p == ChildPrediction(S, n, 1) IN
    IF isStringSpeculation(p)
    THEN SetOp(SetUseKindAndUnboxIfProfitable(S, n, 1, "StringUse"), n, "Identity")
    ELSE IF isStringObjectSpeculation(p) /\ CanOptimizeStringObjectAccess(S, n)
    THEN SetUseKindAndUnboxIfProfitable(S, n, 1, "StringObjectUse")
    ELSE IF isStringOrStringObjectSpeculation(p)
            /\ CanOptimizeStringObjectAccess(S, n)
    THEN SetUseKindAndUnboxIfProfitable(S, n, 1, "StringOrStringObjectUse")
    ELSE IF isCellSpeculation(p)
    THEN SetUseKindAndUnboxIfProfitable(S, n, 1, "CellUse")
    ELSE S

\* The child edges of node n with the one at i removed (removeEdge(i)).
RemoveEdge(S, n, i) ==
    [S EXCEPT !.nodes[n].children =
        [k \in 1..Len(@) - 1 |-> IF k < i THEN @[k] ELSE @[k + 1]]]

IsEmptyStringConstant(S, m) ==
    S.nodes[m].op = "JSConstant" /\ S.nodes[m].emptyString

\* Fault variant: the "!i && !node->child2()" guard is dropped.
RECURSIVE RopeLoopNoGuard(_, _, _)
RopeLoopNoGuard(S, n, i) ==
    IF i >= 3 \/ i >= Len(S.nodes[n].children) THEN S
    ELSE LET T == [S EXCEPT !.nodes[n].children[i + 1].useKind = "KnownStringUse"]
         IN  IF ~IsEmptyStringConstant(T, ChildNode(T, n, i + 1))
             THEN RopeLoopNoGuard(T, n, i + 1)
             ELSE RopeLoopNoGuard(RemoveEdge(T, n, i + 1), n, i)

\* The loop of fixupMakeRope from index i (0-based), as the code runs it:
\* after removeEdge(i--) the loop's ++i revisits the same index.
RECURSIVE RopeLoop(_, _, _)
RopeLoop(S, n, i) ==
    IF i >= 3 \/ i >= Len(S.nodes[n].children) THEN S
    ELSE LET T == [S EXCEPT !.nodes[n].children[i + 1].useKind = "KnownStringUse"]
         IN  IF ~IsEmptyStringConstant(T, ChildNode(T, n, i + 1))
             THEN RopeLoop(T, n, i + 1)
             ELSE IF i = 0 /\ Len(T.nodes[n].children) < 2 THEN T
             ELSE RopeLoop(RemoveEdge(T, n, i + 1), n, i)

\* fixupMakeRope(node): a rope left with one child becomes an Identity.
FixupMakeRope(S, n) ==
    LET T == RopeLoop(S, n, 0) IN
    IF Len(T.nodes[n].children) < 2 THEN SetOp(T, n, "Identity") ELSE T

\* createToString<useKind>: edge i of n now reads a new ToString of it.
CreateToString(S, n, i, useKind, pos) ==
    [InsertNode(S, pos, NewNode("ToString", <<[node |-> ChildNode(S, n, i),
                                               useKind |-> useKind]>>,
                                {"String"}, S.nodes[n].codeOrigin))
        EXCEPT !.nodes[n].children[i].node = Len(S.nodes) + 1]

\* Fault variant: a StringUse operand is marked known without its check.
ConvertStringAddUseNoPhantom(S, n, i, useKind, pos) ==
    LET T == ObserveUseKindOnNode(S, ChildNode(S, n, i), useKind) IN
    IF useKind = "StringUse"
    THEN [T EXCEPT !.nodes[n].children[i].useKind = "KnownStringUse"]
    ELSE CreateToString(T, n, i, useKind, pos)

\* convertStringAddUse<useKind>(node, edge i)
ConvertStringAddUse(S, n, i, useKind, pos) ==
    LET c == ChildNode(S, n, i)
        T == ObserveUseKindOnNode(S, c, useKind)
    IN  IF useKind = "StringUse"
        THEN [InsertNode(T, pos, NewNode("Phantom",
                                         <<[node |-> c, useKind |-> "StringUse"]>>,
                                         {}, S.nodes[n].codeOrigin))
                 EXCEPT !.nodes[n].children[i].useKind = "KnownStringUse"]
        ELSE CreateToString(T, n, i, useKind, pos)

\* The "something weird" operand r: MakeRope(@l, ToString(ToPrimitive(@r))).
ToStringOfToPrimitive(S, n, r, pos) ==
    LET tp  == Len(S.nodes) + 1
        ts  == Len(S.nodes) + 2
        o   == S.nodes[n].codeOrigin
        S1  == InsertNode(S, pos, NewNode("ToPrimitive",
                   <<[node |-> ChildNode(S, n, r), useKind |-> "UntypedUse"]>>,
                   ResultOfToPrimitive(ChildPrediction(S, n, r)), o))
        S2  == InsertNode(S1, pos, NewNode("ToString",
                   <<[node |-> tp, useKind |-> "UntypedUse"]>>, {"String"}, o))
        S3  == FixupToString(FixupToPrimitive(S2, tp), ts)
    IN  [S3 EXCEPT !.nodes[n].children[r].node = ts]

\* convertToMakeRope: the ValueAdd becomes a MakeRope, fixed up at once.
ConvertToMakeRope(S, n) == FixupMakeRope(SetOp(S, n, "MakeRope"), n)

\* Fault variant: the other operand r is converted before the checks on l.
AttemptToMakeFastStringAddRightFirst(S, n, l, r, leftUseKind, pos) ==
    LET origL == ChildNode(S, n, l)
        origR == ChildNode(S, n, r)
        S1 == ToStringOfToPrimitive(S, n, r, pos)
        S2 == ConvertStringAddUse(S1, n, l, leftUseKind, pos)
        S3 == InsertNode(S2, pos, NewNode("Phantom",
                   <<[node |-> origL, useKind |-> "UntypedUse"],
                     [node |-> origR, useKind |-> "UntypedUse"]>>,
                   {}, S.nodes[n].codeOrigin))
    IN  ConvertToMakeRope(S3, n)

\* attemptToMakeFastStringAdd<leftUseKind>(node, l, r), past its early
\* return (which ValueAddRule tests before calling it).
AttemptToMakeFastStringAdd(S, n, l, r, leftUseKind, pos) ==
    LET origL == ChildNode(S, n, l)
        origR == ChildNode(S, n, r)
        S1 == ConvertStringAddUse(S, n, l, leftUseKind, pos)
        p  == ChildPrediction(S1, n, r)
        S2 == IF isStringSpeculation(p)
              THEN ConvertStringAddUse(S1, n, r, "StringUse", pos)
              ELSE IF isStringObjectSpeculation(p)
                      /\ CanOptimizeStringObjectAccess(S1, n)
              THEN ConvertStringAddUse(S1, n, r, "StringObjectUse", pos)
              ELSE IF isStringOrStringObjectSpeculation(p)
                      /\ CanOptimizeStringObjectAccess(S1, n)
              THEN ConvertStringAddUse(S1, n, r, "StringOrStringObjectUse", pos)
              ELSE ToStringOfToPrimitive(S1, n, r, pos)
        S3 == InsertNode(S2, pos, NewNode("Phantom",
                   <<[node |-> origL, useKind |-> "UntypedUse"],
                     [node |-> origR, useKind |-> "UntypedUse"]>>,
                   {}, S.nodes[n].codeOrigin))
    IN  ConvertToMakeRope(S3, n)

-----------------------------------------------------------------------------
(* Properties of the string rules.                                         *)

\* UseKinds that make the consumer check its input (the Known* ones and    *)
\* UntypedUse check nothing).
CheckingUseKinds ==
    UseKinds \ {"UntypedUse", "KnownInt32Use", "KnownNumberUse",
                "KnownCellUse", "KnownStringUse"}

\* The producers the ValueAdd at m read when the phase started.
OriginalOperands(m) == {Program[m].args[k] : k \in 1..2}

\* Node c was created for m and type-checks one of m's original operands.
IsOperandCheck(c, m) ==
    /\ c # m
    /\ nodes[c].codeOrigin = m
    /\ Program[m].op = "ValueAdd"
    /\ \E k \in DOMAIN nodes[c].children :
          /\ nodes[c].children[k].node \in OriginalOperands(m)
          /\ nodes[c].children[k].useKind \in CheckingUseKinds

(* spec.md 4.7 and the comment in attemptToMakeFastStringAdd: "we need to  *)
(* do all relevant type checks on @left before we do anything to @right,  *)
(* since ToPrimitive may be effectful".  In every flushed block, a generic *)
(* ToPrimitive created for a string add comes after every node that type-  *)
(* checks an operand of that add.                                          *)
StringChecksPrecedeToPrimitive ==
    \A b \in DOMAIN blocks : \A i, j \in DOMAIN blocks[b] :
       LET t == blocks[b][j] IN
       (/\ nodes[t].op = "ToPrimitive"
        /\ IsOperandCheck(blocks[b][i], nodes[t].codeOrigin))
          => i < j

\* Nodes whose result is a string whatever they read (the model's constants
\* are string constants).
ProducesString(p) ==
    \/ nodes[p].op \in {"ToString", "MakeRope", "JSConstant"}
    \/ /\ nodes[p].op = "Identity"
       /\ nodes[p].children[1].useKind \in {"StringUse", "KnownStringUse"}

(* A KnownStringUse edge promises that the value was proven a string       *)
(* upstream (spec.md glossary, Known* UseKinds): when run() returns, every *)
(* such edge reads a node that produces a string, or a node that an       *)
(* earlier node of the same block checks with StringUse.  MakeRope and    *)
(* the ValueAdd rewrite rely on the Phantom that convertStringAddUse       *)
(* inserts for this.                                                       *)
KnownStringEstablished ==
    phase = "Done" =>
      \A b \in DOMAIN blocks : \A j \in DOMAIN blocks[b] :
        \A k \in DOMAIN nodes[blocks[b][j]].children :
          LET e == nodes[blocks[b][j]].children[k] IN
          e.useKind = "KnownStringUse" =>
             \/ ProducesString(e.node)
             \/ \E i \in 1..(j - 1) :
                  \E q \in DOMAIN nodes[blocks[b][i]].children :
                     nodes[blocks[b][i]].children[q] =
                        [node |-> e.node, useKind |-> "StringUse"]

\* The reference definition of what fixupMakeRope keeps of children cs: the
\* children that are not empty-string constants, or the last child when all
\* of them are.
RopeReference(cs) ==
    LET NonEmpty(m) == ~(Program[m].op = "JSConstant" /\ nodes[m].emptyString)
        keep == SelectSeq(cs, NonEmpty)
    IN  IF keep # <<>> THEN keep ELSE <<cs[Len(cs)]>>

(* The loop of fixupMakeRope, which removes edges while it walks them with *)
(* an unsigned index (removeEdge(i--)), keeps exactly the reference        *)
(* children of every MakeRope of the program, never zero of them, and the *)
(* node stays a MakeRope exactly when two or more remain.                  *)
RopeMatchesReference ==
    phase = "Done" =>
      \A m \in DOMAIN Program :
        Program[m].op = "MakeRope" =>
          LET ref == RopeReference(Program[m].args) IN
          /\ [k \in DOMAIN nodes[m].children |-> nodes[m].children[k].node] = ref
          /\ (nodes[m].op = "MakeRope") = (Len(ref) >= 2)

=============================================================================
