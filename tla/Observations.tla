------------------------------ MODULE Observations ------------------------------
(***************************************************************************)
(* What the courts read out of raw evidence: the kernel rows and dialogs   *)
(* of the oracle's accessibility tree, the rows of the candidate's dump,   *)
(* the exec chains of a transaction, the terminal-helper scenarios, and    *)
(* the machine residual.  Evidence is never edited, only read.             *)
(***************************************************************************)
EXTENDS Integers, Sequences
Seqs == INSTANCE SequencesExt

CONSTANTS
    Categories,         \* the category texts (KNOWN_CATEGORIES)
    VersionLike,        \* the texts with a digit and a dash, a dot or a marker
    MentionsKernels,    \* the texts with "kernel" or "pacman" in them
    Checkish,           \* the header texts that name a checkbox column
    Length(_),          \* of a text
    TreeDepth           \* a bound: how many levels an accessibility tree has

(* A node has a role, a name, a text, states and children; "" is no text.  *)
TreeRoles == {"65", "66", "TREE", "TREE_TABLE"}
RowRoles == {"90", "91", "TABLE_ROW", "TREE_ITEM", "ROW", "LIST_ITEM"}
CellRoles == {"56", "TABLE_CELL"}
HeaderRoles == {"57", "10", "TABLE_COLUMN_HEADER", "COLUMN_HEADER"}
DialogRoles == {"2", "16", "69", "ALERT", "DIALOG", "WINDOW"}

(* As SelectSeq, of which TLAPS knows no definition.                       *)
Kept(s, Test(_)) == Seqs!FoldLeft(LAMBDA kept, e : IF Test(e) THEN Append(kept, e) ELSE kept, << >>, s)

HasState(node, state) == state \in node.states
Texts(s) == Kept(s, LAMBDA t : t # "")
InRoles(children, roles) == Kept(children, LAMBDA c : c.role \in roles)

(* A node and what is below it, in the order of the document, down to so   *)
(* many levels: level by level, each node is followed by its children.     *)
Children(node) == node.children
On(node, level) == [node |-> node, level |-> level]
Descend(nodes, level, Below(_)) ==
    Seqs!FlattenSeq([i \in DOMAIN nodes |->
        IF nodes[i].level # level THEN <<nodes[i]>>
        ELSE <<nodes[i]>> \o [j \in DOMAIN Below(nodes[i].node) |-> On(Below(nodes[i].node)[j], level + 1)]])
Preorder(root, Below(_), depth) ==
    LET nodes == Seqs!FoldLeft(LAMBDA above, level : Descend(above, level, Below), <<On(root, 0)>>,
                               [level \in 1..depth |-> level - 1])
    IN  [i \in DOMAIN nodes |-> nodes[i].node]

(* The text of what is below a node, so many levels down.                  *)
GatherTexts(node, depth) ==
    LET nodes == Tail(Preorder(node, Children, depth))
    IN  Seqs!FlattenSeq([i \in DOMAIN nodes |-> Texts(<<nodes[i].name, nodes[i].text>>)])

(* The longest of some texts, the last one where several are.              *)
MostSpecific(texts) ==
    texts[Seqs!Max({i \in DOMAIN texts : \A j \in DOMAIN texts : Length(texts[j]) <= Length(texts[i])})]

(* A dialog counts when any text in or below it speaks of kernels.         *)
DialogsOf(node, known) ==
    LET texts == Texts(<<node.text, node.name>>) \o GatherTexts(node, 4)
    IN  IF /\ node.role \in DialogRoles
           /\ \E i \in DOMAIN texts : texts[i] \in MentionsKernels
           /\ ~Seqs!Contains(known, MostSpecific(texts))
        THEN <<MostSpecific(texts)>>
        ELSE << >>

(* Flat layout: the columns are those of the headers; without headers      *)
(* there are four, and the first is a checkbox if the first cell is one.   *)
ColumnLayout(tree, cells) ==
    LET headers == InRoles(tree.children, HeaderRoles)
    IN  IF headers # << >>
        THEN [hasCheckbox |-> headers[1].text \in Checkish \cup {""}, chunk |-> Len(headers)]
        ELSE [hasCheckbox |-> HasState(cells[1], "checkable"), chunk |-> 4]

(* A checkable cell begins a row, and what comes before the first of them  *)
(* is lost; where no cell is checkable the columns are counted off.        *)
FlatRows(cells, chunk) ==
    LET Place(rows, cell) ==
            IF HasState(cell, "checkable") THEN Append(rows, <<cell>>)
            ELSE IF rows # << >> /\ Len(Seqs!Last(rows)) < chunk
                 THEN Append(Seqs!Front(rows), Append(Seqs!Last(rows), cell))
                 ELSE rows
        rows == Seqs!FoldLeft(Place, << >>, cells)
        n == (Len(cells) + chunk - 1) \div chunk
    IN  IF rows # << >> THEN rows
        ELSE [i \in 1..n |-> SubSeq(cells, (i - 1) * chunk + 1, Seqs!Min({i * chunk, Len(cells)}))]

Row(raw, version, category, checked) ==
    [raw |-> raw, version |-> version, category |-> category, checked |-> checked]

NodeChecked(node) ==
    HasState(node, "checked") \/ \E i \in DOMAIN node.children : HasState(node.children[i], "checked")

RowFromFlat(cells, layout) ==
    LET data == IF layout.hasCheckbox THEN 2 ELSE 1
        Text(i) == IF i \in DOMAIN cells THEN cells[i].text ELSE ""
        Name(i) == IF i \in DOMAIN cells /\ cells[i].name # "" THEN cells[i].name ELSE Text(i)
        row == Row(Name(data), Text(data + 1), Text(data + 2),
                   layout.hasCheckbox /\ cells # << >> /\ NodeChecked(cells[1]))
    IN  IF row.raw = "" /\ row.version = "" /\ row.category = "" THEN << >> ELSE <<row>>

(* Nested layout: the texts of the row and of its cells other than a       *)
(* checkbox, in order; a cell's name only if no text says the same.        *)
CellTexts(node) ==
    LET Add(texts, child) ==
            IF child.role \in {"CHECK_BOX", "CHECKBOX"} THEN texts
            ELSE LET with == texts \o Texts(<<child.text>>)
                 IN  IF Seqs!Contains(with, child.name) THEN with ELSE with \o Texts(<<child.name>>)
    IN  Seqs!FoldLeft(Add, Texts(<<node.text>>), node.children)

(* ... and each text takes the first column it looks like.                 *)
RowFromNode(node) ==
    LET Take(row, t) ==
            CASE t \in VersionLike /\ row.version = "" -> [row EXCEPT !.version = t]
              [] ~(t \in VersionLike /\ row.version = "") /\ t \in Categories /\ row.category = "" ->
                    [row EXCEPT !.category = t]
              [] OTHER -> IF row.raw = "" THEN [row EXCEPT !.raw = t] ELSE row
    IN  IF CellTexts(node) = << >> THEN << >>
        ELSE <<Seqs!FoldLeft(Take, Row("", "", "", NodeChecked(node)), CellTexts(node))>>

(* What a node tells: the rows of a tree, and the text of a dialog.        *)
RowsOf(tree) ==
    LET cells == InRoles(tree.children, CellRoles)
        layout == ColumnLayout(tree, cells)
        flat == IF cells = << >> THEN << >>
                ELSE Seqs!FlattenSeq([i \in DOMAIN FlatRows(cells, layout.chunk) |->
                         RowFromFlat(FlatRows(cells, layout.chunk)[i], layout)])
        nested == InRoles(tree.children, RowRoles)
    IN  flat \o Seqs!FlattenSeq([i \in DOMAIN nested |-> RowFromNode(nested[i])])

CollectObservations(node, obs) ==
    LET isTree == node.role \in TreeRoles
    IN  [rows |-> obs.rows \o (IF isTree THEN RowsOf(node) ELSE << >>),
         dialogs |-> obs.dialogs \o DialogsOf(node, obs.dialogs)]

(* ... and every node that is not taken for a row, a cell or a header.     *)
NotInRows(node) ==
    IF node.role \in TreeRoles
    THEN Kept(node.children, LAMBDA c : c.role \notin RowRoles \cup CellRoles \cup HeaderRoles)
    ELSE node.children
OracleObservation(tree) ==
    Seqs!FoldLeft(LAMBDA obs, node : CollectObservations(node, obs), [rows |-> << >>, dialogs |-> << >>],
             Preorder(tree, NotInRows, TreeDepth))

(* The candidate's dump has its rows as they are.                          *)
CandidateObservation(state) == [rows |-> state.kernels, dialogs |-> << >>]

(***************************************************************************)
(* A transaction's exec chains.  An option is a set of at most one value.  *)
(* The oracle's null terminal reads as an empty argv, and the candidate's  *)
(* as none.                                                                *)
(***************************************************************************)
Null == "null"
OracleTransaction(t) ==
    [probes |-> t.probes, execs |-> t.execs,
     terminal |-> IF t.terminal = {Null} THEN {"empty argv"} ELSE t.terminal]
CandidateTransaction(t) ==
    [probes |-> t.probes, execs |-> t.commands, terminal |-> t.terminal \ {Null}]

(* Scenarios of the terminal-helper; a text of theirs is a sequence of     *)
(* pieces, and which temporary file it names does not count.               *)
CONSTANT TmpPaths
NormalizeTmpPaths(text) ==
    [i \in DOMAIN text |-> IF text[i] \in TmpPaths THEN "/tmp/tmp.X" ELSE text[i]]
TerminalMatrixObservation(scenarios) ==
    [i \in DOMAIN scenarios |-> [scenarios[i] EXCEPT !.stdout = NormalizeTmpPaths(@)]]

(* What a machine is compared by; one that lists no packages has no digest *)
(* and is as good as another that does not.                                *)
ResidualDigest(residual) ==
    IF residual.packages = {Null} THEN {<<"ERR", "no packages">>}
    ELSE {<<"pkg", p>> : p \in residual.packages} \cup {<<"db", d>> : d \in residual.syncDbs}
         \cup {<<"local", p>> : p \in residual.localDb}
==================================================================================
