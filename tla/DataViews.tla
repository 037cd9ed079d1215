------------------------------ MODULE DataViews ------------------------------
(* packages/ui, data: the table (model.ts, createDataTable.svelte.ts,        *)
(* DataTable.svelte) and the virtual list (virtual.ts, VirtualList.svelte)   *)
(* over rows that the application replaces at any time.                      *)
(*                                                                           *)
(* A cell is a number, 0 for null: compareValues() is their difference, and  *)
(* a filter matches the cells that equal it.  The list's heights are small   *)
(* numbers of pixels; the browser keeps its own scroll position, which the   *)
(* component only learns from a scroll event.                                *)
EXTENDS Integers, FiniteSets, Sequences, SequencesExt

CONSTANTS
    Rows,
    Cell,           \* [Rows -> [Columns -> Nat]]
    Columns,
    Sortable,       \* the columns that are not `sortable: false`
    Filterable,
    Needles,        \* what may be searched; 0 is the empty filter
    RowHeight,
    ClientHeight,   \* of the list's viewport, once it is measured
    MaxItems,       \* bound: length of the list's data
    MaxPages        \* bound: the page and the page size the caller asks for

VARIABLES
    mounted,        \* "table" or "list"
    rows, tableState,
    count,          \* the list's items.length
    overscan, scrollTop, viewportHeight, focusIndex,
    position,       \* the browser's scroll offset
    followed        \* history: the last move was a key, not the wheel

tableVars == <<rows, tableState>>
listVars == <<count, overscan, scrollTop, viewportHeight, focusIndex, position, followed>>
vars == <<mounted, tableVars, listVars>>

Least(a, b) == IF a < b THEN a ELSE b
Most(a, b) == IF a < b THEN b ELSE a
Ceiling(a, b) == (a + b - 1) \div b

-------------------------------------------------------------------------------
(* model.ts.                                                                 *)
Unsorted == [column |-> "none", direction |-> "none"]

(* Any column that may be filtered holds the needle.                         *)
MatchesFilter(row, needle) == \E c \in Filterable : Cell[row][c] # 0 /\ Cell[row][c] = needle

Filtered(source, needle) ==
    IF needle = 0 THEN source
    ELSE LET hits == {i \in DOMAIN source : MatchesFilter(source[i], needle)}
             Hit(k) == CHOOSE i \in hits : Cardinality({j \in hits : j < i}) = k - 1
         IN [k \in 1..Cardinality(hits) |-> source[Hit(k)]]

(* Array.prototype.sort() is stable, and so are both directions.             *)
Sorted(found, sort) ==
    IF sort.column \notin Sortable THEN found
    ELSE LET sign == IF sort.direction = "asc" THEN 1 ELSE -1
             Compare(i, j) == sign * (Cell[found[i]][sort.column] - Cell[found[j]][sort.column])
             Before(i) == {j \in DOMAIN found : Compare(j, i) < 0 \/ (Compare(j, i) = 0 /\ j < i)}
             At(k) == CHOOSE i \in DOMAIN found : Cardinality(Before(i)) = k - 1
         IN [k \in DOMAIN found |-> found[At(k)]]

PageCount(n, size) == Most(1, Ceiling(n, size))

(* computeRows().                                                            *)
ComputeRows(source, s) ==
    LET all == Sorted(Filtered(source, s.filter), s.sort)
        n == Len(all)
    IN IF s.pageSize = 0
       THEN [rows |-> all, filteredCount |-> n, pageCount |-> 1, pageIndex |-> 0]
       ELSE LET pages == PageCount(n, s.pageSize)
                page == Least(s.pageIndex, pages - 1)
                start == page * s.pageSize
            IN [rows |-> SubSeq(all, start + 1, Least(n, start + s.pageSize)),
                filteredCount |-> n, pageCount |-> pages, pageIndex |-> page]

(* toggleSort(): none, ascending, descending, none.                          *)
NextSort(sort, c) ==
    IF sort.column # c THEN [column |-> c, direction |-> "asc"]
    ELSE IF sort.direction = "asc" THEN [column |-> c, direction |-> "desc"]
    ELSE Unsorted

(* DataTable.svelte: what a row's aria-rowindex says; the header is row 1.   *)
AriaRowIndex(k) == k + 1

-------------------------------------------------------------------------------
(* virtual.ts, computeVirtualWindow().                                       *)
TotalSize == count * RowHeight
FirstVisible == scrollTop \div RowHeight
(* A mistake: a row that is cut at both ends of the viewport is one too many. *)
LastCut == FirstVisible + Ceiling(viewportHeight, RowHeight) - 1
LastVisible == FirstVisible + Ceiling(viewportHeight, RowHeight)

ComputeVirtualWindow ==
    IF count = 0 \/ viewportHeight = 0 THEN {}
    ELSE Most(0, FirstVisible - overscan) .. Least(count - 1, LastVisible + overscan)

OffsetForIndex(index) == index * RowHeight

Clamp(n) == Least(count - 1, Most(0, n))
NextFocusIndex(key) ==
    LET pageRows == Most(1, viewportHeight \div RowHeight)
    IN CASE key = "ArrowDown" -> Clamp(focusIndex + 1)
         [] key = "ArrowUp" -> Clamp(focusIndex - 1)
         [] key = "PageDown" -> Clamp(focusIndex + pageRows)
         [] key = "PageUp" -> Clamp(focusIndex - pageRows)
         [] key = "Home" -> 0
         [] key = "End" -> count - 1

(* The browser never scrolls past the end of the spacer.                     *)
Scrollable(size) == Most(0, size - ClientHeight)

-------------------------------------------------------------------------------
Init ==
    /\ mounted \in {"table", "list"}
    /\ rows = <<>>
    /\ tableState = [sort |-> Unsorted, filter |-> 0, pageIndex |-> 0, pageSize |-> 0]
    /\ count = 0 /\ overscan \in {0, 1}
    /\ scrollTop = 0 /\ viewportHeight = 0 /\ focusIndex = 0
    /\ position = 0 /\ followed = FALSE

(* The store's and the component's reducers.                                 *)
InTable == mounted = "table" /\ UNCHANGED <<mounted, listVars>>

SetRows ==
    /\ InTable
    /\ \E s \in UNION {[1..n -> Rows] : n \in 0..Cardinality(Rows)} :
          Cardinality({s[i] : i \in DOMAIN s}) = Len(s) /\ rows' = s
    /\ UNCHANGED tableState

ToggleSort ==
    /\ InTable
    /\ \E c \in Columns :
          tableState' = [tableState EXCEPT !.sort = NextSort(@, c), !.pageIndex = 0]
    /\ UNCHANGED rows

SetFilter ==
    /\ InTable
    /\ \E needle \in Needles :
          tableState' = [tableState EXCEPT !.filter = needle, !.pageIndex = 0]
    /\ UNCHANGED rows

SetPageSize ==
    /\ InTable
    /\ \E size \in -1..MaxPages :
          tableState' = [tableState EXCEPT !.pageSize = Most(0, size), !.pageIndex = 0]
    /\ UNCHANGED rows

SetPageIndex ==
    /\ InTable
    /\ \E index \in -1..MaxPages : tableState' = [tableState EXCEPT !.pageIndex = Most(0, index)]
    /\ UNCHANGED rows

(* VirtualList.svelte.                                                       *)
InList == mounted = "list" /\ UNCHANGED <<mounted, tableVars, overscan>>

(* bind:clientHeight.                                                        *)
Measure ==
    /\ InList
    /\ viewportHeight' = ClientHeight
    /\ UNCHANGED <<count, scrollTop, focusIndex, position, followed>>

(* Other items: the spacer shrinks, and the browser's position with it.      *)
SetItems ==
    /\ InList
    /\ count' \in 0..MaxItems
    /\ position' = Least(position, Scrollable(count' * RowHeight))
    /\ followed' = FALSE
    /\ UNCHANGED <<scrollTop, viewportHeight, focusIndex>>

Wheel ==
    /\ InList
    /\ position' \in 0..Scrollable(TotalSize)
    /\ followed' = FALSE
    /\ UNCHANGED <<count, scrollTop, viewportHeight, focusIndex>>

(* onScroll().                                                               *)
OnScroll ==
    /\ InList
    /\ scrollTop # position
    /\ scrollTop' = position
    /\ UNCHANGED <<count, viewportHeight, focusIndex, position, followed>>

(* onKeydown(): the row goes to the top of the viewport.                     *)
OnKeydown ==
    /\ InList
    /\ count > 0
    /\ \E key \in {"ArrowDown", "ArrowUp", "PageDown", "PageUp", "Home", "End"} :
          /\ focusIndex' = NextFocusIndex(key)
          /\ position' = Least(OffsetForIndex(focusIndex'), Scrollable(TotalSize))
    /\ followed' = TRUE
    /\ UNCHANGED <<count, scrollTop, viewportHeight>>

Next ==
    \/ SetRows \/ ToggleSort \/ SetFilter \/ SetPageSize \/ SetPageIndex
    \/ Measure \/ SetItems \/ Wheel \/ OnScroll \/ OnKeydown

Spec == Init /\ [][Next]_vars

-------------------------------------------------------------------------------
TypeOK ==
    /\ rows \in Seq(Rows)
    /\ tableState.pageIndex \in Nat /\ tableState.pageSize \in Nat
    /\ focusIndex \in 0..MaxItems /\ position \in Nat /\ scrollTop \in Nat

(* Turning the pages shows every row that matches once, in the order asked   *)
(* for with equals as they came; the page on show is one of them, whatever   *)
(* became of the rows since it was chosen; on the first page a row's         *)
(* aria-rowindex is its place in the full data that aria-rowcount counts.    *)
Pages ==
    LET view == ComputeRows(rows, tableState)
    IN FlattenSeq([p \in 1..view.pageCount |->
                      ComputeRows(rows, [tableState EXCEPT !.pageIndex = p - 1]).rows])

InOrder(a, b) ==
    LET s == tableState.sort
        x == IF s.column \in Sortable THEN Cell[a][s.column] ELSE 0
        y == IF s.column \in Sortable THEN Cell[b][s.column] ELSE 0
        Place(r) == CHOOSE i \in DOMAIN rows : rows[i] = r
    IN IF x = y THEN Place(a) < Place(b) ELSE (x < y) = (s.direction = "asc")

TableIsWhole ==
    LET view == ComputeRows(rows, tableState)
        wanted == {rows[i] : i \in {j \in DOMAIN rows :
                      tableState.filter = 0 \/ MatchesFilter(rows[j], tableState.filter)}}
    IN /\ {Pages[i] : i \in DOMAIN Pages} = wanted
       /\ Len(Pages) = Cardinality(wanted) /\ view.filteredCount = Cardinality(wanted)
       /\ \A i, j \in DOMAIN Pages : i < j => InOrder(Pages[i], Pages[j])
       /\ view.rows = <<>> => wanted = {}
       /\ view.pageIndex = 0 =>
             \A k \in DOMAIN view.rows : Pages[AriaRowIndex(k) - 1] = view.rows[k]

(* When the component has heard of the last scroll, every row that is in the *)
(* viewport, even in part, is rendered, and a row reached with a key is one  *)
(* of them.                                                                  *)
InViewport(i) ==
    i * RowHeight < position + ClientHeight /\ (i + 1) * RowHeight > position

ListIsWhole ==
    (viewportHeight > 0 /\ scrollTop = position) =>
        /\ {i \in 0..(count - 1) : InViewport(i)} \subseteq ComputeVirtualWindow
        /\ followed => focusIndex \in ComputeVirtualWindow /\ InViewport(focusIndex)

ShowsEveryRow == IF mounted = "table" THEN TableIsWhole ELSE ListIsWhole
==============================================================================
