----------------------------- MODULE DisplayPlan -----------------------------
(***************************************************************************)
(* The passes that turn the difference between the pending frame and the   *)
(* last one into drawing operations (display-plan.c, display-plan-rect.c,  *)
(* display-plan-search.c, display-plan-combine.c).                         *)
(*                                                                         *)
(* layers is a function from layers to their state, an order is one of the *)
(* display's lists of layers.  A plan is                                   *)
(*   ops      the operations, one per changed cell, in the order of cells  *)
(*   related  for every cell <<layer, column, row>> the index of its       *)
(*            operation in ops, or 0 (cell->related_op)                    *)
(*   dirty    pending_frame.dirty of every layer, as the draft leaves it   *)
(* Times of frames and the choice of an image format are left out.         *)
(***************************************************************************)
EXTENDS GuacCommon, Sequences, FiniteSets, SequencesExt, FiniteSetsExt

CONSTANTS CellSize,            \* GUAC_DISPLAY_CELL_SIZE
          CombinedSize,        \* 1 << GUAC_DISPLAY_MAX_COMBINED_SIZE
          BaseCost,            \* GUAC_DISPLAY_BASE_COST
          DataFactor,          \* GUAC_DISPLAY_DATA_FACTOR
          NegligibleSize,      \* GUAC_DISPLAY_NEGLIGIBLE_WIDTH and _HEIGHT
          NegligibleIncrease,  \* GUAC_DISPLAY_NEGLIGIBLE_INCREASE
          IndexSize            \* GUAC_DISPLAY_PLAN_OPERATION_INDEX_SIZE

ASSUME PlanAssumption ==
  {CellSize, CombinedSize, BaseCost, DataFactor, NegligibleSize,
   NegligibleIncrease, IndexSize} \subseteq Nat \ {0}

IMG  == "IMG"
COPY == "COPY"
RECT == "RECT"
NOP  == "NOP"

CellDimension(pixels) == (pixels + CellSize - 1) \div CellSize

\* The cells of a grid, row by row.
Grid(width, height) ==
  [i \in 1 .. width * height |-> <<(i - 1) % width, (i - 1) \div width>>]

-----------------------------------------------------------------------------
(* The draft: one image per cell with changes *)

Span(columns, y) ==
  guac_rect_init(Min(columns), y, Max(columns) - Min(columns) + 1, 1)

\* What is marked dirty of row y of a cell between left and right: the columns the
\* last frame did not have, and from the first to the last difference in the others
\* (guac_display_memcmp()).
RowSpans(layer, left, right, y) ==
  LET known == IF y >= layer.last.height THEN left
               ELSE Max({left, Min({right, layer.last.width})})
      differing == {x \in left .. known - 1 :
                      layer.pending.buffer[<<x, y>>] # layer.last.buffer[<<x, y>>]}
  IN  (IF known < right THEN {Span(known .. right - 1, y)} ELSE {}) \cup
      (IF differing # {} THEN {Span(differing, y)} ELSE {})

DirtyRegion(layer) ==
  guac_rect_constrain(guac_rect_align(layer.pending.dirty, CellSize),
                      guac_rect_init(0, 0, layer.pending.width, layer.pending.height))

Hull(rects) ==
  IF rects = {} THEN NoRect
  ELSE [left  |-> Min({r.left : r \in rects}),  top    |-> Min({r.top : r \in rects}),
        right |-> Max({r.right : r \in rects}), bottom |-> Max({r.bottom : r \in rects})]

CellSpans(layer, col, row) ==
  LET region == DirtyRegion(layer)
      cell == guac_rect_constrain(
                guac_rect_init(col * CellSize, row * CellSize, CellSize, CellSize),
                region)
  IN  IF guac_rect_is_empty(layer.pending.dirty) \/ guac_rect_is_empty(cell) THEN {}
      ELSE UNION {RowSpans(layer, cell.left, cell.right, y) :
                    y \in cell.top .. cell.bottom - 1}

NewOp(l, spans) ==
  [layer |-> l, type |-> IMG, dest |-> Hull(spans),
   dirty_size |-> MapThenSumSet(guac_rect_width, spans),
   from |-> l, src |-> NoRect, color |-> 0]

\* PFW_LFR_guac_display_plan_create()
Draft(layers, order) ==
  LET cells == FlattenSeq([i \in DOMAIN order |->
                 LET p == layers[order[i]].pending
                     grid == Grid(CellDimension(p.width), CellDimension(p.height))
                 IN  [j \in DOMAIN grid |-> <<order[i]>> \o grid[j]]])
      spans == [c \in ToSet(cells) |-> CellSpans(layers[c[1]], c[2], c[3])]
      dirty == SelectSeq(cells, LAMBDA c : spans[c] # {})
  IN  [ops     |-> [i \in DOMAIN dirty |-> NewOp(dirty[i][1], spans[dirty[i]])],
       related |-> [c \in ToSet(cells) |->
                      IF spans[c] = {} THEN 0
                      ELSE CHOOSE i \in DOMAIN dirty : dirty[i] = c],
       dirty   |-> [l \in ToSet(order) |->
                      Hull({Hull(spans[c]) : c \in {d \in ToSet(dirty) : d[1] = l}})]]

-----------------------------------------------------------------------------
(* Images of a single colour become rectangles *)

Colors(buffer, r) == {buffer[p] : p \in PixelsOf(r)}

PFR_guac_display_plan_rewrite_as_rects(layers, plan) ==
  LET rewritten(op) ==
        LET colors == Colors(layers[op.layer].pending.buffer, op.dest)
        IN  IF op.type = IMG /\ Cardinality(colors) = 1
            THEN [op EXCEPT !.type = RECT, !.color = CHOOSE c \in colors : TRUE]
            ELSE op
  IN  [plan EXCEPT !.ops = [i \in DOMAIN @ |-> rewritten(@[i])]]

-----------------------------------------------------------------------------
(* Images found in the last frame become copies *)

CellAt(x, y) ==
  guac_rect_init((x \div CellSize) * CellSize, (y \div CellSize) * CellSize,
                 CellSize, CellSize)

\* The rolling hash of a cell, here weak enough that different cells share it.
Hash(buffer, r) == FoldSet(LAMBDA p, n : n + buffer[p], 0, PixelsOf(r))
Slot(hash) == hash % IndexSize

NoEntry == [hash |-> 0, op |-> 0]

guac_display_plan_store_indexed_op(index, hash, i) ==
  IF index[Slot(hash)] = NoEntry
  THEN [index EXCEPT ![Slot(hash)] = [hash |-> hash, op |-> i]]
  ELSE index

\* PFR_guac_display_plan_index_dirty_cells(): only images of cells that lie wholly
\* within their layer.
Indexed(layers, plan) ==
  LET add(index, i) ==
        LET op == plan.ops[i]
            pending == layers[op.layer].pending
            cell == CellAt(op.dest.left, op.dest.top)
        IN  IF op.type = IMG /\ cell.right <= pending.width /\ cell.bottom <= pending.height
            THEN guac_display_plan_store_indexed_op(index, Hash(pending.buffer, cell), i)
            ELSE index
  IN  FoldLeft(add, [s \in 0 .. IndexSize - 1 |-> NoEntry],
               [i \in DOMAIN plan.ops |-> i])

SameImage(bufferA, a, bufferB, b) ==
  \A x \in 0 .. CellSize - 1, y \in 0 .. CellSize - 1 :
    bufferA[<<a.left + x, a.top + y>>] = bufferB[<<b.left + x, b.top + y>>]

\* PFR_LFR_guac_display_plan_find_copies(), for the place at (x, y) of the last frame
\* of layer l.  The operation leaves the index though the images may differ.
MutantFindCopy(layers, l, found, x, y) ==
  LET src == guac_rect_init(x, y, CellSize, CellSize)
      hash == Hash(layers[l].last.buffer, src)
      entry == found.index[Slot(hash)]
      op == found.ops[entry.op]
      dest == CellAt(op.dest.left, op.dest.top)
  IN  IF entry = NoEntry \/ entry.hash # hash THEN found
      ELSE [index |-> [found.index EXCEPT ![Slot(hash)] = NoEntry],
            ops |-> [found.ops EXCEPT ![entry.op] =
                        [@ EXCEPT !.type = COPY, !.from = l, !.src = src,
                                  !.dest = dest]]]

FindCopy(layers, l, found, x, y) ==
  LET src == guac_rect_init(x, y, CellSize, CellSize)
      hash == Hash(layers[l].last.buffer, src)
      entry == found.index[Slot(hash)]
      op == found.ops[entry.op]
      dest == CellAt(op.dest.left, op.dest.top)
  IN  IF entry = NoEntry \/ entry.hash # hash THEN found
      ELSE [index |-> [found.index EXCEPT ![Slot(hash)] = NoEntry],
            ops |-> IF SameImage(layers[l].last.buffer, src,
                                 layers[op.layer].pending.buffer, dest)
                    THEN [found.ops EXCEPT ![entry.op] =
                            [@ EXCEPT !.type = COPY, !.from = l, !.src = src,
                                      !.dest = dest]]
                    ELSE found.ops]

\* The places searched of a layer's last frame, row by row: cells that fit into what
\* has changed of it (guac_hash_foreach_image_rect()).
SearchPlaces(layer, dirty) ==
  LET region == guac_rect_constrain(
                  guac_rect_init(0, 0, layer.last.width, layer.last.height), dirty)
      columns == Max({0, region.right - CellSize - region.left + 1})
      rows == Max({0, region.bottom - CellSize - region.top + 1})
  IN  [i \in 1 .. columns * rows |->
         <<region.left + ((i - 1) % columns), region.top + ((i - 1) \div columns)>>]

PFR_LFR_guac_display_plan_rewrite_as_copies(layers, lastOrder, plan) ==
  LET search(found, l) ==
        IF layers[l].pending.search_for_copies
        THEN FoldLeft(LAMBDA f, p : FindCopy(layers, l, f, p[1], p[2]), found,
                      SearchPlaces(layers[l], plan.dirty[l]))
        ELSE found
      result == FoldLeft(search, [ops |-> plan.ops, index |-> Indexed(layers, plan)],
                         lastOrder)
  IN  [plan EXCEPT !.ops = result.ops]

-----------------------------------------------------------------------------
(* Operations of neighbouring cells are combined *)

CrossesBoundary(r) ==
  LET aligned == guac_rect_align(r, CombinedSize)
  IN  guac_rect_width(aligned) > CombinedSize \/ guac_rect_height(aligned) > CombinedSize

guac_display_plan_has_common_edge(a, b) ==
  IF a.dest.top = b.dest.top /\ a.dest.bottom = b.dest.bottom
  THEN a.dest.right = b.dest.left \/ a.dest.left = b.dest.right
  ELSE /\ a.dest.left = b.dest.left /\ a.dest.right = b.dest.right
       /\ (a.dest.top = b.dest.bottom \/ a.dest.bottom = b.dest.top)

\* Sending one image of both is not much dearer than sending the two.
CheaperTogether(a, b, combined) ==
  LET width == guac_rect_width(combined)
      height == guac_rect_height(combined)
      together == BaseCost + width * height
      cost(op) == IF op.type = IMG THEN BaseCost + op.dirty_size
                  ELSE (BaseCost + op.dirty_size) \div DataFactor
  IN  \/ width <= NegligibleSize /\ height <= NegligibleSize
      \/ together <= cost(a) + cost(b)
      \/ together - cost(a) <= cost(a) \div NegligibleIncrease
      \/ together - cost(b) <= cost(b) \div NegligibleIncrease

SameShift(a, b) ==
  /\ a.dest.left - a.src.left = b.dest.left - b.src.left
  /\ a.dest.top - a.src.top = b.dest.top - b.src.top

\* Copies that come from different layers or do not touch are left to the costs.
guac_display_plan_should_combine(a, b) ==
  LET combined == guac_rect_extend(a.dest, b.dest)
      fits == ~CrossesBoundary(combined)
      edge == guac_display_plan_has_common_edge(a, b)
  IN  /\ a.layer = b.layer
      /\ IF a.type # b.type THEN CheaperTogether(a, b, combined)
         ELSE CASE a.type = COPY /\ a.from = b.from /\ edge -> SameShift(a, b) /\ fits
                [] a.type = RECT -> a.color = b.color /\ edge /\ fits
                [] a.type = IMG  -> fits
                [] OTHER -> CheaperTogether(a, b, combined)

\* The operation of a that takes over what b was to draw.
Merged(a, b) ==
  [a EXCEPT !.dest = guac_rect_extend(@, b.dest),
            !.type = IF @ = b.type THEN @ ELSE IMG,
            !.src = IF a.type = COPY /\ b.type = COPY
                    THEN guac_rect_extend(@, b.src) ELSE @,
            !.dirty_size = @ + b.dirty_size]

\* guac_display_plan_combine_if_improved() on the operations of two cells, if both
\* have one; the second cell is then related to the combined operation.  Other cells
\* related to the second operation keep it, a NOP with its old destination.
CombineCells(plan, previous, cell) ==
  LET i == plan.related[previous]
      j == plan.related[cell]
  IN  IF i # 0 /\ j # 0 /\ i # j
         /\ guac_display_plan_should_combine(plan.ops[i], plan.ops[j])
      THEN [plan EXCEPT !.ops = [@ EXCEPT ![i] = Merged(@, plan.ops[j]),
                                          ![j].type = NOP],
                        !.related[cell] = i]
      ELSE plan

PFW_guac_display_plan_combine_horizontally(layers, order, plan) ==
  LET combine(acc, l) ==
        LET p == layers[l].pending
            width == CellDimension(p.width)
        IN  IF guac_rect_is_empty(plan.dirty[l]) THEN acc
            ELSE FoldLeft(LAMBDA a, c : IF c[1] = 0 THEN a
                            ELSE CombineCells(a, <<l, c[1] - 1, c[2]>>, <<l, c[1], c[2]>>),
                          acc, Grid(width, CellDimension(p.height)))
  IN  FoldLeft(combine, plan, order)

\* Column by column, and only operations with a common edge.
PFW_guac_display_plan_combine_vertically(layers, order, plan) ==
  LET touching(a, above, cell) ==
        /\ a.related[above] # 0 /\ a.related[cell] # 0
        /\ guac_display_plan_has_common_edge(a.ops[a.related[above]],
                                             a.ops[a.related[cell]])
      step(a, above, cell) == IF touching(a, above, cell)
                              THEN CombineCells(a, above, cell) ELSE a
      combine(acc, l) ==
        LET p == layers[l].pending
            height == CellDimension(p.height)
        IN  IF guac_rect_is_empty(plan.dirty[l]) THEN acc
            ELSE FoldLeft(LAMBDA a, c : IF c[1] = 0 THEN a
                            ELSE step(a, <<l, c[2], c[1] - 1>>, <<l, c[2], c[1]>>),
                          acc, Grid(height, CellDimension(p.width)))
  IN  FoldLeft(combine, plan, order)

-----------------------------------------------------------------------------
\* The passes in the order of guac_display_end_multiple_frames().
PlanOf(layers, order, lastOrder) ==
  PFW_guac_display_plan_combine_vertically(layers, order,
    PFW_guac_display_plan_combine_horizontally(layers, order,
      PFR_LFR_guac_display_plan_rewrite_as_copies(layers, lastOrder,
        PFR_guac_display_plan_rewrite_as_rects(layers, Draft(layers, order)))))

=============================================================================
