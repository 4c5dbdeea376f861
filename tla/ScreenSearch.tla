---------------------------- MODULE ScreenSearch ----------------------------
(***************************************************************************)
(* Reading and searching captured images: the decoders of screen/pixels.go *)
(* and screen/rect.go, hashes, exact search, colour search and region      *)
(* scans of find/find.go, and the reading of single pixels in              *)
(* bundle_screen.go and capture.go.                                        *)
(*                                                                         *)
(* A hash is the content that is hashed, in its order; a pixel is a tuple  *)
(* of bytes.  An image is a rectangle and a pixel for each of its points.  *)
(***************************************************************************)
EXTENDS Integers, Sequences, SequencesExt, FiniteSets, FiniteSetsExt

CONSTANTS
    Queries,     \* what is asked, of which screen
    Fallback,    \* locateAnchorFallbackCandidates
    Window,      \* locateAnchorWindowBytes
    Channels,    \* bytes of a pixel of the images that are searched
    MaxUint,     \* the largest area that is representable
    Refused, NotFound,  \* what an error says
    Unanswered   \* nothing has been asked yet

VARIABLES query, found

searchVars == <<query, found>>

-----------------------------------------------------------------------------
(* Rectangles and images.                                                   *)

Rect(x0, y0, x1, y1) == [x0 |-> x0, y0 |-> y0, x1 |-> x1, y1 |-> y1]
Dx(r) == r.x1 - r.x0
Dy(r) == r.y1 - r.y0
Empty(r) == r.x0 >= r.x1 \/ r.y0 >= r.y1
Points(r) == (r.x0 .. r.x1 - 1) \X (r.y0 .. r.y1 - 1)
In(r, s) == Empty(r) \/ (r.x0 >= s.x0 /\ r.y0 >= s.y0 /\ r.x1 <= s.x1 /\ r.y1 <= s.y1)
Larger(a, b) == IF a > b THEN a ELSE b
Smaller(a, b) == IF a < b THEN a ELSE b
Intersect(r, s) == Rect(Larger(r.x0, s.x0), Larger(r.y0, s.y0), Smaller(r.x1, s.x1), Smaller(r.y1, s.y1))
Shift(r, dx, dy) == Rect(r.x0 + dx, r.y0 + dy, r.x1 + dx, r.y1 + dy)

Image(r, px) == [b |-> r, px |-> px]

\* Row by row, from left to right
Before(p, q) == p[2] < q[2] \/ (p[2] = q[2] /\ p[1] < q[1])
First(ps) == CHOOSE p \in ps : \A q \in ps \ {p} : Before(p, q)

\* The rows of part r of an image, as the hash reads them
Content(img, r) ==
    [y \in 1..Dy(r) |-> [x \in 1..Dx(r) |-> img.px[<<r.x0 + x - 1, r.y0 + y - 1>>]]]

-----------------------------------------------------------------------------
(* Captures.  A frame is what the compositor has written: raw pixels <<blue,  *)
(* red, alpha>> of a physical output.                                        *)

\* copyBGRA: the colours are swapped, and alpha is opaque.
Swap(raw) == <<raw[2], raw[1], 1>>

\* logicalRectToPhysical
Physical(r, scale) == Rect(r.x0 * scale, r.y0 * scale, r.x1 * scale, r.y1 * scale)

\* decodeBGRARect: bounds on the output, clipped to it
Decode(frame, r) ==
    LET c == Intersect(r, frame.b) IN Image(c, [p \in Points(c) |-> Swap(frame.px[p])])

\* cropRGBA: bounds at the origin, and nothing outside the output
Crop(frame, r) ==
    LET b == Rect(0, 0, Dx(r), Dy(r))
    IN  Image(b, [p \in Points(b) |->
            LET q == <<p[1] + r.x0, p[2] + r.y0>>
            IN  IF q \in Points(frame.b) THEN Swap(frame.px[q]) ELSE <<0, 0, 0>>])

\* The backends' Grab
GrabImage(frame, r, scale, style) ==
    IF style = "crop" THEN Crop(frame, Physical(r, scale)) ELSE Decode(frame, Physical(r, scale))

-----------------------------------------------------------------------------
(* Hashes.                                                                  *)

\* pixelHashImage
PixelHash(img, r) == Content(img, Intersect(r, img.b))

\* grabImageHash refuses an image that is not the region.
GrabImageHash(img, r) ==
    IF Empty(img.b) \/ Dx(img.b) # Dx(r) \/ Dy(img.b) # Dy(r) THEN Refused ELSE PixelHash(img, img.b)

\* PixelHashBGRA
PixelHashBGRA(frame, r) ==
    [y \in 1..Dy(r) |-> [x \in 1..Dx(r) |-> Swap(frame.px[<<r.x0 + x - 1, r.y0 + y - 1>>])]]

\* croppedHashRegion and GrabRegionHash
GrabRegionHash(frame, r, scale) ==
    LET c == Intersect(Physical(r, scale), frame.b)
    IN  IF Empty(c) THEN Refused ELSE PixelHashBGRA(frame, c)

-----------------------------------------------------------------------------
(* The exact search.                                                        *)

\* A row of an image, byte by byte
Bytes(img, y) ==
    [i \in 1..(Dx(img.b) * Channels) |->
        img.px[<<img.b.x0 + (i - 1) \div Channels, y>>][((i - 1) % Channels) + 1]]

\* matchAt
MatchAt(src, ref, p) ==
    \A q \in Points(ref.b) :
        src.px[<<p[1] + q[1] - ref.b.x0, p[2] + q[2] - ref.b.y0>>] = ref.px[q]

\* Positions in src at which part of ref may begin
Places(src, ref) ==
    (src.b.x0 .. src.b.x1 - Dx(ref.b)) \X (src.b.y0 .. src.b.y1 - Dy(ref.b))

\* An anchor is a row of the reference and some of its bytes.
FirstAnchor(ref) == [row |-> 0, start |-> 0, len |-> Channels]

Anchored(ref, anchor) ==
    SubSeq(Bytes(ref, ref.b.y0 + anchor.row), anchor.start + 1, anchor.start + anchor.len)

\* Mutant of Candidates: the last column is left out.
CandidatesButLast(src, ref, anchor) ==
    LET there(p) ==
            LET at == (p[1] - src.b.x0) * Channels + anchor.start
                row == Bytes(src, p[2] + anchor.row)
            IN  SubSeq(row, at + 1, at + anchor.len) = Anchored(ref, anchor)
    IN  {p \in Places(src, ref) : p[1] < src.b.x1 - Dx(ref.b) /\ there(p)}

\* The loops over rows and over the occurrences of the anchor's bytes in a row.
\* Occurrences that are no multiple of a pixel away from the anchor's start, or
\* too far right, are passed over.
Occurrences(src, ref, anchor, y) ==
    LET row == Bytes(src, y + anchor.row)
    IN  {at \in 0..(Len(row) - anchor.len) : SubSeq(row, at + 1, at + anchor.len) = Anchored(ref, anchor)}
Candidates(src, ref, anchor) ==
    {p \in Places(src, ref) :
        \E at \in Occurrences(src, ref, anchor, p[2]) :
            /\ at >= anchor.start /\ (at - anchor.start) % Channels = 0
            /\ p[1] = src.b.x0 + (at - anchor.start) \div Channels}

\* selectLocateAnchor: the row with most changes of colour, after the first, and
\* the window that differs most from the pixel of a failed candidate; the first
\* of the best.
Best(score) ==
    CHOOSE i \in DOMAIN score :
        \A j \in DOMAIN score : score[j] < score[i] \/ (score[j] = score[i] /\ j >= i)
Abs(n) == IF n < 0 THEN -n ELSE n
RowScores(ref) ==
    [r \in 1..(Dy(ref.b) - 1) |->
        Cardinality({x \in ref.b.x0 + 1 .. ref.b.x1 - 1 :
                        ref.px[<<x, ref.b.y0 + r>>] # ref.px[<<x - 1, ref.b.y0 + r>>]})]
WindowScores(bytes, len, pixel) ==
    [s \in 0..(Len(bytes) - len) |->
        Abs(bytes[s + 1] - pixel[(s % Channels) + 1]) * len
        + Cardinality({i \in 1..(len - 1) : bytes[s + i + 1] # bytes[s + i]})]
SelectLocateAnchor(ref, pixel) ==
    LET row == IF Dy(ref.b) > 1 THEN Best(RowScores(ref)) ELSE 0
        bytes == Bytes(ref, ref.b.y0 + row)
        len == Smaller(Len(bytes), Window)
    IN  [row |-> row, start |-> Best(WindowScores(bytes, len, pixel)), len |-> len]

\* LocateExactInImage: after so many false candidates another anchor is chosen,
\* once, and the search begins again.
Pass(src, ref, anchor) ==
    LET hits == {p \in Candidates(src, ref, anchor) : MatchAt(src, ref, p)}
    IN  IF hits = {} THEN NotFound ELSE First(hits)
FalseCandidates(src, ref, anchor) ==
    LET hit == Pass(src, ref, anchor)
        falsely == {p \in Candidates(src, ref, anchor) : ~MatchAt(src, ref, p)}
    IN  IF hit = NotFound THEN falsely ELSE {p \in falsely : Before(p, hit)}
LocateExactInImage(src, ref) ==
    LET anchor == FirstAnchor(ref)
        falsely == FalseCandidates(src, ref, anchor)
        eighth == CHOOSE p \in falsely : Cardinality({q \in falsely : Before(q, p)}) = Fallback - 1
        other == SelectLocateAnchor(ref, src.px[eighth])
    IN  IF Dx(ref.b) > Dx(src.b) \/ Dy(ref.b) > Dy(src.b) THEN Refused
        ELSE IF Cardinality(falsely) < Fallback \/ other = anchor THEN Pass(src, ref, anchor)
        ELSE Pass(src, ref, other)

\* translateRect
LocateExact(src, area, ref) ==
    LET p == LocateExactInImage(src, ref)
    IN  IF p \in {Refused, NotFound} THEN p
        ELSE <<p[1] + area.x0 - src.b.x0, p[2] + area.y0 - src.b.y0>>

-----------------------------------------------------------------------------
(* The colour search.                                                       *)

\* colorClose: alpha is not compared.
ColorClose(a, b, tolerance) == \A i \in 1..2 : Abs(a[i] - b[i]) <= tolerance

\* PixelFound: what is scanned, and which point the image's first pixel is
ScanBounds(img, r) ==
    IF Empty(r) THEN img.b
    ELSE IF In(r, img.b) THEN r
    ELSE Rect(img.b.x0, img.b.y0, img.b.x0 + Smaller(Dx(r), Dx(img.b)), img.b.y0 + Smaller(Dy(r), Dy(img.b)))
PointOrigin(img, r) ==
    IF Empty(r) \/ In(r, img.b) THEN <<img.b.x0, img.b.y0>> ELSE <<r.x0, r.y0>>
PixelFound(img, r, target, tolerance) ==
    LET close == {p \in Points(ScanBounds(img, r)) : ColorClose(img.px[p], target, tolerance)}
        p == First(close)
        origin == PointOrigin(img, r)
    IN  IF close = {} THEN NotFound
        ELSE <<origin[1] + p[1] - img.b.x0, origin[2] + p[2] - img.b.y0>>

-----------------------------------------------------------------------------
(* Scanning regions.                                                        *)

\* rectangleArea
Area(r) == IF Dx(r) > MaxUint \div Dy(r) THEN -1 ELSE Dx(r) * Dy(r)
Bounding(rects) ==
    LET sides(side) == {rects[i][side] : i \in DOMAIN rects}
    IN  Rect(Min(sides("x0")), Min(sides("y0")), Max(sides("x1")), Max(sides("y1")))
TotalArea(rects) ==
    FoldLeft(LAMBDA sum, r : IF sum < 0 \/ Area(r) < 0 \/ MaxUint - sum < Area(r) THEN -1 ELSE sum + Area(r),
             0, rects)
UseBbox(rects) ==
    LET total == TotalArea(rects)
        area == Area(Bounding(rects))
    IN  total >= 0 /\ area >= 0 /\ total <= MaxUint \div 2 /\ area <= 2 * total

TranslateToImage(r, bbox, img) == Shift(r, img.b.x0 - bbox.x0, img.b.y0 - bbox.y0)

\* One round of ScanFor: a capture that is not its region ends the scan.
ScanFor(frame, rects, wants, style) ==
    LET bbox == Bounding(rects)
        img == GrabImage(frame, bbox, 1, style)
        hash(i) == IF UseBbox(rects) THEN PixelHash(img, TranslateToImage(rects[i], bbox, img))
                   ELSE GrabImageHash(GrabImage(frame, rects[i], 1, style), rects[i])
        decided == {i \in DOMAIN rects : hash(i) \in {wants[i], Refused}}
    IN  IF UseBbox(rects) /\ (Dx(img.b) # Dx(bbox) \/ Dy(img.b) # Dy(bbox)) THEN Refused
        ELSE IF decided = {} THEN NotFound
        ELSE IF hash(Min(decided)) = Refused THEN Refused ELSE Min(decided)

-----------------------------------------------------------------------------
(* Single pixels.                                                           *)

PointsBounds(ps) ==
    Rect(Min({p[1] : p \in ps}), Min({p[2] : p \in ps}), Max({p[1] : p \in ps}) + 1, Max({p[2] : p \in ps}) + 1)

\* Mutant of Uniform: an image that is a part of the region will do.
UniformEnough(img, r) == Dx(img) * Dy(r) = Dy(img) * Dx(r)

\* The image is a uniform scaling of the region, and no smaller than it.
Uniform(img, r) == Dx(img) * Dy(r) = Dy(img) * Dx(r) /\ Dx(img) >= Dx(r) /\ Dy(img) >= Dy(r)

\* scaleCaptureOffset
ScaleOffset(offset, from, to) == (offset * to) \div from

\* translatePointsToImage
ToImage(p, r, img) ==
    <<img.x0 + ScaleOffset(p[1] - r.x0, Dx(r), Dx(img)), img.y0 + ScaleOffset(p[2] - r.y0, Dy(r), Dy(img))>>

\* Capture.ScreenPoint
ScreenPoint(q, r, img) ==
    <<r.x0 + ScaleOffset(q[1] - img.x0, Dx(img), Dx(r)), r.y0 + ScaleOffset(q[2] - img.y0, Dy(img), Dy(r))>>

\* GetMultiplePixels
GetMultiplePixels(frame, ps, scale) ==
    LET r == PointsBounds(ps)
        img == GrabImage(frame, r, scale, "decode")
    IN  IF Empty(img.b) \/ ~Uniform(img.b, r) THEN Refused
        ELSE [p \in ps |-> img.px[ToImage(p, r, img.b)]]

-----------------------------------------------------------------------------
\* The hashes that a caller waits for: of the regions in a frame it has seen
Wanted(q) == [i \in DOMAIN q.rects |-> Content(Decode(q.seen, q.rects[i]), q.rects[i])]

Result(q) ==
    CASE q.kind = "locate" -> LocateExact(q.src, q.area, q.ref)
      [] q.kind = "color" ->
            PixelFound(GrabImage(q.frame, q.rect, q.scale, q.style), q.rect, q.target, q.tolerance)
      [] q.kind = "hash" -> GrabRegionHash(q.frame, q.rect, q.scale)
      [] q.kind = "scan" -> ScanFor(q.frame, q.rects, Wanted(q), q.style)
      [] q.kind = "points" -> GetMultiplePixels(q.frame, q.points, q.scale)

Rects == [x0 : Int, y0 : Int, x1 : Int, y1 : Int]
IsImage(img, bytes) ==
    /\ img.b \in Rects /\ ~Empty(img.b)
    /\ \A p \in Points(img.b) : img.px[p] \in [1..bytes -> Int]

\* What callers ask, of a screen that is there: the regions that are scanned or
\* searched for a colour are on the output, and so are points on a scaled one; a
\* colour is searched for on an unscaled output.
IsQuery(q) ==
    \/ q.kind = "locate" /\ q.area \in Rects /\ IsImage(q.src, Channels) /\ IsImage(q.ref, Channels)
    \/ /\ q.kind = "color" /\ IsImage(q.frame, 3) /\ q.rect \in Rects
       /\ ~Empty(q.rect) /\ In(q.rect, q.frame.b) /\ q.scale = 1
    \/ q.kind = "hash" /\ IsImage(q.frame, 3) /\ q.rect \in Rects /\ q.scale \in Nat
    \/ /\ q.kind = "scan" /\ IsImage(q.frame, 3) /\ IsImage(q.seen, 3)
       /\ q.rects \in Seq(Rects) /\ q.rects # <<>>
       /\ \A i \in DOMAIN q.rects : /\ ~Empty(q.rects[i])
                                   /\ In(q.rects[i], q.frame.b) /\ In(q.rects[i], q.seen.b)
    \/ /\ q.kind = "points" /\ IsImage(q.frame, 3)
       /\ q.points \subseteq Int \X Int /\ q.points # {} /\ IsFiniteSet(q.points)
       /\ q.scale \in Nat \ {0}
       /\ q.scale = 1 \/ In(Physical(PointsBounds(q.points), q.scale), q.frame.b)

ASSUME QueriesAreQueries == \A q \in Queries : IsQuery(q)
ASSUME SearchLimitsArePositive == {Fallback, Window, Channels} \subseteq Nat \ {0}
ASSUME ErrorsAreNoAnswers == {Refused, NotFound} \cap (Int \X Int) = {} /\ Refused \notin Seq(Seq(Seq(Int)))

SearchInit == query \in Queries /\ found = Unanswered

Ask == found = Unanswered /\ found' = Result(query) /\ UNCHANGED query

SearchNext == Ask

SearchSpec == SearchInit /\ [][SearchNext]_searchVars

-----------------------------------------------------------------------------
(* What the answers should be.                                              *)

\* The first place at which all of the reference is, in screen coordinates
IsLocated(q) ==
    LET places == {p \in Places(q.src, q.ref) : MatchAt(q.src, q.ref, p)}
        p == First(places)
    IN  IF Dx(q.ref.b) > Dx(q.src.b) \/ Dy(q.ref.b) > Dy(q.src.b) THEN found = Refused
        ELSE IF places = {} THEN found = NotFound
        ELSE found = <<p[1] + q.area.x0 - q.src.b.x0, p[2] + q.area.y0 - q.src.b.y0>>

\* The first point of the region on the output, in logical coordinates, one of
\* whose pixels is close
IsFound(q) ==
    LET close == {p \in Points(Intersect(q.rect, q.frame.b)) :
                    \E d \in (0 .. q.scale - 1) \X (0 .. q.scale - 1) :
                        LET raw == <<p[1] * q.scale + d[1], p[2] * q.scale + d[2]>>
                        IN  raw \in Points(q.frame.b)
                            /\ ColorClose(Swap(q.frame.px[raw]), q.target, q.tolerance)}
    IN  IF close = {} THEN found = NotFound ELSE found = First(close)

\* The backend's hash of a region is the hash of the image that Grab returns.
IsCanonical(q) ==
    LET img == GrabImage(q.frame, q.rect, q.scale, "decode")
    IN  IF Empty(img.b) THEN found = Refused ELSE found = PixelHash(img, img.b)

\* The first region that shows what is wanted of it
IsScanned(q) ==
    LET shows(i) == Wanted(q)[i] = PixelHash(Decode(q.frame, q.rects[i]), q.rects[i])
        matches == {i \in DOMAIN q.rects : shows(i)}
    IN  IF matches = {} THEN found = NotFound ELSE found = Min(matches)

\* Every point's own pixel, and the way back leads to the point.
AreRead(q) ==
    LET r == PointsBounds(q.points)
        b == Intersect(Physical(r, q.scale), q.frame.b)
    IN  IF In(Physical(r, q.scale), q.frame.b)
        THEN \A p \in q.points :
                /\ found[p] = Swap(q.frame.px[<<p[1] * q.scale, p[2] * q.scale>>])
                /\ ScreenPoint(ToImage(p, r, b), r, b) = p
        ELSE found = Refused

\* A search finds the first place, whatever anchor it uses and whether regions
\* are captured together or one by one; a hash that a backend takes from its frame
\* is that of the image it returns; a colour is found at the point where it is on
\* the screen, and the pixels that are read for points are those of the points
\* (LocateExactInImage, ScanFor, PixelHashBGRA, PixelFound, GetMultiplePixels).
SearchesAreExact ==
    found # Unanswered =>
        CASE query.kind = "locate" -> IsLocated(query)
          [] query.kind = "hash" -> IsCanonical(query)
          [] query.kind = "scan" -> IsScanned(query)
          [] query.kind = "color" -> IsFound(query)
          [] query.kind = "points" -> AreRead(query)
=============================================================================
