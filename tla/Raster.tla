------------------------------- MODULE Raster -------------------------------
(***************************************************************************)
(* The pixel arithmetic of ui/gfx/draw.c and drivers/fb.c as functions:    *)
(* rounded fills and glass, the box blur and the bilinear samples of the   *)
(* frosted wallpaper, icons and small text, the scaling of the wallpaper   *)
(* to the screen, and the width of text.  They keep no state; `probe` is   *)
(* the input they are evaluated on, any input up to the bounds, and the    *)
(* invariants state what they compute of it.                               *)
(***************************************************************************)
EXTENDS Integers, Sequences

CONSTANTS ScreenW, ScreenH,  \* fb_w, fb_h
          MaxSide,           \* bound: sides and corners of boxes and pictures
          MaxRoot,           \* bound: roots taken of 0 .. MaxRoot
          FontH              \* FONT_HEIGHT

\* A root is taken of 32 bits.
ASSUME RasterAssumption ==
    /\ ScreenW \in Nat /\ ScreenH \in Nat /\ MaxSide \in Nat /\ FontH \in Nat \ {0}
    /\ MaxRoot \in Nat /\ MaxRoot \div 65536 < 65536

VARIABLE probe

Small(a, b) == IF a < b THEN a ELSE b
Large(a, b) == IF a > b THEN a ELSE b
Abs(a) == IF a < 0 THEN -a ELSE a

(* The values of a running total that starts at base: before the first of   *)
(* n terms and after each.                                                 *)
Running(base, n, f) ==
    LET s[k \in 0 .. n] == IF k = 0 THEN base ELSE s[k - 1] + f[k]
    IN s

-----------------------------------------------------------------------------
(* Rounded boxes *)

ClampRad(w, h, rad) == LET m == Small(w, h) IN IF rad * 2 > m THEN m \div 2 ELSE rad

(* isqrt_u32, bit pair by bit pair from the top.                           *)
Digit(s) ==
    IF s.op >= s.res + s.one
    THEN [op |-> s.op - (s.res + s.one), res |-> s.res \div 2 + s.one, one |-> s.one \div 4]
    ELSE [op |-> s.op, res |-> s.res \div 2, one |-> s.one \div 4]
Isqrt(n) ==
    LET s[k \in 0 .. 16] ==
          IF k = 0 THEN [op |-> n, res |-> 0, one |-> 1073741824] ELSE Digit(s[k - 1])
    IN s[16].res

(* sdf_round_box_88: the distance of a pixel's centre to the edge of the    *)
(* box, in 256ths of a pixel; on one axis, how far it is past the corner.   *)
Beyond(c, x, w, rad) == Abs(c * 256 + 128 - (x * 256 + w * 128)) - Large(w * 128 - rad * 256, 0)
Sdf(px, py, b) ==
    LET qx == Beyond(px, b.x, b.w, b.rad)
        qy == Beyond(py, b.y, b.h, b.rad)
        ox == Large(qx, 0)
        oy == Large(qy, 0)
    IN Isqrt(ox * ox + oy * oy) + Small(Large(qx, qy), 0) - b.rad * 256

CoverFromD88(d) == IF d <= -128 THEN 255 ELSE IF d >= 128 THEN 0
                   ELSE ((128 - d) * 255) \div 256

\* Pixels blended each by its own distance, and pixels filled without one.
Shade(b, p) == CoverFromD88(Sdf(p[1], p[2], b))
Shaded(b, area) == {<<p, Shade(b, p)>> : p \in area}
Filled(area) == {<<p, 255>> : p \in area}

(* The part of the screen from (x0, y0) up to, not including, (x1, y1).     *)
Area(x0, y0, x1, y1) ==
    (Large(x0, 0) .. (Small(x1, ScreenW) - 1)) \X (Large(y0, 0) .. (Small(y1, ScreenH) - 1))

(* blend_band: one strip of the box, by distance.                          *)
BlendBand(b, x0, y0, x1, y1) ==
    Shaded(b, Area(Large(x0, b.x), Large(y0, b.y), Small(x1, b.x + b.w), Small(y1, b.y + b.h)))

\* mutant: the right strip starts one pixel late
RoundFill_Gap(b) ==
    LET x1 == b.x + b.w
        y1 == b.y + b.h
        ix == b.x + b.rad + 1
        iy == b.y + b.rad + 1
        ix1 == x1 - b.rad - 1
        iy1 == y1 - b.rad - 1
    IN << Filled(Area(ix, iy, ix1, iy1)), BlendBand(b, b.x, b.y, x1, iy),
          BlendBand(b, b.x, iy1, x1, y1), BlendBand(b, b.x, iy, ix, iy1),
          BlendBand(b, ix1 + 1, iy, x1, iy1) >>

(* round_fill_ex: the passes, each a set of <<pixel, coverage>>.            *)
RoundFill(b) ==
    LET x1 == b.x + b.w
        y1 == b.y + b.h
        ix == b.x + b.rad + 1
        iy == b.y + b.rad + 1
        ix1 == x1 - b.rad - 1
        iy1 == y1 - b.rad - 1
    IN IF b.rad = 0 THEN << Filled(Area(b.x, b.y, x1, y1)) >>
       ELSE IF ix1 > ix /\ iy1 > iy
       THEN << Filled(Area(ix, iy, ix1, iy1)),
               BlendBand(b, b.x, b.y, x1, iy), BlendBand(b, b.x, iy1, x1, y1),
               BlendBand(b, b.x, iy, ix, iy1), BlendBand(b, ix1, iy, x1, iy1) >>
       ELSE << BlendBand(b, b.x, b.y, x1, y1) >>

(* draw_glass: the inside without a distance, then all the rest.            *)
Glass(b) ==
    LET x1 == b.x + b.w
        y1 == b.y + b.h
        ix == b.x + b.rad + 1
        iy == b.y + b.rad + 1
        ix1 == x1 - b.rad - 1
        iy1 == y1 - b.rad - 1
        inside == IF ix1 > ix /\ iy1 > iy THEN Area(ix, iy, ix1, iy1) ELSE {}
    IN << Filled(inside), Shaded(b, Area(b.x, b.y, x1, y1) \ inside) >>

Boxed == {[kind |-> "box", x |-> x, y |-> y, w |-> w, h |-> h, rad |-> ClampRad(w, h, r)] :
                 x \in 0 .. 2, y \in 0 .. 1, w, h \in 1 .. MaxSide, r \in 0 .. MaxSide \div 2}

RootIsFloor(n) == LET r == Isqrt(n) IN r * r <= n /\ n < (r + 1) * (r + 1)

(* Every pixel of a rounded box is blended in one pass and no other, with    *)
(* the coverage its own distance gives it: no gap and no doubled seam where  *)
(* the inside, which is filled without a distance, meets the strips, and the *)
(* same for glass (round_fill_ex, blend_band, draw_glass).  The distance     *)
(* rests on a root that is rounded down (isqrt_u32).                         *)
Once(passes, b) ==
    /\ \A i, j \in 1 .. Len(passes) : i # j => {q[1] : q \in passes[i]} \cap {q[1] : q \in passes[j]} = {}
    /\ UNION {passes[i] : i \in 1 .. Len(passes)} =
         Shaded(b, Area(b.x, b.y, b.x + b.w, b.y + b.h))
FilledOnce ==
    /\ probe.kind = "box" => Once(RoundFill(probe), probe) /\ Once(Glass(probe), probe)
    /\ probe.kind = "root" => RootIsFloor(probe.n)

-----------------------------------------------------------------------------
(* Blur and bilinear samples *)

(* One row of box_blur_u8; what falls off an end repeats the end.           *)
Around(img, w, radius, x) ==
    [k \in 1 .. (2 * radius + 1) |-> img[Large(Small(x + k - 1 - radius, w - 1), 0)]]
BlurRow(img, w, radius) ==
    LET n == 2 * radius + 1
    IN [x \in 0 .. (w - 1) |-> Running(0, n, Around(img, w, radius, x))[n] \div n]

(* Where pixel i of n samples a source of m pixels: the two neighbours and   *)
(* the weight of the second, of 256.                                        *)
Sample(i, n, m) ==
    LET f == IF n = 1 THEN 0 ELSE (i * (m - 1) * 256) \div (n - 1)
        a == f \div 256
    IN [a |-> a, b |-> IF a + 1 < m THEN a + 1 ELSE a, t |-> f % 256]

Lerp(u, v, t) == (u * (256 - t) + v * t) \div 256

(* frost_fill, fb_blit_rgba_scaled, fb_blit_rgba_scaled_a, draw_glyph_h: a   *)
(* pixel of a picture `src` of m by k drawn n wide and h high.               *)
Bilinear(src, m, k, n, h, i, j) ==
    LET x == Sample(i, n, m)
        y == Sample(j, h, k)
    IN Lerp(Lerp(src[x.a + m * y.a], src[x.b + m * y.a], x.t),
            Lerp(src[x.a + m * y.b], src[x.b + m * y.b], x.t), y.t)

(* Rows and columns of a scaled picture stay inside the source, run from its *)
(* first to its last in order, and a blend never leaves the range of what it *)
(* blends, so a byte never wraps; the blur keeps that range too and is the   *)
(* same from both sides (box_blur_u8, frost_fill, fb_blit_rgba_scaled).      *)
SamplesInside ==
    /\ probe.kind = "scale" => LET m == probe.m
                                   n == probe.n
         IN /\ \A i \in 0 .. (n - 1) :
                 LET s == Sample(i, n, m)
                 IN /\ s.a \in 0 .. (m - 1) /\ s.b \in {s.a, s.a + 1} \cap 0 .. (m - 1)
                    /\ i > 0 => Sample(i - 1, n, m).a <= s.a
                    /\ m = n => s.a = i /\ s.t = 0
                    /\ \A u, v \in {0, 1, 254, 255} : Lerp(u, v, s.t) \in Small(u, v) .. Large(u, v)
            /\ n > 1 => LET s == Sample(n - 1, n, m) IN s.a = m - 1 /\ s.t = 0
    /\ probe.kind = "blur" =>
         LET w == probe.w
             out == BlurRow(probe.img, w, probe.radius)
             back == BlurRow([x \in 0 .. (w - 1) |-> probe.img[w - 1 - x]], w, probe.radius)
         IN \A x \in 0 .. (w - 1) :
              /\ \E y, z \in 0 .. (w - 1) : probe.img[y] <= out[x] /\ out[x] <= probe.img[z]
              /\ back[w - 1 - x] = out[x]

-----------------------------------------------------------------------------
(* The wallpaper *)

(* fb_cover_params: the larger of the two scales, and what is cut off before *)
(* the picture starts.                                                      *)
CutOff(side, full, num, den) ==
    LET c == (side * num + den - 1) \div den
    IN IF c > full THEN ((c - full) * den) \div (2 * num) ELSE 0
CoverParams(sw, sh, fw, fh) ==
    LET num == IF fw * sh >= fh * sw THEN fw ELSE fh
        den == IF fw * sh >= fh * sw THEN sw ELSE sh
    IN [num |-> num, den |-> den, x0 |-> CutOff(sw, fw, num, den), y0 |-> CutOff(sh, fh, num, den)]

(* fb_cover_src_xy, one coordinate, before and after it is clamped.         *)
CoverSrc(x0, d, p) == x0 + (d * p.den) \div p.num
Clamped(c, side) == Small(c, side - 1)

(* The inner loop of fb_blit_rgb_cover: sx after d steps of the accumulator. *)
Carried(s, p) ==
    LET carry == (s.acc + p.den) \div p.num
    IN [acc |-> s.acc + p.den - carry * p.num, sx |-> s.sx + carry]
CoverStep(d, p) ==
    LET s[k \in 0 .. d] == IF k = 0 THEN [acc |-> 0, sx |-> p.x0] ELSE Carried(s[k - 1], p)
    IN s[d].sx

(* The wallpaper fills the screen: no source coordinate has to be clamped,   *)
(* so no edge is smeared, at least one axis is shown in full, and the       *)
(* running accumulator of the fast path gives the pixel that the division   *)
(* gives, which is where the frost under glass is read                      *)
(* (fb_blit_rgb_cover, fb_cover_src_xy, frost_sample).                       *)
WallpaperCovers ==
    probe.kind = "cover" =>
      LET p == CoverParams(probe.sw, probe.sh, probe.fw, probe.fh)
          sx(d) == CoverSrc(p.x0, d, p)
          sy(d) == CoverSrc(p.y0, d, p)
      IN /\ \A d \in 0 .. (probe.fw - 1) : sx(d) = Clamped(sx(d), probe.sw) /\ CoverStep(d, p) = sx(d)
         /\ \A d \in 0 .. (probe.fh - 1) : sy(d) = Clamped(sy(d), probe.sh)
         /\ p.x0 = 0 \/ p.y0 = 0

-----------------------------------------------------------------------------
(* Text, as the advances of its glyphs *)

(* What draw_glyph_h moves on by, and what draw_text_width_h counts.        *)
AdvanceH(adv, height) ==
    IF height >= FontH THEN adv ELSE Large((adv * height + FontH \div 2) \div FontH, 1)

Advances(text, height) == [k \in 1 .. Len(text) |-> AdvanceH(text[k], height)]
WidthH(text, height) == Running(0, Len(text), Advances(text, height))[Len(text)]

\* What the first n glyphs paint.
Ink(at, n) == UNION {at[k - 1] .. at[k] : k \in 1 .. n}

(* draw_text_h: where each glyph is drawn, and how wide it paints.          *)
DrawTextH(x, text, height) ==
    LET n == Len(text)
        at == Running(x, n, Advances(text, height))
    IN [at |-> at[n], ink |-> Ink(at, n)]

(* draw_text_clip: the glyphs drawn before the first that would not fit.    *)
Fitting(at, n, maxX) ==
    CHOOSE k \in 0 .. n : (\A j \in 1 .. k : at[j] <= maxX) /\ (k < n => at[k + 1] > maxX)
ClipText(x, maxX, text) ==
    LET n == Len(text)
        at == Running(x, n, text)
        drawn == Fitting(at, n, maxX)
    IN [at |-> at[drawn], ink |-> Ink(at, drawn), stop |-> drawn < n]

(* Text is as wide as it was measured, so that a caret stands after the last *)
(* letter, and it paints no more than the one pixel of overhang past that    *)
(* width, or past the limit it is clipped to (draw_text_width_h,             *)
(* draw_text_h, draw_text_clip, draw_glyph).                                 *)
TextMeasured ==
    probe.kind = "text" =>
      /\ \A height \in 1 .. FontH :
           LET d == DrawTextH(2, probe.text, height)
           IN /\ d.at = 2 + WidthH(probe.text, height)
              /\ \A p \in d.ink : p <= d.at
      /\ \A maxX \in 2 .. 9 :
           LET c == ClipText(2, maxX, probe.text)
           IN /\ \A p \in c.ink : p <= maxX
              /\ ~c.stop => c.at = 2 + WidthH(probe.text, FontH)

(* The pixel arithmetic fills, samples, stretches and measures without a   *)
(* gap, an overlap or a read past the edge, on every small input.          *)
PixelsRight == FilledOnce /\ SamplesInside /\ WallpaperCovers /\ TextMeasured

-----------------------------------------------------------------------------
NoProbe == [kind |-> "none"]
Probes == Boxed
    \cup [kind : {"root"}, n : 0 .. MaxRoot]
    \cup [kind : {"scale"}, m : 1 .. MaxSide, n : 1 .. MaxSide]
    \cup (UNION {[kind : {"blur"}, w : {w}, radius : 0 .. 2, img : [0 .. (w - 1) -> {0, 7, 255}]] : w \in 1 .. 4})
    \cup [kind : {"cover"}, sw : 1 .. MaxSide, sh : 1 .. MaxSide, fw : 1 .. MaxSide, fh : 1 .. MaxSide]
    \cup [kind : {"text"}, text : UNION {[1 .. n -> 1 .. 4] : n \in 0 .. 3}]

Evaluate == \/ probe = NoProbe /\ probe' \in Probes
            \/ probe # NoProbe /\ probe' = NoProbe

RasterSpec == probe = NoProbe /\ [][Evaluate]_probe
=============================================================================
