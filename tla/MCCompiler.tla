----------------------------- MODULE MCCompiler -----------------------------
(***************************************************************************)
(* Programs for the compiler on a small chip: two lanes, two outputs, two  *)
(* Cores, nibbles for bytes, four significant bits for a bf16.  The floats *)
(* are small enough for the chip to be exact when the compiler is right.   *)
(***************************************************************************)
EXTENDS CIMCompiler

Arg(n, shape, elem) == Op(<<"arg" \o ToString(n)>>, "arg", <<>>, shape, elem, [n |-> n])
Function(body) == [body |-> body, out |-> <<Last(body).id>>, at |-> NoAttrs]
Zeros(name, shape, elem) == Splat(<<name>>, shape, elem, 0)
Weight(name, shape, elem, data) == Const(<<name>>, shape, elem, data)
DirectCase(name, main, inputs) ==
  [name |-> name, pipeline |-> "direct", main |-> main, inputs |-> inputs,
   compensation |-> "sign-split", maxColumns |-> AutoWidth, extraKTile |-> TRUE,
   residency |-> TRUE]
SplitCase(name, main, inputs) == [DirectCase(name, main, inputs) EXCEPT !.pipeline = "split"]
\* y = a b for the linear forms of the frontends.
Linear2(name, kind, a, b, elem, m, n, k, at) ==
  LET z == Zeros(name \o "0", <<m, n>>, elem)
  IN <<z, Dot(<<name>>, kind, a, b, z, <<m, n>>, <<k>>, at)>>
Biased(y, bias, dims) ==
  LET b == Broadcast(<<"b">>, bias, y.shape, dims)
  IN <<bias, b, Each(<<"sum">>, "add", <<y, b>>, y.elem)>>

-----------------------------------------------------------------------------
(* Bytes.                                                                  *)

Bytes6 == << << <<1, -8, 7, 2, 3, -5>> >>, << <<-8, -8, -8, 7, 7, 7>> >> >>
Bytes9 == << << <<1, -8, 7, 2, 3, -5, 0, 4, -1>> >> >>
W9 == <<1, -2, 3, 4, 5, -6, 7, -8, 2>>
ByteLinear ==
  LET x == Arg(1, <<2, 3>>, "i8")  w == Weight("w", <<3, 3>>, "i8", W9)
  IN Function(<<x, w>> \o Linear2("y", "matmul", x, w, "i32", 2, 3, 3, NoAttrs))
\* A lane whose weights reach the i21 boundary stays on the Host.
Boundary ==
  LET x == Arg(1, <<2, 3>>, "i8")
      w == Weight("w", <<3, 3>>, "i8", <<-8, 1, -8, -8, 2, 7, 3, 3, 0>>)
  IN Function(<<x, w>> \o Linear2("y", "matmul", x, w, "i32", 2, 3, 3, NoAttrs))
\* k = 3: the bias has a lane of the last tile; its weights fit only because
\* that lane is one.
ByteBias ==
  LET x == Arg(1, <<2, 3>>, "i8")
      w == Weight("w", <<3, 3>>, "i8", <<1, -8, -8, 2, 7, -8, 3, 3, 0>>)
      mm == Linear2("y", "matmul_transpose_b", x, w, "i32", 2, 3, 3, NoAttrs)
  IN Function(<<x, w>> \o mm
              \o Biased(Last(mm), Weight("bias", <<3>>, "i32", <<-8, 7, 1>>), <<1>>))
\* k = 2: the bias needs a tile of its own.
ExactBias ==
  LET x == Arg(1, <<3, 2>>, "i8")
      w == Weight("w", <<2, 2>>, "i8", <<1, -8, 7, 3>>)
      mm == Linear2("y", "matmul", x, w, "i32", 3, 2, 2, NoAttrs)
  IN Function(<<x, w>> \o mm
              \o Biased(Last(mm), Weight("bias", <<2>>, "i32", <<-8, 5>>), <<1>>))
ByteConv(mark, stride, dilation, bias) ==
  LET x == Arg(1, <<1, 1, 3, 3>>, "i8")
      w == Weight("w", <<2, 1, 2, 2>>, "i8", <<1, -8, 3, 7, -2, 5, 0, -8>>)
      Size1(d) == ((3 - dilation - 1) \div stride[d]) + 1
      shape == <<1, 2, Size1(1), Size1(2)>>
      z == Zeros("z", shape, "i32")
      y == Dot(<<"y">>, "conv_2d_nchw_fchw", x, w, z, shape, <<1, 2, 2>>,
               [stride |-> stride, dilation |-> <<dilation, dilation>>, mark |-> mark])
  IN Function(<<x, w, z, y>>
       \o IF bias THEN Biased(y, Weight("bias", <<2>>, "i32", <<3, -7>>), <<1, 3, 4>>) ELSE <<>>)
\* What the ONNX importer writes for a MatMul of bytes.
Imported ==
  LET x == Arg(1, <<2, 3>>, "i8")  w == Weight("w", <<3, 3>>, "i8", W9)
      zp == Zeros("zp", <<2, 3>>, "i32")
      Generic(op) == [op EXCEPT !.at = [generic |-> TRUE] @@ @]
      xe == Generic(Each(<<"xe">>, "extsi", <<x>>, "i32"))
      xs == Generic(Each(<<"xs">>, "subi", <<xe, zp>>, "i32"))
      we == Generic(Each(<<"we">>, "extsi", <<w>>, "i32"))
  IN Function(<<x, w, zp, xe, xs, we>>
              \o Linear2("y", "matmul", xs, we, "i64", 2, 3, 3, NoAttrs))
\* A matvec into i21, in its own form: no marker, several tiles.
Narrow ==
  LET x == Arg(1, <<3>>, "i8")  w == Weight("w", <<3, 3>>, "i8", W9)
      z == Zeros("z", <<3>>, "i21")
  IN Function(<<x, w, z, Dot(<<"y">>, "matvec", w, x, z, <<3>>, <<3>>, NoAttrs)>>)
\* Two products, the second of the first: two transactions.
Chained ==
  LET x == Arg(1, <<1, 2>>, "i8")
      w == Weight("w", <<2, 2>>, "i8", <<1, -2, 3, 1>>)
      v == Weight("v", <<2, 2>>, "i8", <<-1, 7, 2, 1>>)
      mm == Linear2("y", "matmul", x, w, "i32", 1, 2, 2, NoAttrs)
      q == Each(<<"q">>, "trunci", <<Last(mm)>>, "i8")
  IN Function(<<x, w, v>> \o mm \o <<q>>
              \o Linear2("r", "matmul", q, v, "i32", 1, 2, 2, NoAttrs))

-----------------------------------------------------------------------------
(* Floats.                                                                 *)

Floats6 == << << <<1, -2, 3, 2, 0, -1>> >>, << <<0, 0, 1, 1, -1, 2>> >> >>
F9 == <<1, -1, 2, 0, 1, -2, 1, 1, -1>>
\* A Linear with bias, a rectifier, and a Linear whose input cannot be negative.
FloatLinear ==
  LET x == Arg(1, <<2, 3>>, "f32")  w == Weight("w", <<3, 3>>, "f32", F9)
      mm == Linear2("y", "matmul_transpose_b", x, w, "f32", 2, 3, 3, NoAttrs)
      bias == Weight("bias", <<2, 3>>, "f32", <<1, 0, -1, 1, 0, -1>>)
      sum == Each(<<"sum">>, "addf", <<Last(mm), bias>>, "f32")
      zero == Zeros("relu0", <<2, 3>>, "f32")
      relu == Each(<<"relu">>, "maximumf", <<sum, zero>>, "f32")
      v == Weight("v", <<3, 1>>, "f32", <<1, -1, 1>>)
  IN Function(<<x, w>> \o mm \o <<bias, sum, zero, relu, v>>
              \o Linear2("r", "matmul", relu, v, "f32", 2, 1, 3, NoAttrs))
SharedBatch ==
  LET x == Arg(1, <<2, 1, 3>>, "f32")  w == Weight("w", <<3, 2>>, "f32", <<1, -1, 2, 0, 1, -2>>)
      b == Broadcast(<<"wb">>, w, <<2, 3, 2>>, <<1>>)
      z == Zeros("z", <<2, 1, 2>>, "f32")
  IN Function(<<x, w, b, z,
                Dot(<<"y">>, "batch_matmul", x, b, z, <<2, 1, 2>>, <<3>>, NoAttrs)>>)
Positives == << << <<1, 2, 1, 3, 1, 2>> >> >>
PositiveLinear(elem) ==
  LET x == Arg(1, <<2, 3>>, elem)
      w == Weight("w", <<3, 2>>, elem, <<1, 1, 2, 1, 1, 2>>)
  IN Function(<<x, w>> \o Linear2("y", "matmul", x, w, elem, 2, 2, 3, NoAttrs))
\* More columns than a kernel takes: a loop of blocks and a tail.
Wide ==
  LET x == Arg(1, <<5, 2>>, "f32")  w == Weight("w", <<2, 2>>, "f32", <<1, -1, 2, 1>>)
  IN Function(<<x, w>> \o Linear2("y", "matmul", x, w, "f32", 5, 2, 2, NoAttrs))
Wides == << << <<1, -1, 2, 0, 0, 3, -2, -2, 1, 1>> >> >>

\* Convolutions: one with a bias in its initializer, one grouped, one depthwise.
Image(n) == << << List(n, LAMBDA i : ((i * 5) % 4) - 1) >> >>
ConvWeights(n) == List(n, LAMBDA i : ((i * 7) % 4) - 1)
FloatConv ==
  LET x == Arg(1, <<1, 1, 2, 3>>, "f32")
      w == Weight("w", <<2, 1, 2, 2>>, "f32", ConvWeights(8))
      bias == Weight("bias", <<2>>, "f32", <<1, -2>>)
      init == Broadcast(<<"init">>, bias, <<1, 2, 1, 2>>, <<1, 3, 4>>)
  IN Function(<<x, w, bias, init,
       Dot(<<"y">>, "conv_2d_nchw_fchw", x, w, init, <<1, 2, 1, 2>>, <<1, 2, 2>>, NoAttrs)>>)
ChannelsLast ==
  LET x == Arg(1, <<1, 2, 2, 2>>, "f32")
      w == Weight("w", <<1, 1, 2, 2>>, "f32", ConvWeights(4))
      z == Zeros("z", <<1, 2, 2, 2>>, "f32")
  IN Function(<<x, w, z,
       Dot(<<"y">>, "conv_2d_nhwc_hwcf", x, w, z, <<1, 2, 2, 2>>, <<1, 1, 2>>, NoAttrs)>>)
Grouped ==
  LET x == Arg(1, <<1, 2, 1, 1, 2>>, "f32")
      w == Weight("w", <<2, 1, 1, 1, 2>>, "f32", <<1, -1, 2, 1>>)
      z == Zeros("z", <<1, 2, 1, 1, 1>>, "f32")
  IN Function(<<x, w, z,
       Dot(<<"y">>, "conv_2d_ngchw_gfchw", x, w, z, <<1, 2, 1, 1, 1>>, <<1, 1, 2>>, NoAttrs)>>)
Depthwise ==
  LET x == Arg(1, <<1, 2, 2, 2>>, "f32")
      w == Weight("w", <<2, 1, 2>>, "f32", <<1, -1, 2, 1>>)
      bias == Const(<<"init">>, <<1, 2, 2, 1>>, "f32", <<1, 2, 0, -1>>)
  IN Function(<<x, w, bias,
       Dot(<<"y">>, "depthwise_conv_2d_nchw_chw", x, w, bias, <<1, 2, 2, 1>>, <<1, 2>>, NoAttrs)>>)
\* Eight tiles for every column: two waves, which alternate.
Alternating ==
  LET x == Arg(1, <<2, 4>>, "i8")
      w == Weight("w", <<4, 8>>, "i8", List(32, LAMBDA i : ((i * 11) % 15) - 7))
  IN Function(<<x, w>> \o Linear2("y", "matmul", x, w, "i32", 2, 8, 4, NoAttrs))
Bytes8 == << << <<1, -8, 7, 2, 3, -5, 0, 4>> >> >>

-----------------------------------------------------------------------------
MCCases ==
  {DirectCase("byte linear", ByteLinear, Bytes6),
   DirectCase("boundary", Boundary, Bytes6),
   DirectCase("byte bias", ByteBias, Bytes6),
   DirectCase("exact bias", ExactBias, Bytes6),
   [DirectCase("no extra tile", ExactBias, Bytes6) EXCEPT !.extraKTile = FALSE],
   DirectCase("conv", ByteConv("none", <<1, 1>>, 1, FALSE), Bytes9),
   DirectCase("conv bias", ByteConv("none", <<2, 1>>, 1, TRUE), Bytes9),
   DirectCase("ConvInteger", ByteConv("conv_integer", <<1, 2>>, 1, FALSE), Bytes9),
   DirectCase("dilated ConvInteger", ByteConv("conv_integer", <<1, 1>>, 2, FALSE), Bytes9),
   DirectCase("imported", Imported, Bytes6),
   DirectCase("narrow", Narrow, << << <<1, -8, 7>> >> >>),
   DirectCase("chained", Chained, << << <<1, -2>> >>, << <<-8, 7>> >> >>),
   SplitCase("byte linear, split", ByteLinear, Bytes6),
   SplitCase("alternating", Alternating, Bytes8),
   [SplitCase("alternating, in order", Alternating, Bytes8) EXCEPT !.residency = FALSE],
   SplitCase("float linear", FloatLinear, Floats6),
   SplitCase("shared batch", SharedBatch, Floats6),
   SplitCase("bf16 linear", PositiveLinear("bf16"), Positives),
   [SplitCase("legacy", PositiveLinear("f32"), Positives) EXCEPT !.compensation = "legacy"],
   [SplitCase("uncompensated", PositiveLinear("f32"), Positives) EXCEPT !.compensation = "none"],
   SplitCase("wide", Wide, Wides),
   [SplitCase("narrow blocks", Wide, Wides) EXCEPT !.maxColumns = 2],
   SplitCase("conv, split", FloatConv, Image(6)),
   SplitCase("channels last", ChannelsLast, Image(8)),
   SplitCase("grouped", Grouped, Image(4)),
   SplitCase("depthwise", Depthwise, Image(8))}
=============================================================================
