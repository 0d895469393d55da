-------------------------- MODULE PoseidonConstants --------------------------
(***************************************************************************)
(* The tables of poseidon_goldilocks_constants.h that the permutation      *)
(* reads.  A word of 64 bits is written as four numbers of 16 bits, the    *)
(* highest first, so that its hexadecimal digits are those of the source.  *)
(* The tables M_ and P_, copies of the matrices M and P in one dimension,  *)
(* are read by nothing.                                                    *)
(***************************************************************************)
EXTENDS Integers, Sequences

\* Constants of the first full rounds, of the partial ones, of the last ones.
C ==
  <<<<\hB585, \hF766, \hF214, \h4405>>, <<\h7746, \hA55F, \h4392, \h1AD7>>, <<\hB2FB, \h0D31, \hCEE7, \h99B4>>,
    <<\h0F67, \h60A4, \h8034, \h27D7>>, <<\hE10D, \h6666, \h50F4, \hE012>>, <<\h8CAE, \h14CB, \h07D0, \h9BF1>>,
    <<\hD438, \h539C, \h95F6, \h3E9F>>, <<\hEF78, \h1C7C, \hE35B, \h4C3D>>, <<\hCDC4, \hA239, \hB0C4, \h4426>>,
    <<\h277F, \hA208, \hBF33, \h7BFF>>, <<\hE176, \h53A2, \h9DA5, \h78A1>>, <<\hC543, \h02F2, \h25DB, \h2C76>>,
    <<\hAC6C, \h9C2B, \h4418, \hDD61>>, <<\hE088, \h8EB1, \hE8A0, \h1286>>, <<\h813D, \hBE95, \h2B98, \h904E>>,
    <<\hCC30, \h3360, \h9C9C, \hF175>>, <<\h72CE, \hBC82, \hA59C, \h0F82>>, <<\h8150, \hD852, \h5753, \hE741>>,
    <<\hB112, \h2C74, \hB268, \hD66E>>, <<\h07C6, \hDDD4, \h8237, \h5AA2>>, <<\hA4DD, \h6F1E, \hF49F, \hB6AF>>,
    <<\hD33B, \h0D5B, \h4F7C, \hCFE5>>, <<\hC523, \h1122, \h4720, \h9124>>, <<\h4648, \h0420, \h0134, \hC32D>>,
    <<\hCD09, \hDEA1, \h80DE, \h4F2C>>, <<\hADB0, \h6922, \h5C93, \hE4E6>>, <<\hBF01, \h209B, \h8A7C, \h8534>>,
    <<\hB1EB, \h37D3, \h1991, \h3823>>, <<\hDADF, \h943B, \h8D3E, \h5A0D>>, <<\h6D15, \hF3CB, \h7A35, \h20BA>>,
    <<\hF07A, \hF62B, \h134E, \hF181>>, <<\h5683, \h5507, \h6C6B, \h0DE6>>, <<\h31CA, \h4BF9, \h3CAB, \h68B8>>,
    <<\h0FBA, \hD37A, \h1257, \h35BA>>, <<\h9D3A, \h9CAA, \hF1AC, \h9E0A>>, <<\h4F26, \h5810, \hF020, \hC095>>,
    <<\h6A84, \hC952, \h4E81, \hA8BC>>, <<\h68BA, \h4105, \h3792, \h5C79>>, <<\h4226, \h0463, \h1B34, \hB07A>>,
    <<\h28E3, \hA001, \hF62F, \h8290>>, <<\h3ADF, \hDCCB, \h8F73, \h4D41>>, <<\h7350, \h3E53, \h9BAE, \hC66A>>,
    <<\hE8C1, \hFD01, \h42D9, \h849C>>, <<\hE204, \hAC13, \h6605, \h46C5>>, <<\h8E2B, \hB3EA, \h97A4, \h0C53>>,
    <<\hAC28, \h00D1, \hBF56, \h548C>>, <<\h9494, \hDCA0, \h05D1, \h80D0>>, <<\hF36E, \h1D06, \h6383, \hEF53>>,
    <<\h8AA3, \h5B97, \hA0E0, \h3C04>>, <<\hCF42, \hA59A, \hDDBD, \h1F0C>>, <<\hA43A, \hCE89, \hF8FD, \hBD79>>,
    <<\h0375, \h85D8, \hC243, \h870C>>, <<\h4AB9, \h4EE3, \hE265, \h96FE>>, <<\hCEE3, \hABBB, \h50D5, \h7B23>>,
    <<\hAC91, \hA710, \h1A5E, \hC55B>>, <<\h9173, \hAA84, \h6228, \h0D2D>>, <<\hAEC1, \hCA46, \hCCB9, \h5105>>,
    <<\h57B2, \hF284, \h5DB6, \h1E4A>>, <<\h9570, \h4158, \h500C, \h90C6>>, <<\h66E0, \h23B0, \hE6C9, \hDF5F>>,
    <<\h315F, \h63F4, \hFEC3, \h60BA>>, <<\hF300, \h9795, \h713A, \hBCF1>>, <<\hF4DE, \hCC3F, \hB007, \h65EE>>,
    <<\h3262, \h0AC9, \h1868, \h2D50>>, <<\h4971, \h7D63, \hA5FC, \h742E>>, <<\h1535, \h16F2, \h2014, \hEA2D>>,
    <<\hCC31, \h6380, \hA276, \h1FE4>>, <<\h2E49, \hB3F7, \h076D, \h203D>>, <<\h44AC, \h3E9B, \hF0A2, \hDC89>>,
    <<\h0049, \hD1E3, \h88D8, \hE35C>>, <<\h53EC, \h867C, \hB399, \h89FA>>, <<\hD2C9, \hBCC8, \hD65F, \h5A62>>,
    <<\hC0CC, \h930E, \hE854, \h0455>>, <<\h0406, \h51E0, \h8725, \h05E8>>, <<\h1689, \h73B2, \hEBAF, \hBE6C>>,
    <<\h9C7E, \hECB3, \hB405, \h81C2>>, <<\h3894, \h73BC, \hDFCA, \h97A2>>, <<\hB1CB, \h0B3A, \hBE97, \h53AD>>,
    <<\h41AF, \hCECC, \hFFDB, \h18E6>>, <<\h7BF8, \h41E2, \h37CC, \hD6C9>>, <<\h0608, \h2A3F, \h101F, \hB888>>,
    <<\h8C1A, \h3919, \h6F41, \h63CC>>, <<\hB566, \h6476, \h0C1C, \h9476>>, <<\h2A02, \hAC02, \h0D1E, \hB5A3>>,
    <<\h6A9D, \h48E8, \hAA83, \h605D>>, <<\h8A0D, \h2F5C, \h4C9C, \h51B2>>, <<\h75FC, \h6557, \h5B28, \h4AD4>>,
    <<\hADAE, \hDF7D, \h1CE2, \hA8DD>>, <<\h235B, \hC889, \hCC83, \h968E>>, <<\hA8C3, \h0CF1, \h7817, \h38F5>>,
    <<\h546B, \h2A84, \h6753, \hBCF8>>, <<\h9B68, \hE8C0, \h6C04, \hBD25>>, <<\h3FDF, \h8079, \h4EBB, \h443B>>,
    <<\h92CA, \h132A, \h9BEC, \h5A45>>, <<\h7613, \h3EEC, \hFD9B, \hD1FF>>, <<\h3FB0, \hFD53, \h8105, \h4812>>,
    <<\hF159, \h2597, \h8DBD, \h52FF>>, <<\h2EE2, \h89AC, \h37F0, \hE879>>, <<\hD8AF, \h8654, \hE9A2, \hE659>>,
    <<\h8595, \hBBD7, \hF34C, \h5E8A>>, <<\h0206, \hDDBF, \h781E, \h47B2>>, <<\hE101, \hA767, \h854A, \h2F97>>,
    <<\hF4D4, \hF0A0, \h1072, \hC996>>, <<\h197A, \hEC28, \h94AA, \hB642>>, <<\h8D0C, \h3911, \h220D, \hB49B>>,
    <<\hA62A, \h8BAD, \h6092, \h27CA>>, <<\h1E48, \h13A7, \hE7B9, \hCBCE>>, <<\h6B54, \h7528, \h7312, \h44EB>>,
    <<\hD08E, \h4851, \h2BFE, \hA84E>>, <<\hB292, \h0C88, \hD388, \h5857>>, <<\h1F0C, \hD5D7, \hA309, \hFCC2>>,
    <<\h99A0, \hEA08, \h42FD, \hB4FB>>, <<\hC227, \h2105, \h54B6, \hC53D>>, <<\h70E5, \h2697, \h08F6, \hF3A9>>,
    <<\hBE8F, \h71C8, \hC98B, \hB3BD>>, <<\hF96F, \hB39A, \hDC4B, \hAAF6>>, <<\h7F9A, \h7555, \hC60F, \hC6C7>>,
    <<\hCCAA, \h5446, \hD71F, \hE6A5>>>>

\* The matrix of the full rounds: small numbers.
M ==
  <<<<25, 20, 34, 18, 39, 13, 13, 28, 2, 16, 41, 15>>,
    <<15, 17, 20, 34, 18, 39, 13, 13, 28, 2, 16, 41>>,
    <<41, 15, 17, 20, 34, 18, 39, 13, 13, 28, 2, 16>>,
    <<16, 41, 15, 17, 20, 34, 18, 39, 13, 13, 28, 2>>,
    <<2, 16, 41, 15, 17, 20, 34, 18, 39, 13, 13, 28>>,
    <<28, 2, 16, 41, 15, 17, 20, 34, 18, 39, 13, 13>>,
    <<13, 28, 2, 16, 41, 15, 17, 20, 34, 18, 39, 13>>,
    <<13, 13, 28, 2, 16, 41, 15, 17, 20, 34, 18, 39>>,
    <<39, 13, 13, 28, 2, 16, 41, 15, 17, 20, 34, 18>>,
    <<18, 39, 13, 13, 28, 2, 16, 41, 15, 17, 20, 34>>,
    <<34, 18, 39, 13, 13, 28, 2, 16, 41, 15, 17, 20>>,
    <<20, 34, 18, 39, 13, 13, 28, 2, 16, 41, 15, 17>>>>

\* The matrix between the full rounds and the partial ones, row by row.
P ==
  <<<<<<\h0000, \h0000, \h0000, \h0019>>, <<\h7856, \h6230, \hAA7C, \hC5D0>>, <<\hDBF2, \h3E50, \h005E, \h7F24>>,
      <<\hB4A0, \h2C5C, \h826D, \h523E>>, <<\h466D, \h8F66, \hA8F9, \hFED5>>, <<\h068D, \hA226, \h4F65, \hEC3E>>,
      <<\hB59F, \h9FF0, \hAC6D, \h5D78>>, <<\hCFB0, \h3C90, \h2D44, \h7551>>, <<\h2044, \hCE14, \hEAF8, \hF5D9>>,
      <<\hFB93, \h73C8, \h481E, \h0F0D>>, <<\h72AF, \h70CD, \hCB99, \h214F>>, <<\hE3EF, \h40EA, \hCC6F, \hF78D>>>>,
    <<<<\h0000, \h0000, \h0000, \h000F>>, <<\h817B, \hD8A7, \h869E, \hD1B5>>, <<\h819F, \h2C14, \hA836, \h6B1F>>,
      <<\h7A5C, \hF5B7, \hB922, \hE946>>, <<\h727E, \hCA45, \hC8D7, \hBB71>>, <<\h605A, \h82C5, \h2B5A, \hD2F1>>,
      <<\h59CC, \hC4D5, \h184B, \hC93A>>, <<\h66C8, \hBAB2, \h096C, \hFD38>>, <<\hEB4C, \h0CE2, \h80C3, \hE935>>,
      <<\h17F9, \h202C, \h1667, \h6B2F>>, <<\h9B6E, \h5164, \hED35, \hD878>>, <<\h6FAD, \hC934, \h7FAE, \hEE81>>>>,
    <<<<\h0000, \h0000, \h0000, \h0029>>, <<\hD267, \h254B, \hEA10, \h97F4>>, <<\h2DC1, \h0FCE, \h3233, \hF443>>,
      <<\hFA9D, \hB0DE, \h2D85, \h2E7A>>, <<\hDE2A, \h0516, \hF8C9, \hD943>>, <<\hE6FD, \hF236, \h4893, \h1B99>>,
      <<\h3743, \h057C, \h07A5, \hDBFA>>, <<\hA6FD, \hB8EB, \hCCC5, \h1667>>, <<\h2C49, \h1660, \h5E3D, \hEA58>>,
      <<\hE95C, \h10AE, \h32E0, \h5085>>, <<\h97F9, \hB7D2, \hCFC2, \hADE5>>, <<\h9B6E, \h5164, \hED35, \hD878>>>>,
    <<<<\h0000, \h0000, \h0000, \h0010>>, <<\h60C3, \h3EBD, \h1E02, \h3F0A>>, <<\hDB69, \h45A2, \h0D27, \h7091>>,
      <<\h383D, \hD77E, \h0799, \h8487>>, <<\hE04E, \hA195, \h7AD8, \h305C>>, <<\hD499, \hFCBF, \h63FB, \hD266>>,
      <<\h4622, \h69E4, \hB046, \h20A5>>, <<\h63C9, \h679D, \h8572, \hA867>>, <<\h81C4, \h4E96, \h9991, \h5693>>,
      <<\h62EC, \hBE05, \hE024, \h33FC>>, <<\hE95C, \h10AE, \h32E0, \h5085>>, <<\h17F9, \h202C, \h1667, \h6B2F>>>>,
    <<<<\h0000, \h0000, \h0000, \h0002>>, <<\hA89E, \hF32A, \hE146, \h2322>>, <<\h77C1, \hA153, \hE736, \h59E8>>,
      <<\h2AEC, \h981B, \hE4B6, \h2ED5>>, <<\hB70F, \hB5F2, \hB4F1, \hF85F>>, <<\h7C66, \hD474, \hCD20, \h87CB>>,
      <<\h3930, \h2966, \hBE7D, \hF654>>, <<\hB827, \hC807, \h8755, \h11C0>>, <<\hA4DA, \hFFB3, \hFFD0, \hE78F>>,
      <<\h81C4, \h4E96, \h9991, \h5693>>, <<\h2C49, \h1660, \h5E3D, \hEA58>>, <<\hEB4C, \h0CE2, \h80C3, \hE935>>>>,
    <<<<\h0000, \h0000, \h0000, \h001C>>, <<\h6250, \hF5F1, \h76D4, \h83E7>>, <<\hAAD1, \h255D, \h46E7, \h8F07>>,
      <<\h8A00, \hC7C8, \h3C76, \h2584>>, <<\hC734, \hF382, \h9ED3, \h0B0C>>, <<\hB1A0, \h1322, \h88B1, \h619B>>,
      <<\h8868, \h5B4F, \h0798, \hDFD1>>, <<\hFC02, \hE869, \hE21B, \h72F8>>, <<\hB827, \hC807, \h8755, \h11C0>>,
      <<\h63C9, \h679D, \h8572, \hA867>>, <<\hA6FD, \hB8EB, \hCCC5, \h1667>>, <<\h66C8, \hBAB2, \h096C, \hFD38>>>>,
    <<<<\h0000, \h0000, \h0000, \h000D>>, <<\hE16A, \h6C1D, \hEE3B, \hA347>>, <<\h13D3, \h16E4, \h5539, \hAEF4>>,
      <<\h577E, \h0472, \h764F, \h061D>>, <<\h226A, \h4DCF, \h5DB3, \h316D>>, <<\h3373, \h035A, \h3CA3, \hDAC6>>,
      <<\h441F, \h3A37, \h47B5, \hADB7>>, <<\h8868, \h5B4F, \h0798, \hDFD1>>, <<\h3930, \h2966, \hBE7D, \hF654>>,
      <<\h4622, \h69E4, \hB046, \h20A5>>, <<\h3743, \h057C, \h07A5, \hDBFA>>, <<\h59CC, \hC4D5, \h184B, \hC93A>>>>,
    <<<<\h0000, \h0000, \h0000, \h000D>>, <<\hEC97, \h3013, \h6B7C, \h2C05>>, <<\hE1EC, \hC5C2, \h1EEC, \h0646>>,
      <<\h956D, \h3C8B, \h5528, \hE064>>, <<\h6DF1, \hD31F, \hA843, \h98F4>>, <<\hF489, \h8A1A, \h3554, \hEE49>>,
      <<\h3373, \h035A, \h3CA3, \hDAC6>>, <<\hB1A0, \h1322, \h88B1, \h619B>>, <<\h7C66, \hD474, \hCD20, \h87CB>>,
      <<\hD499, \hFCBF, \h63FB, \hD266>>, <<\hE6FD, \hF236, \h4893, \h1B99>>, <<\h605A, \h82C5, \h2B5A, \hD2F1>>>>,
    <<<<\h0000, \h0000, \h0000, \h0027>>, <<\h3CF7, \hC3A3, \h9D94, \hC236>>, <<\h9E62, \hC7D7, \hB000, \hCB0B>>,
      <<\hE202, \hBE7A, \hD726, \h5AF6>>, <<\h8217, \h8371, \hFA5F, \hFF69>>, <<\h6DF1, \hD31F, \hA843, \h98F4>>,
      <<\h226A, \h4DCF, \h5DB3, \h316D>>, <<\hC734, \hF382, \h9ED3, \h0B0C>>, <<\hB70F, \hB5F2, \hB4F1, \hF85F>>,
      <<\hE04E, \hA195, \h7AD8, \h305C>>, <<\hDE2A, \h0516, \hF8C9, \hD943>>, <<\h727E, \hCA45, \hC8D7, \hBB71>>>>,
    <<<<\h0000, \h0000, \h0000, \h0012>>, <<\hB470, \h7207, \h455F, \h57E3>>, <<\h8E1D, \hE42B, \h665C, \h6706>>,
      <<\h0EE7, \hB045, \h6820, \h3481>>, <<\hE202, \hBE7A, \hD726, \h5AF6>>, <<\h956D, \h3C8B, \h5528, \hE064>>,
      <<\h577E, \h0472, \h764F, \h061D>>, <<\h8A00, \hC7C8, \h3C76, \h2584>>, <<\h2AEC, \h981B, \hE4B6, \h2ED5>>,
      <<\h383D, \hD77E, \h0799, \h8487>>, <<\hFA9D, \hB0DE, \h2D85, \h2E7A>>, <<\h7A5C, \hF5B7, \hB922, \hE946>>>>,
    <<<<\h0000, \h0000, \h0000, \h0022>>, <<\hAADB, \h39E8, \h3E76, \hA9E0>>, <<\hCD9B, \hF0BD, \h292C, \h5FDA>>,
      <<\h8E1D, \hE42B, \h665C, \h6706>>, <<\h9E62, \hC7D7, \hB000, \hCB0B>>, <<\hE1EC, \hC5C2, \h1EEC, \h0646>>,
      <<\h13D3, \h16E4, \h5539, \hAEF4>>, <<\hAAD1, \h255D, \h46E7, \h8F07>>, <<\h77C1, \hA153, \hE736, \h59E8>>,
      <<\hDB69, \h45A2, \h0D27, \h7091>>, <<\h2DC1, \h0FCE, \h3233, \hF443>>, <<\h819F, \h2C14, \hA836, \h6B1F>>>>,
    <<<<\h0000, \h0000, \h0000, \h0014>>, <<\h32F8, \hAE91, \h6E56, \h7D39>>, <<\hAADB, \h39E8, \h3E76, \hA9E0>>,
      <<\hB470, \h7207, \h455F, \h57E3>>, <<\h3CF7, \hC3A3, \h9D94, \hC236>>, <<\hEC97, \h3013, \h6B7C, \h2C05>>,
      <<\hE16A, \h6C1D, \hEE3B, \hA347>>, <<\h6250, \hF5F1, \h76D4, \h83E7>>, <<\hA89E, \hF32A, \hE146, \h2322>>,
      <<\h60C3, \h3EBD, \h1E02, \h3F0A>>, <<\hD267, \h254B, \hEA10, \h97F4>>, <<\h817B, \hD8A7, \h869E, \hD1B5>>>>>>

\* The sparse matrices of the partial rounds, 23 numbers each: the twelve of
\* what becomes element 0, and the eleven that element 0 is added by elsewhere.
S_of_rounds_0_to_5 ==
  <<<<\h0000, \h0000, \h0000, \h0019>>, <<\h3D99, \h9C96, \h1B7C, \h63B0>>, <<\h814E, \h82EF, \hCD17, \h2529>>,
    <<\h2421, \hE5D2, \h3670, \h4588>>, <<\h887A, \hF7D4, \hDD48, \h2328>>, <<\hA5E9, \hC291, \hF611, \h9B27>>,
    <<\hBDC5, \h2B26, \h76A4, \hB4AA>>, <<\h6483, \h2009, \hD29B, \hCF57>>, <<\h09C4, \h1551, \h74A5, \h52CC>>,
    <<\h463F, \h9EE0, \h3D29, \h0810>>, <<\hC810, \h936E, \h6498, \h2542>>, <<\h043B, \h1C28, \h9F7B, \hC3AC>>,
    <<\h9487, \h7900, \h6741, \h81C3>>, <<\hC6C6, \h7CC3, \h7A2A, \h2BBD>>, <<\hD667, \hC205, \h5387, \h940F>>,
    <<\h0BA6, \h3A63, \hE94B, \h5FF0>>, <<\h9946, \h0CC4, \h1B8F, \h079F>>, <<\h7FF0, \h2375, \hED52, \h4BB3>>,
    <<\hEA08, \h70B4, \h7A8C, \hAF0E>>, <<\hABCA, \hD826, \h33B7, \hBC9D>>, <<\h3B8D, \h1352, \h6105, \h2241>>,
    <<\hFB45, \h15F5, \hE5B0, \hD539>>, <<\h3EE8, \h011C, \h2B37, \hF77C>>, <<\h0000, \h0000, \h0000, \h0019>>,
    <<\h6736, \h55AA, \hE8BE, \h5A8B>>, <<\hD510, \hFE71, \h4F39, \hFA10>>, <<\h2C68, \hA099, \hB51C, \h9E73>>,
    <<\hA667, \hBFA9, \hAA96, \h999D>>, <<\h4D67, \hE72F, \h063E, \h2108>>, <<\hF84D, \hDE3E, \h6ACD, \hA179>>,
    <<\h40F9, \hCC8C, \h08F8, \h0981>>, <<\h5EAD, \h0320, \h5009, \h7142>>, <<\h6591, \hB020, \h92D6, \h71BB>>,
    <<\h00E1, \h8C71, \h963D, \hD1B7>>, <<\h8A21, \hBCD2, \h4A14, \h218A>>, <<\h0ADE, \hF374, \h0E71, \hC726>>,
    <<\hA37B, \hF67C, \h6F98, \h6559>>, <<\hC6B1, \h6F7E, \hD4FA, \h1B00>>, <<\h6A06, \h5DA8, \h8D8B, \hFC3C>>,
    <<\h4CAB, \hC091, \h6844, \hB46F>>, <<\h407F, \hAAC0, \hF02E, \h78D1>>, <<\h07A7, \h86D9, \hCF08, \h52CF>>,
    <<\h4243, \h3FB6, \h949A, \h629A>>, <<\h8916, \h82A1, \h47CE, \h43B0>>, <<\h26CF, \hD58E, \h7B00, \h3B55>>,
    <<\h2BBF, \h0ED7, \hB657, \hACB3>>, <<\h0000, \h0000, \h0000, \h0019>>, <<\h2028, \h00F4, \hADDB, \hDC87>>,
    <<\hE4B5, \hBDB1, \hCC35, \h04FF>>, <<\hBE32, \hB32A, \h8255, \h96E7>>, <<\h8E0F, \h68C5, \hDC22, \h3B9A>>,
    <<\h5802, \h2D9E, \h1C25, \h6CE3>>, <<\h584D, \h2922, \h7AA0, \h73AC>>, <<\h8B93, \h52AD, \h04BE, \hF9E7>>,
    <<\hAEAD, \h42A3, \hF445, \hECBF>>, <<\h3C66, \h7A1D, \h833A, \h3CCA>>, <<\hDA6F, \h6183, \h8EFA, \h1FFE>>,
    <<\hE8F7, \h4947, \h0BD7, \hC446>>, <<\h481A, \hC774, \h6B15, \h9C67>>, <<\hE367, \hDE32, \hF108, \hE278>>,
    <<\h73F2, \h6008, \h7AD2, \h8BEC>>, <<\h5CFC, \h8221, \h6BC1, \hBDCA>>, <<\hCACC, \hC870, \hA266, \h3A0E>>,
    <<\hDB69, \hCD7B, \h4298, \hC45D>>, <<\h7BC9, \hE0C5, \h7243, \hE62D>>, <<\h3CC5, \h1C5D, \h3686, \h93AE>>,
    <<\h366B, \h4E8C, \hC068, \h895B>>, <<\h2BD1, \h8715, \hCDAB, \hBCA4>>, <<\hA752, \h061C, \h4F33, \hB8CF>>,
    <<\h0000, \h0000, \h0000, \h0019>>, <<\hC5B8, \h5BAB, \h9E5B, \h3869>>, <<\h4524, \h5258, \hAEC5, \h1CF7>>,
    <<\h16E6, \hB8E6, \h8B93, \h1830>>, <<\hE2AE, \h0F05, \h1418, \h112C>>, <<\h0470, \hE26A, \h0093, \hA65B>>,
    <<\h6BEF, \h7197, \h3A81, \h46ED>>, <<\h1192, \h65BE, \h5181, \h2DAF>>, <<\hB0BE, \h7356, \h254B, \hEA2E>>,
    <<\h8584, \hDEFF, \hF758, \h9BD7>>, <<\h3C5F, \hE4AE, \hB1FB, \h52BA>>, <<\h9E7C, \hD88A, \hCF54, \h3A5E>>,
    <<\hB22D, \h2432, \hB72D, \h5098>>, <<\h9E18, \hA487, \hF44D, \h2FE4>>, <<\h4B39, \hE14C, \hE22A, \hBD3C>>,
    <<\h9E77, \hFDE2, \hEB31, \h5E0D>>, <<\hCA5E, \h0385, \hFE67, \h014D>>, <<\h0C2C, \hB99B, \hF1B6, \hBDDB>>,
    <<\h99EC, \h1CD2, \hA446, \h0BFE>>, <<\h8577, \hA815, \hA2FF, \h843F>>, <<\h7D80, \hA6B4, \hFD65, \h18A5>>,
    <<\hEB6C, \h6712, \h3EAB, \h62CB>>, <<\h8F78, \h5165, \h0ECA, \h21A5>>, <<\h0000, \h0000, \h0000, \h0019>>,
    <<\h179B, \hE4BB, \hA87F, \h0A8C>>, <<\hACF6, \h3D95, \hD888, \h7355>>, <<\h6696, \h6701, \h96B0, \h074F>>,
    <<\hD99D, \hDF1F, \hE750, \h85F9>>, <<\hC259, \h7881, \hFEF0, \h283B>>, <<\hCF48, \h395E, \hE6C5, \h4F14>>,
    <<\h1522, \h6A8E, \h4CD8, \hD3B6>>, <<\hC053, \h2973, \h89AF, \h5D3B>>, <<\h2C08, \h893F, \h0D15, \h80E2>>,
    <<\h0ED3, \hCBCF, \hF6FC, \hC5BA>>, <<\hC82F, \h510E, \hCF81, \hF6D0>>, <<\h11BA, \h9A1B, \h8171, \h8C2A>>,
    <<\h9F7D, \h798A, \h3323, \h410C>>, <<\hA821, \h855C, \h8C1C, \hF5E5>>, <<\h535E, \h8D6F, \hAC00, \h31B2>>,
    <<\h404E, \h7C75, \h1B63, \h4320>>, <<\hA729, \h353F, \h6E55, \hD354>>, <<\h4DB9, \h7D92, \hE58B, \hB831>>,
    <<\hB539, \h26C2, \h7897, \hBF7D>>, <<\h9650, \h40D5, \h2FE1, \h15C5>>, <<\h9565, \hFA41, \hEBD3, \h1FD7>>,
    <<\hAAE4, \h438C, \h877E, \hA8F4>>, <<\h0000, \h0000, \h0000, \h0019>>, <<\h94B0, \h6183, \hACB7, \h15CC>>,
    <<\h5003, \h92ED, \h0D43, \h1137>>, <<\h861C, \hC95A, \hD5C8, \h6323>>, <<\h0583, \h0A44, \h3F86, \hC4AC>>,
    <<\h3B68, \h2258, \h74A2, \h0A7C>>, <<\h10B3, \h3098, \h38E2, \h36FB>>, <<\h9B77, \hFC8B, \hCD55, \h9E2C>>,
    <<\hBDEC, \hF5E0, \hCB9C, \hB213>>, <<\h3027, \h6F12, \h21AC, \hE5FA>>, <<\h7935, \hDD34, \h2764, \hA144>>,
    <<\hEAC6, \hDB52, \h0BB0, \h3708>>, <<\h37F4, \hE36A, \hF607, \h3C6E>>, <<\h4EDC, \h0918, \h2108, \h00E9>>,
    <<\hC449, \h98E9, \h9EAE, \h4188>>, <<\h9F43, \h10D0, \h5D06, \h8338>>, <<\h9EC7, \hFE43, \h5068, \h0F29>>,
    <<\hC5B2, \hC1FD, \hC0B5, \h0874>>, <<\hA019, \h20C5, \hEF8B, \h2EBE>>, <<\h59FA, \h6F8B, \hD91D, \h58BA>>,
    <<\h8BFC, \h9EB8, \h9B51, \h5A82>>, <<\hBE86, \hA7A2, \h555A, \hE775>>, <<\hCBB8, \hBBAA, \h3810, \hBABF>>>>

S_of_rounds_6_to_11 ==
  <<<<\h0000, \h0000, \h0000, \h0019>>, <<\h7186, \hA805, \h5102, \h5F8F>>, <<\h6222, \h4755, \h7E9B, \h5371>>,
    <<\hC4CB, \hE326, \hD1AD, \h9742>>, <<\h55F1, \h523A, \hC6A2, \h3EA2>>, <<\hA13D, \hFE77, \hA3D5, \h2F53>>,
    <<\hE307, \h50B6, \h301C, \h0452>>, <<\h08BD, \h4880, \h70A3, \hA32B>>, <<\hCD80, \h0CAE, \hF5B7, \h2AE3>>,
    <<\h8332, \h9C90, \hF042, \h33CE>>, <<\hB5B9, \h9E66, \h64A0, \hA3EE>>, <<\h6B07, \h3184, \h9E20, \h0A7F>>,
    <<\h577F, \h9A9E, \h7EE3, \hF9C2>>, <<\h88C5, \h22B9, \h49AC, \hE7B1>>, <<\h82F0, \h7007, \hC8B7, \h2106>>,
    <<\h8283, \hD37C, \h6675, \hB50E>>, <<\h98B0, \h74D9, \hBBAC, \h1123>>, <<\h75C5, \h6FB7, \h7583, \h17C1>>,
    <<\hFED2, \h4E20, \h6052, \hBC72>>, <<\h26D7, \hC3D1, \hBC07, \hDAE5>>, <<\hF88C, \h5E44, \h1E28, \hDBB4>>,
    <<\h4FE2, \h7F9F, \h9661, \h5270>>, <<\h514D, \h4BA4, \h9C2B, \h14FE>>, <<\h0000, \h0000, \h0000, \h0019>>,
    <<\hEC3F, \hABC1, \h92B0, \h1799>>, <<\h382B, \h38CE, \hE8EE, \h5375>>, <<\h3BFB, \h6C3F, \h0E61, \h6572>>,
    <<\h514A, \hBD0C, \hF6C7, \hBC86>>, <<\h4752, \h1B13, \h61DC, \hC546>>, <<\h1780, \h9384, \h3F86, \h3D14>>,
    <<\hAD10, \h03C5, \hD289, \h18E7>>, <<\h7384, \h50E4, \h2495, \hBC81>>, <<\hAF94, \h7C59, \hAF5E, \h4047>>,
    <<\h4653, \hFB06, \h8508, \h4EF2>>, <<\h057F, \hDE20, \h62AE, \h35BF>>, <<\hF02A, \h3AC0, \h68EE, \h110B>>,
    <<\h0A36, \h30DA, \hFB8A, \hE2D7>>, <<\hCE0D, \hC874, \hEAF9, \hB55C>>, <<\h9A95, \hF6CF, \hF5B5, \h5C7E>>,
    <<\h626D, \h76AB, \hFED0, \h0C7B>>, <<\hA0C1, \hCF12, \h51C2, \h04AD>>, <<\hDAEB, \hD300, \h6321, \h052C>>,
    <<\h3D4B, \hD48B, \h625A, \h8065>>, <<\h7F1E, \h584E, \h071F, \h6ED2>>, <<\h7205, \h74F0, \h501C, \hAED3>>,
    <<\hE326, \h0BA9, \h3D23, \h540A>>, <<\h0000, \h0000, \h0000, \h0019>>, <<\hE376, \h678D, \h843C, \hE55E>>,
    <<\h66F3, \h860D, \h7514, \hE7FC>>, <<\h7817, \hF3DF, \hFF8B, \h4FFA>>, <<\h3929, \h624A, \h9DEF, \h725B>>,
    <<\h0126, \hCA37, \hF215, \hA80A>>, <<\hFCE2, \hF5D0, \h2762, \hA303>>, <<\h1BC9, \h2737, \h5FEB, \hBAD7>>,
    <<\h85B4, \h81E5, \h243F, \h60BF>>, <<\h2D3C, \h5F42, \hA39C, \h91A0>>, <<\h0811, \h7199, \h1935, \h1AE8>>,
    <<\hF669, \hDE0A, \hDD99, \h3131>>, <<\hAB1C, \hBD41, \hD8C1, \hE335>>, <<\h9322, \hED4C, \h0BC2, \hDF01>>,
    <<\h51C3, \hC098, \h3D42, \h84E5>>, <<\h9417, \h8E29, \h1145, \hC231>>, <<\hFD0F, \h1A97, \h3D6B, \h2085>>,
    <<\hD427, \hAD96, \hE2B3, \h9719>>, <<\h8A52, \h437F, \hECAA, \hC06B>>, <<\hDC20, \hEE4B, \h8C4C, \h9A80>>,
    <<\hA2C9, \h8E95, \h49DA, \h2100>>, <<\h1603, \hFE12, \h613D, \hB5B6>>, <<\h0E17, \h4929, \h433C, \h5505>>,
    <<\h0000, \h0000, \h0000, \h0019>>, <<\h7DE3, \h8BAE, \h084D, \hA92D>>, <<\h5B84, \h8442, \h237E, \h8A9B>>,
    <<\hF6C7, \h05DA, \h84D5, \h7310>>, <<\h31E6, \hA4BD, \hB6A4, \h9017>>, <<\h8894, \h8970, \h6E5C, \h5C0F>>,
    <<\h0E4A, \h2054, \h5969, \h2A1B>>, <<\hBAC3, \hFA75, \hEE26, \hF299>>, <<\h5F58, \h94F4, \h057D, \h755E>>,
    <<\hB0DC, \h3ECD, \h724B, \hB076>>, <<\h5E34, \hD855, \h4A64, \h52BA>>, <<\h04F7, \h8FD8, \hC1FD, \hCC5F>>,
    <<\h3D4E, \hAB2B, \h8EF5, \hF796>>, <<\hCFFF, \h4215, \h8389, \h6E22>>, <<\h4143, \hCB32, \hD39A, \hC3D9>>,
    <<\h2236, \h5051, \hB78A, \h5B65>>, <<\h6F7F, \hD010, \hD027, \hC9B6>>, <<\hD9DD, \h36FB, \hA775, \h22AB>>,
    <<\hA44C, \hF1CB, \h33E3, \h7165>>, <<\h3FC8, \h3D30, \h38C8, \h6417>>, <<\hC458, \h8D41, \h8E88, \hD270>>,
    <<\hCE13, \h20F1, \h0AB8, \h0FE2>>, <<\hDB5E, \hADBB, \hEC18, \hDE5D>>, <<\h0000, \h0000, \h0000, \h0019>>,
    <<\h4DD1, \h9C38, \h7795, \h12EA>>, <<\hDB79, \hBA02, \h7046, \h20E9>>, <<\h92A2, \h9A36, \h75A5, \hD2BE>>,
    <<\hD517, \h7029, \hFE49, \h5166>>, <<\hD32B, \h3298, \hA133, \h30C1>>, <<\h251C, \h4A3E, \hB2C5, \hF8FD>>,
    <<\hE1C4, \h8B26, \hE0D9, \h8825>>, <<\h3301, \hD336, \h2A4F, \hFCCB>>, <<\h09BB, \h6C88, \hDE8C, \hD178>>,
    <<\hDC05, \hB676, \h564F, \h538A>>, <<\h6019, \h2D88, \h3E47, \h3FEE>>, <<\h1183, \hDFCE, \h7C45, \h4AFD>>,
    <<\h21CE, \hA4AA, \h3D3E, \hD949>>, <<\h0FCE, \h6F70, \h303F, \h2304>>, <<\h1955, \h7D34, \hB555, \h51BE>>,
    <<\h4C56, \hF689, \hAFC5, \hBBC9>>, <<\hA1E9, \h2084, \h4334, \hF944>>, <<\hBAD6, \h6D42, \h3D2E, \hC861>>,
    <<\hF318, \hC785, \hDC9E, \h0479>>, <<\h99E2, \h032E, \h765D, \hDD81>>, <<\h400C, \hCC99, \h06D6, \h6F45>>,
    <<\hE119, \h7454, \hDB2E, \h0DD9>>, <<\h0000, \h0000, \h0000, \h0019>>, <<\h16B9, \h7748, \h01AC, \h44A0>>,
    <<\h3CB8, \h411E, \h786D, \h3C8E>>, <<\hA86E, \h9CF5, \h0507, \h2491>>, <<\h0178, \h9281, \h52E1, \h09AE>>,
    <<\h5317, \hB905, \hA6E1, \hAB7B>>, <<\hDA20, \hB3BE, \h7F53, \hD59F>>, <<\hCB97, \hDEDE, \hCEBE, \hE9AD>>,
    <<\h4BD5, \h4521, \h8C59, \hF58D>>, <<\h77DC, \h8D85, \h6C05, \hA44A>>, <<\h8794, \h8589, \hE4F2, \h43FD>>,
    <<\h7E52, \h17AF, \h9699, \h52C2>>, <<\h84D1, \hECC4, \hD53D, \h2FF1>>, <<\hD8AF, \h8B9C, \hEB4E, \h11B6>>,
    <<\h3358, \h56BB, \h527B, \h52F4>>, <<\hC756, \hF17F, \hB59B, \hE595>>, <<\hC065, \h4E4E, \hA555, \h3A78>>,
    <<\h9E9A, \h46B6, \h1F2E, \hA942>>, <<\h14FC, \h8B5B, \h3B80, \h9127>>, <<\hD700, \h9F0F, \h103B, \hE413>>,
    <<\h3E0E, \hE7B7, \hA9FB, \h4601>>, <<\hA74E, \h8889, \h2208, \h5ED7>>, <<\hE80A, \h7CDE, \h3D4A, \hC526>>>>

S_of_rounds_12_to_17 ==
  <<<<\h0000, \h0000, \h0000, \h0019>>, <<\hBC58, \h987D, \h06A8, \h4E4D>>, <<\h0B5D, \h4202, \h44C9, \hCAE3>>,
    <<\hA3C4, \h711B, \h938C, \h02C0>>, <<\h3AAC, \hE640, \hA3E0, \h3990>>, <<\h865A, \h0F32, \h49AA, \hCD8A>>,
    <<\h8D00, \hB2A7, \hDBED, \h06C7>>, <<\h6EAC, \hB905, \hBEB7, \hE2F8>>, <<\h0453, \h22B2, \h16EC, \h3EC7>>,
    <<\hEB9D, \hE00D, \h5948, \h28E6>>, <<\h088C, \h5F20, \hDF9E, \h5C26>>, <<\hF555, \hF411, \h2B19, \h781F>>,
    <<\h238A, \hA6DA, \hA612, \h186D>>, <<\h9137, \hA5C6, \h30BA, \hD4B4>>, <<\hC7DB, \h3817, \h870C, \h5EDA>>,
    <<\h217E, \h4F04, \hE571, \h8DC9>>, <<\hCAE8, \h14E2, \h817B, \hD99D>>, <<\hE329, \h2E7A, \hB770, \hA8BA>>,
    <<\h7BB3, \h6EF7, \h0B6B, \h9482>>, <<\h3C78, \h35FB, \h85BC, \hA2D3>>, <<\hFE2C, \hDF8E, \hE3C2, \h5E86>>,
    <<\h61B3, \h915A, \hD727, \h4B20>>, <<\hEAB7, \h5CA7, \hC918, \hE4EF>>, <<\h0000, \h0000, \h0000, \h0019>>,
    <<\hA8CE, \hDBFF, \h1813, \hD3A7>>, <<\h50DC, \hAEE0, \hFD27, \hD164>>, <<\hF1CB, \h0241, \h7E23, \hBD82>>,
    <<\hFAF3, \h2278, \h6E2A, \hBE8B>>, <<\h937A, \h4315, \hBEB5, \hD9B6>>, <<\h1B18, \h9929, \h21A1, \h1D85>>,
    <<\h7D66, \hC436, \h8B3C, \h497B>>, <<\h0E79, \h4631, \h7A6B, \h4E99>>, <<\hBE44, \h3013, \h4182, \h978B>>,
    <<\h3771, \hE824, \h93AB, \h262D>>, <<\hA671, \h690D, \h8095, \hCE82>>, <<\hD6E1, \h5FFC, \h055E, \h154E>>,
    <<\hEC67, \h881F, \h381A, \h32BF>>, <<\hFBB1, \h1960, \h92BF, \h409C>>, <<\hDC9D, \h2E07, \h830B, \hA226>>,
    <<\h0698, \hEF32, \h45FF, \h7988>>, <<\h194F, \hAE29, \h74F8, \hB576>>, <<\h7A5D, \h9BEA, \h6CA4, \h910E>>,
    <<\h7AEB, \hFEA9, \h5CCD, \hD1C9>>, <<\hF9BD, \h38A6, \h7D5F, \h0E86>>, <<\hFA65, \h539D, \hE654, \h92D8>>,
    <<\hF0DF, \hCBE7, \h653F, \hF787>>, <<\h0000, \h0000, \h0000, \h0019>>, <<\hB035, \h585F, \h6E92, \h9D9D>>,
    <<\hBA15, \h79C7, \hE219, \hB954>>, <<\hCB20, \h1CF8, \h46DB, \h4BA3>>, <<\h287B, \hF917, \h7372, \hCF45>>,
    <<\hA350, \hE4F6, \h1147, \hD0A6>>, <<\hD5D0, \hECFB, \h50BC, \hFF99>>, <<\h2E16, \h6AA6, \hC776, \hED21>>,
    <<\hE1E6, \h6C99, \h1990, \hE282>>, <<\h662B, \h329B, \h01E7, \hBB38>>, <<\h8AA6, \h74B3, \h6144, \hD9A9>>,
    <<\hCBAB, \hF78F, \h97F9, \h5E65>>, <<\h0BD8, \h7AD3, \h9042, \h0258>>, <<\h0AD8, \h617B, \hCA9E, \h33C8>>,
    <<\h0C00, \hAD37, \h7A1E, \h2666>>, <<\h0AC6, \hFC58, \hB3F0, \h518F>>, <<\h0C0C, \hC8A8, \h92CC, \h4173>>,
    <<\h0C21, \h0ACC, \hB117, \hBC21>>, <<\h0B73, \h630D, \hBB46, \hCA18>>, <<\h0C8B, \hE492, \h0CBD, \h4A54>>,
    <<\h0BFE, \h877A, \h21BE, \h1690>>, <<\h0AE7, \h9055, \h9B0D, \hED81>>, <<\h0BF5, \h0DB2, \hF8D6, \hCE31>>,
    <<\h0000, \h0000, \h0000, \h0019>>, <<\hEEC2, \h4B15, \hA06B, \h53FE>>, <<\hC8A7, \hAA07, \hC563, \h3533>>,
    <<\hEFE9, \hC6FA, \h4311, \hAD51>>, <<\hB917, \h3F13, \h9771, \h09A1>>, <<\h69CE, \h43C9, \hCC94, \hAEDC>>,
    <<\hECF6, \h23C9, \hCD11, \h8815>>, <<\h2862, \h5DEF, \h198C, \h33C7>>, <<\hCCFC, \h5F7D, \hE5C3, \h636A>>,
    <<\hF5E6, \hC40F, \h1621, \hC299>>, <<\hCEC0, \hE58C, \h34CB, \h64B1>>, <<\hA868, \hEA11, \h3387, \h939F>>,
    <<\h000C, \hF294, \h27FF, \h7C58>>, <<\h000B, \hD9B3, \hCF49, \hEEC8>>, <<\h000D, \h1DC8, \hAA81, \hFB26>>,
    <<\h000B, \hC792, \hD5C3, \h94EF>>, <<\h000D, \h2AE0, \hB226, \h6453>>, <<\h000D, \h413F, \h12C4, \h96C1>>,
    <<\h000C, \h8412, \h8CFE, \hD618>>, <<\h000D, \hB5EB, \hD48F, \hC0D4>>, <<\h000D, \h1B77, \h326D, \hCB90>>,
    <<\h000B, \hEB0C, \hCC14, \h5421>>, <<\h000D, \h10E5, \hB22B, \h11D1>>, <<\h0000, \h0000, \h0000, \h0019>>,
    <<\hD8DD, \hDBDC, \h5CE4, \hEF45>>, <<\hACFC, \h51DE, \h8131, \h458C>>, <<\h146B, \hB3C0, \hFE49, \h9AC0>>,
    <<\h9E65, \h309F, \h1594, \h3903>>, <<\h80D0, \hAD98, \h0773, \hAA70>>, <<\hF978, \h17D4, \hDDBF, \h0607>>,
    <<\hE462, \h6620, \hA75B, \hA276>>, <<\h0DFD, \hC7FD, \h6FC7, \h4F66>>, <<\hF464, \h864A, \hD6F2, \hBB93>>,
    <<\h02D5, \h5E52, \hA5D4, \h4414>>, <<\hDD8D, \hE624, \h87C4, \h0925>>, <<\h0000, \h0E24, \hC99A, \hDAD8>>,
    <<\h0000, \h0CF3, \h89ED, \h4BC8>>, <<\h0000, \h0E58, \h0CBF, \h6966>>, <<\h0000, \h0CDE, \h5FD7, \hE04F>>,
    <<\h0000, \h0E63, \h6280, \h41B3>>, <<\h0000, \h0E7E, \h81A8, \h7361>>, <<\h0000, \h0DAB, \hE78F, \h6D98>>,
    <<\h0000, \h0EFB, \h14CA, \hC554>>, <<\h0000, \h0E55, \h7474, \h3B10>>, <<\h0000, \h0D05, \h709F, \h42C1>>,
    <<\h0000, \h0E46, \h90C9, \h6AF1>>, <<\h0000, \h0000, \h0000, \h0019>>, <<\hC15A, \hCF44, \h7595, \h45A3>>,
    <<\hCBFD, \hCF39, \h8697, \h19D4>>, <<\h33F6, \h2042, \hE2F8, \h0225>>, <<\h2599, \hC5EA, \hD81D, \h8FA3>>,
    <<\h0B30, \h6CB6, \hC1D7, \hC8D0>>, <<\h658C, \h80D3, \hDF37, \h29B1>>, <<\hE8D1, \hB2B2, \h1B41, \h429C>>,
    <<\hA1B6, \h7F09, \hD4B3, \hCCB8>>, <<\h0E1A, \hDF8B, \h8443, \h7180>>, <<\h0D59, \h3A5E, \h584A, \hF47B>>,
    <<\hA023, \hD94C, \h56E1, \h51C7>>, <<\h0000, \h000F, \h7157, \hBC98>>, <<\h0000, \h000E, \h3006, \hD948>>,
    <<\h0000, \h000F, \hA658, \h11E6>>, <<\h0000, \h000E, \h0D12, \h7E2F>>, <<\h0000, \h000F, \hC18B, \hFE53>>,
    <<\h0000, \h000F, \hD002, \hD901>>, <<\h0000, \h000E, \hED64, \h61D8>>, <<\h0000, \h0010, \h6856, \h2754>>,
    <<\h0000, \h000F, \hA023, \h6F50>>, <<\h0000, \h000E, \h3AF1, \h3EE1>>, <<\h0000, \h000F, \hA460, \hF6D1>>>>

S_of_rounds_18_to_21 ==
  <<<<\h0000, \h0000, \h0000, \h0019>>, <<\h4902, \h6CC3, \hA4AF, \hC5A6>>, <<\hE06D, \hFF00, \hAB25, \hB91B>>,
    <<\h0AB3, \h8C56, \h1E88, \h50FF>>, <<\h92C3, \hC827, \h5E10, \h5EEB>>, <<\hB652, \h56E5, \h4688, \h9BD0>>,
    <<\h3C04, \h6823, \h6EA1, \h42F6>>, <<\hEE61, \h766B, \h889E, \h18F2>>, <<\hA206, \hF41B, \h12C3, \h0415>>,
    <<\h02FE, \h9D75, \h6C9F, \h12D1>>, <<\hE963, \h3210, \h630C, \hBF12>>, <<\h1FFE, \hA9FE, \h85A0, \hB0B1>>,
    <<\h0000, \h0000, \h1113, \h1738>>, <<\h0000, \h0000, \h0F56, \hD588>>, <<\h0000, \h0000, \h1105, \h0F86>>,
    <<\h0000, \h0000, \h0F84, \h8F4F>>, <<\h0000, \h0000, \h1115, \h27D3>>, <<\h0000, \h0000, \h1143, \h69A1>>,
    <<\h0000, \h0000, \h106F, \h2F38>>, <<\h0000, \h0000, \h11E2, \hCA94>>, <<\h0000, \h0000, \h110A, \h29F0>>,
    <<\h0000, \h0000, \h0FA9, \hF5C1>>, <<\h0000, \h0000, \h10F6, \h25D1>>, <<\h0000, \h0000, \h0000, \h0019>>,
    <<\h81D1, \hAE8C, \hC502, \h40F3>>, <<\hF4C7, \h7A07, \h9A46, \h07D7>>, <<\hED44, \h6B23, \h15E3, \hEFC1>>,
    <<\h0B0A, \h6B70, \h9151, \h78C3>>, <<\hB11F, \hF3E0, \h89F1, \h5D9A>>, <<\h1D4D, \hBA0B, \h7AE9, \hCC18>>,
    <<\h65D7, \h4E2F, \h43B4, \h8D05>>, <<\hA2DF, \h8C6B, \h8AE0, \h804A>>, <<\hA4E6, \hF0A8, \hC333, \h48A6>>,
    <<\hC0A2, \h6EFC, \h7BE5, \h669B>>, <<\hA6B6, \h582C, \h547D, \h0D60>>, <<\h0000, \h0000, \h0011, \hF718>>,
    <<\h0000, \h0000, \h0010, \hB6C8>>, <<\h0000, \h0000, \h0013, \h4A96>>, <<\h0000, \h0000, \h0010, \hCF7F>>,
    <<\h0000, \h0000, \h0012, \h4D03>>, <<\h0000, \h0000, \h0013, \hF8A1>>, <<\h0000, \h0000, \h0011, \h7C58>>,
    <<\h0000, \h0000, \h0013, \h2C94>>, <<\h0000, \h0000, \h0013, \h4FC0>>, <<\h0000, \h0000, \h0010, \hA091>>,
    <<\h0000, \h0000, \h0012, \h8961>>, <<\h0000, \h0000, \h0000, \h0019>>, <<\h84AF, \hC741, \hF1C1, \h3213>>,
    <<\h2F8F, \h4373, \h4FC9, \h06F3>>, <<\hDE68, \h2D72, \hDA0A, \h02D9>>, <<\h0BB0, \h0523, \h6ADB, \h9EF2>>,
    <<\h5BDF, \h35C1, \h0A8B, \h5624>>, <<\h0739, \hA8A3, \h4395, \h0010>>, <<\h52F5, \h15F4, \h4785, \hCFBC>>,
    <<\hCBAF, \h4E5D, \h8285, \h6C60>>, <<\hAC9E, \hA090, \h74E3, \hE150>>, <<\h8F0F, \hA011, \hA203, \h5FB0>>,
    <<\h1A37, \h905D, \h8450, \h904A>>, <<\h0000, \h0000, \h0000, \h1300>>, <<\h0000, \h0000, \h0000, \h1750>>,
    <<\h0000, \h0000, \h0000, \h114E>>, <<\h0000, \h0000, \h0000, \h131F>>, <<\h0000, \h0000, \h0000, \h167B>>,
    <<\h0000, \h0000, \h0000, \h1371>>, <<\h0000, \h0000, \h0000, \h1230>>, <<\h0000, \h0000, \h0000, \h182C>>,
    <<\h0000, \h0000, \h0000, \h1368>>, <<\h0000, \h0000, \h0000, \h0F31>>, <<\h0000, \h0000, \h0000, \h15C9>>,
    <<\h0000, \h0000, \h0000, \h0019>>, <<\h3ABE, \hB80D, \hEF61, \hCC85>>, <<\h9D19, \hC9DD, \h4EAC, \h4133>>,
    <<\h075A, \h652D, \h9641, \hA985>>, <<\h9DAF, \h69AE, \h1B67, \hE667>>, <<\h364F, \h71DA, \h7792, \h0A18>>,
    <<\h50BD, \h769F, \h745C, \h95B1>>, <<\hF223, \hD118, \h0DBB, \hF3FC>>, <<\h2F88, \h5E58, \h4E04, \hAA99>>,
    <<\hB69A, \h0FA7, \h0AEA, \h684A>>, <<\h0958, \h4ACA, \hA6E0, \h62A0>>, <<\h0BC0, \h5164, \h0145, \hB19B>>,
    <<\h0000, \h0000, \h0000, \h0014>>, <<\h0000, \h0000, \h0000, \h0022>>, <<\h0000, \h0000, \h0000, \h0012>>,
    <<\h0000, \h0000, \h0000, \h0027>>, <<\h0000, \h0000, \h0000, \h000D>>, <<\h0000, \h0000, \h0000, \h000D>>,
    <<\h0000, \h0000, \h0000, \h001C>>, <<\h0000, \h0000, \h0000, \h0002>>, <<\h0000, \h0000, \h0000, \h0010>>,
    <<\h0000, \h0000, \h0000, \h0029>>, <<\h0000, \h0000, \h0000, \h000F>>>>

S == S_of_rounds_0_to_5 \o S_of_rounds_6_to_11 \o S_of_rounds_12_to_17
       \o S_of_rounds_18_to_21
=============================================================================
